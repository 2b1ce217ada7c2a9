---------------------------- MODULE GateScript ------------------------------
(***************************************************************************)
(* scripts/check.sh and scripts/check-secret-taint.sh: both take a cargo   *)
(* home and a target directory from the caller or make their own, and run  *)
(* a list of commands, each of which succeeds or fails, with a status that *)
(* is 1 here.                                                              *)
(***************************************************************************)
EXTENDS Shell

VARIABLES
  script,     \* "check" or "check_secret_taint"
  use,        \* ED301_USE_CALLER_CARGO_HOME and .._TARGET_DIR
  path,       \* CARGO_HOME and CARGO_TARGET_DIR
  cleanup,    \* the flags cleanup_home and cleanup_target
  step,       \* the next of the script's Steps
  passed      \* the steps that succeeded, with what they ran on

settings == <<script, use>>

vars == <<disk, shell, settings, path, cleanup, step, passed>>

Kinds == {"home", "target"}

Steps ==
  [check |-> <<"versions", "metadata", "fmt", "clippy", "test", "test --release",
               "doc", "check-downstream">>,
   check_secret_taint |-> <<"build", "defined public", "defined sign",
                            "tainted public", "tainted sign">>]

(* The caller may have either variable in its environment in any case, and *)
(* an older harness in its target directory.                               *)
ScriptInit ==
  /\ script \in DOMAIN Steps
  /\ use \in [Kinds -> {"0", "1", "other"}]
  /\ path \in [Kinds -> {"", "caller"}]
  /\ cleanup = [kind \in Kinds |-> 0]
  /\ step = 1 /\ passed = {}
  /\ ShellInit

-----------------------------------------------------------------------------

(* A cleanup that does not look at the flags.                              *)
MineUnflagged == {<<kind, path[kind]>> : kind \in Kinds}

(* The paths that cleanup removes.                                         *)
Mine == {<<kind, path[kind]>> : kind \in {k \in Kinds : cleanup[k] = 1}}

CheckTools ==
  /\ At("tools")
  /\ \/ Exit(127, Mine)
     \/ /\ GoTo(IF script = "check" THEN "manifests" ELSE "trap")
        /\ UNCHANGED disk
  /\ UNCHANGED <<settings, path, cleanup, step, passed>>

CheckManifests ==
  /\ At("manifests")
  /\ \/ Exit(1, Mine)
     \/ GoTo("trap") /\ UNCHANGED disk
  /\ UNCHANGED <<settings, path, cleanup, step, passed>>

Trap ==
  /\ At("trap")
  /\ SetTrap("home")
  /\ UNCHANGED <<disk, settings, path, cleanup, step, passed>>

After == [home |-> "target", target |-> "steps"]
Flag == [home |-> "home flag", target |-> "target flag"]

(* The case commands: mktemp, the caller's directory, or a refusal.        *)
Select(kind) ==
  /\ At(kind)
  /\ \/ /\ use[kind] = "0"
        /\ path' = [path EXCEPT ![kind] = "temporary"]
        /\ disk' = disk \cup {<<kind, "temporary">>}
        /\ GoTo(Flag[kind])
     \/ /\ use[kind] = "0"    \* mktemp fails
        /\ path' = [path EXCEPT ![kind] = ""]
        /\ Exit(1, Mine)
     \/ /\ use[kind] = "1" /\ path[kind] # ""
        /\ GoTo(After[kind]) /\ UNCHANGED <<disk, path>>
     \/ /\ use[kind] = "other" \/ (use[kind] = "1" /\ path[kind] = "")
        /\ Exit(2, Mine) /\ UNCHANGED path
  /\ UNCHANGED <<settings, cleanup, step, passed>>

(* cleanup_target=1 in both places.                                        *)
SetTargetFlag(kind) ==
  /\ At(Flag[kind])
  /\ cleanup' = [cleanup EXCEPT !["target"] = 1]
  /\ GoTo(After[kind])
  /\ UNCHANGED <<disk, settings, path, step, passed>>

SetFlag(kind) ==
  /\ At(Flag[kind])
  /\ cleanup' = [cleanup EXCEPT ![kind] = 1]
  /\ GoTo(After[kind])
  /\ UNCHANGED <<disk, settings, path, step, passed>>

Target == <<"target", path["target"]>>

(* The harness in the target directory, if there is one.                   *)
Binaries == {age \in {"stale", "fresh"} : Has(Append(Target, age))}

(* What a command that succeeds leaves on the disk: cargo makes again the  *)
(* directories that are gone, and build replaces the harness.              *)
Written(command) ==
  LET made == {<<kind, path[kind]>> : kind \in Kinds}
  IN  IF command = "build"
      THEN (disk \cup made \cup {Append(Target, "fresh")})
             \ {Append(Target, "stale")}
      ELSE disk \cup made

(* The same without set -e: a failure is passed over.                      *)
RunStepRegardless ==
  /\ At("steps")
  /\ step <= Len(Steps[script])
  /\ \/ /\ disk' = Written(Steps[script][step])
        /\ passed' = passed \cup {<<Steps[script][step], Binaries>>}
     \/ UNCHANGED <<disk, passed>>
  /\ step' = step + 1
  /\ GoTo("steps")
  /\ UNCHANGED <<settings, path, cleanup>>

RunStep ==
  /\ At("steps")
  /\ step <= Len(Steps[script])
  /\ LET command == Steps[script][step]
         runs_harness == script = "check_secret_taint" /\ command # "build"
     IN  \/ /\ runs_harness => Binaries # {}
            /\ disk' = IF runs_harness THEN disk ELSE Written(command)
            /\ passed' = passed \cup {<<command, Binaries>>}
            /\ step' = step + 1
            /\ GoTo("steps")
         \/ Exit(1, Mine) /\ UNCHANGED <<passed, step>>
  /\ UNCHANGED <<settings, path, cleanup>>

Finish ==
  /\ At("steps") /\ step > Len(Steps[script])
  /\ Exit(0, Mine)
  /\ UNCHANGED <<settings, path, cleanup, step, passed>>

Interrupt ==
  /\ Signal(Mine)
  /\ UNCHANGED <<settings, path, cleanup, step, passed>>

Next ==
  \/ CheckTools \/ CheckManifests \/ Trap
  \/ \E kind \in Kinds : Select(kind) \/ SetFlag(kind)
  \/ RunStep \/ Finish \/ Interrupt

-----------------------------------------------------------------------------

TypeOK ==
  /\ script \in DOMAIN Steps /\ use \in [Kinds -> {"0", "1", "other"}]
  /\ path \in [Kinds -> {"", "caller", "temporary"}]
  /\ cleanup \in [Kinds -> {0, 1}]
  /\ step \in 1 .. Len(Steps[script]) + 1
  /\ exit \in {-1, 0, 1, 2, 127, 143} /\ signals \in 0 .. MaxSignals
  /\ \A kind \in Kinds : cleanup[kind] = 1 => path[kind] = "temporary"

(* Whatever fails and whenever a signal comes, no cleanup removes the      *)
(* cargo home or the target directory of the caller, which are the value   *)
(* of the same variables until mktemp has succeeded.                       *)
CallerDirectoriesKept ==
  \A kind \in Kinds : Has(<<kind, "caller">>)

(* A gate that has ended, in whatever way, has left no directory of its    *)
(* own, also when a signal fell between mktemp and the flag that goes with *)
(* it, or when cargo made a directory again after a handler removed it.    *)
NothingLeftBehind ==
  exit # -1 => \A kind \in Kinds : ~Has(<<kind, "temporary">>)

(* A gate that exits with 0 has run every one of its commands with success *)
(* and the runs of the taint harness were runs of the harness just built,  *)
(* interrupted or not, though a signal may have removed it meanwhile and   *)
(* the caller's target directory may have held an older one.               *)
PassMeansEveryStepSucceeded ==
  exit = 0 =>
    /\ {pair[1] : pair \in passed} = Range(Steps[script])
    /\ script = "check_secret_taint" =>
         \A pair \in passed : pair[1] # "build" => pair[2] = {"fresh"}

=============================================================================
