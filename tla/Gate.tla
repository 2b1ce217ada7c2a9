------------------------------- MODULE Gate ---------------------------------
(***************************************************************************)
(* The gate scripts as they run: check.sh or check-secret-taint.sh with    *)
(* check-downstream.sh as the last command of the former, or the           *)
(* downstream script called by itself.  A shell that waits for the script  *)
(* it called handles its signals when that has ended.                      *)
(***************************************************************************)
EXTENDS Integers, Sequences

CONSTANTS MaxSignals, Profiles    \* see Shell and Downstream

ASSUME GateAssumption ==
  /\ MaxSignals \in Nat
  /\ Profiles \subseteq SUBSET {"on", "off", "absent"}

VARIABLES
  disk,                                    \* the one thing both work on
  line, trapped, signals, exit,            \* the shell of the calling script
  script, use, path, cleanup, step, passed,
  d_line, d_trapped, d_signals, d_exit,    \* the shell of check-downstream.sh
  home, compiled, target, marker

caller == <<line, trapped, signals, exit,
            script, use, path, cleanup, step, passed>>
downstream == <<d_line, d_trapped, d_signals, d_exit,
                home, compiled, target, marker>>

vars == <<disk, caller, downstream>>

C == INSTANCE GateScript
D == INSTANCE Downstream WITH line <- d_line, trapped <- d_trapped,
                              signals <- d_signals, exit <- d_exit

CallersFiles ==
  {<<"home", "caller">>, <<"target", "caller">>,
   <<"downstream", "caller">>, <<"marker", "caller">>}

Init ==
  /\ C!ScriptInit /\ D!DownstreamInit
  /\ disk \in {CallersFiles, CallersFiles \cup {<<"target", "caller", "stale">>}}
  /\ \/ line = "tools" /\ d_line = "none" /\ home = ""
     \/ /\ line = "none" /\ d_line = "home" /\ home \in {"", "caller"}
        /\ script = "check" /\ path = [kind \in C!Kinds |-> ""]
        /\ use = [kind \in C!Kinds |-> "0"]

-----------------------------------------------------------------------------

(* The calling script is at its call of check-downstream.sh.               *)
Calling ==
  /\ C!At("steps")
  /\ step <= Len(C!Steps[script])
  /\ C!Steps[script][step] = "check-downstream"

CallerStep == line # "none" /\ ~Calling /\ C!Next /\ UNCHANGED downstream

(* sh check-downstream.sh, with the caller's CARGO_HOME exported.          *)
Call ==
  /\ Calling /\ d_line = "none"
  /\ d_line' = "home" /\ home' = path["home"]
  /\ UNCHANGED <<disk, caller, d_trapped, d_signals, d_exit,
                 compiled, target, marker>>

DownstreamStep == d_line # "none" /\ D!Next /\ UNCHANGED caller

(* The command of the caller succeeds or fails with the script's status.   *)
Return ==
  /\ Calling /\ d_exit # -1
  /\ C!RunStep
  /\ step' = step + 1 <=> d_exit = 0
  /\ UNCHANGED downstream

(* A signal handled ahead of the call, or one that came while it waited.   *)
LateSignal ==
  /\ Calling
  /\ d_line = "none" \/ d_exit # -1
  /\ C!Interrupt
  /\ UNCHANGED downstream

Next == CallerStep \/ Call \/ DownstreamStep \/ Return \/ LateSignal

Spec == Init /\ [][Next]_vars

-----------------------------------------------------------------------------

TypeOK == C!TypeOK /\ D!TypeOK

(* Whatever fails and whenever a signal comes, no cleanup of any script    *)
(* removes a directory of the caller's, though the variables that cleanup  *)
(* uses name those until a mktemp has succeeded.                           *)
CallerDirectoriesKept == C!CallerDirectoriesKept /\ D!CallerDirectoriesKept

(* A gate that has ended, in whatever way, has left no directory of its    *)
(* own: not when a signal fell between mktemp and the flag that goes with  *)
(* it, nor when a cargo of either script made a directory again that a     *)
(* handler had removed.                                                    *)
NothingLeftBehind == C!NothingLeftBehind /\ D!NothingLeftBehind

(* A gate that exits with 0 has run every one of its commands with success *)
(* and the runs of the taint harness were runs of the harness just built,  *)
(* interrupted or not, though a signal may have removed it meanwhile and   *)
(* the caller's target directory may have held an older one.               *)
PassMeansEveryStepSucceeded == C!PassMeansEveryStepSucceeded

(* A gate that exits with 0, whatever signals check.sh got, has built the  *)
(* downstream workspace with overflow checks always on in the crate and    *)
(* never in crypto-bigint, and has compiled both, if no signal came to the *)
(* downstream script.                                                      *)
UninterruptedPassMeansProfile ==
  LET passes == d_exit = 0 \/ (exit = 0 /\ script = "check")
  IN  passes /\ d_signals = 0 => D!ProfileHeld

(* "ed301_eddsa did not retain top-level overflow checks": check-downstream*)
(* exits with 0 only if the crate was compiled, always with the checks on. *)
PassMeansOverflowChecksOn == d_exit = 0 => compiled["ed301_eddsa"] = {"on"}

=============================================================================
