----------------------------- MODULE TaintGate ------------------------------
(***************************************************************************)
(* scripts/check-secret-taint.sh with the harness it builds and runs under *)
(* Valgrind, command by command and statement by statement: what the gate  *)
(* has seen when it exits with 0.  The harness may also be started by      *)
(* hand, with any arguments, on any build, in Valgrind or out of it.       *)
(***************************************************************************)
EXTENDS Integers, Sequences

CONSTANT MaxSignals    \* see Shell

ASSUME SignalsAssumption == MaxSignals \in Nat

VARIABLES
  disk, line, trapped, signals, exit,      \* the shell of the gate
  script, use, path, cleanup, step, passed,
  instrumented, failpoint, operation, function, at, memory, owned, tainted,
  memcheck_error, result,                  \* the process of the harness
  on_valgrind, error_exitcode, case, mode, environment,
  seed_undefined, matched,
  stage, verdict, h_exit,
  evidence    \* history: the runs of the harness that the gate has passed

gate == <<disk, line, trapped, signals, exit,
          script, use, path, cleanup, step, passed>>
process == <<instrumented, failpoint, operation, function, at, memory,
             owned, tainted, memcheck_error, result, on_valgrind,
             error_exitcode, case, mode, environment, seed_undefined, matched,
             stage, verdict, h_exit>>

vars == <<gate, process, evidence>>

G == INSTANCE GateScript
H == INSTANCE TaintHarness WITH exit <- h_exit

(* The for loops over the modes and the cases, the build ahead of them.    *)
Invocations ==
  << <<"defined", "public">>, <<"defined", "sign">>,
     <<"tainted", "public">>, <<"tainted", "sign">> >>

CallersFiles == {<<"home", "caller">>, <<"target", "caller">>}

Init ==
  /\ G!ScriptInit /\ script = "check_secret_taint"
  /\ disk \in {CallersFiles, CallersFiles \cup {<<"target", "caller", "stale">>}}
  /\ line \in {"tools", "none"}
  /\ line = "none" => /\ path = [kind \in G!Kinds |-> ""]
                      /\ use = [kind \in G!Kinds |-> "0"]
                      /\ disk = CallersFiles
  /\ H!Init
  /\ evidence = {}

-----------------------------------------------------------------------------

(* The gate is at a run of the harness, and the file is there.             *)
Running ==
  /\ G!At("steps")
  /\ step \in 2 .. Len(Invocations) + 1
  /\ G!Binaries # {}

GateStep ==
  line # "none" /\ ~Running /\ G!Next /\ UNCHANGED <<process, evidence>>

(* valgrind ... --case=... --mode=...  The features of cargo build's       *)
(* default instrument the harness; an older one may be of any build.       *)
Invoke ==
  /\ Running /\ stage = "idle"
  /\ \E build \in BOOLEAN :
       /\ "stale" \notin G!Binaries => build
       /\ H!Launch(build, TRUE, TRUE, Invocations[step - 1][2],
                   Invocations[step - 1][1], H!Variables)
  /\ UNCHANGED <<gate, evidence>>

(* Any build, in or out of Valgrind, with --error-exitcode=99 or without,  *)
(* any arguments and any environment.                                      *)
InvokeByHand ==
  /\ line = "none" /\ stage = "idle"
  /\ \E build \in BOOLEAN, valgrind \in BOOLEAN, exitcode \in BOOLEAN,
        c \in H!Cases \cup {"missing", "unsupported"},
        m \in H!Modes \cup {"missing", "unsupported"},
        set \in SUBSET H!Variables :
       /\ exitcode => valgrind
       /\ H!Launch(build, valgrind, exitcode, c, m, set)
  /\ UNCHANGED <<gate, evidence>>

HarnessStep == H!Step /\ UNCHANGED <<gate, evidence>>

Observed ==
  [mode |-> mode, case |-> case, on_valgrind |-> on_valgrind,
   instrumented |-> instrumented, matched |-> matched,
   branched |-> memcheck_error, undefined |-> H!Output \in tainted]

(* The command succeeds or fails with valgrind's status, which may also be *)
(* another than the harness's: it may find a leak, or be killed.           *)
Return ==
  /\ Running /\ stage = "done"
  /\ G!RunStep
  /\ step' = step + 1 => h_exit = 0
  /\ evidence' = IF exit' = -1 THEN evidence \cup {Observed} ELSE evidence
  /\ stage' = "idle" /\ h_exit' = -1
  /\ UNCHANGED <<instrumented, failpoint, operation, function, at, memory,
                 owned, tainted, memcheck_error, result, on_valgrind,
                 error_exitcode, case, mode, environment, seed_undefined,
                 matched, verdict>>

(* A signal handled between two runs: one that came during a run is, with  *)
(* the status of that run in hand.                                         *)
SignalBetweenRuns ==
  /\ Running /\ stage = "idle"
  /\ G!Interrupt
  /\ UNCHANGED <<process, evidence>>

Next ==
  \/ GateStep \/ Invoke \/ InvokeByHand \/ HarnessStep \/ Return
  \/ SignalBetweenRuns

Spec == Init /\ [][Next]_vars

-----------------------------------------------------------------------------

(* In the instrumented build no branch of a call, and none of the harness, *)
(* depends on an undefined bit: every predicate computed from the seed has *)
(* passed through declassify before it is branched on, on every path to a  *)
(* return.                                                                 *)
NoTaintedBranch == H!NoTaintedBranch

(* When the seed is undefined, everything the crate names as a secret      *)
(* computed from it stays undefined for as long as it is in memory:        *)
(* declassify is applied to public outputs and predicates and to nothing   *)
(* a secret owner holds, so the instrumentation hides no secret from       *)
(* Memcheck.                                                               *)
SecretsStayTainted == H!SecretsStayTainted

(* What anyone may conclude when a run of the harness exits with 0: the    *)
(* program was under Valgrind and the call returned the known answer.  If  *)
(* Valgrind was given --error-exitcode, as the gate gives it, that value   *)
(* was defined, Memcheck saw no branch on an undefined bit, and if the     *)
(* seed was to be undefined the crate was built with the instrumentation.  *)
(* A run without the option shows as much of an instrumented build.        *)
PassIsEvidence == H!PassIsEvidence

(* A gate that exits with 0 has seen all four runs, of an instrumented     *)
(* harness under Valgrind whose answers were right, defined and reached    *)
(* without a branch on an undefined bit: whatever harness the caller's     *)
(* target directory held, and whatever a signal removed on the way.        *)
GatePassIsEvidence ==
  exit = 0 =>
    evidence =
      {[mode |-> m, case |-> c, on_valgrind |-> TRUE, instrumented |-> TRUE,
        matched |-> TRUE, branched |-> FALSE, undefined |-> FALSE] :
         m \in H!Modes, c \in H!Cases}

=============================================================================
