---------------------------- MODULE SecretCalls -----------------------------
(***************************************************************************)
(* A thread that imports a key, makes calls on it one after another, arms  *)
(* the test failpoint as it likes, catches the panics (catch_unwind in the *)
(* tests of signature.rs), and drops the key.  No value is tainted here.   *)
(***************************************************************************)
EXTENDS SecretFlow

CONSTANTS MaxCalls, MaxArms    \* bounds on the calls and the armings

ASSUME CallsAssumption == MaxCalls \in Nat /\ MaxArms \in Nat

VARIABLES calls, arms, panics    \* how many there have been

vars == <<flow, calls, arms, panics>>

Points == {"ExpandedSecret", "SignIntermediates"}

Init ==
  /\ FlowInit /\ ~instrumented
  /\ calls = 0 /\ arms = 0 /\ panics = 0

Import == ImportKey(FALSE) /\ UNCHANGED <<calls, arms, panics>>

Drop == DropKey /\ UNCHANGED <<calls, arms, panics>>

Call ==
  /\ calls < MaxCalls
  /\ \E op \in {"sign", "verifying_key"} : EnterCall(op)
  /\ calls' = calls + 1
  /\ UNCHANGED <<arms, panics>>

(* arm_secret_failpoint.                                                   *)
Arm ==
  /\ function = "idle" /\ arms < MaxArms
  /\ failpoint' \in Points
  /\ arms' = arms + 1
  /\ UNCHANGED <<instrumented, operation, function, at, memory, owned,
                 tainted, memcheck_error, result, calls, panics>>

Step ==
  /\ CallStep
  /\ panics' = IF result' = "panicked" THEN panics + 1 ELSE panics
  /\ UNCHANGED <<calls, arms>>

Next == Import \/ Drop \/ Call \/ Arm \/ Step

(* The thread waits for nothing inside a call.                             *)
Spec == Init /\ [][Next]_vars /\ WF_vars(Step)

-----------------------------------------------------------------------------

TypeOK == FlowTypeOK /\ failpoint \in Points \cup {"none"}

(* When a call has ended, by returning a value, by returning an error from *)
(* any of its checks, or by unwinding from either failpoint, none of the   *)
(* named owners it made is left in memory; only a key still held keeps its *)
(* seed.                                                                   *)
NamedOwnersAreWiped ==
  function = "idle" =>
    memory \cap NamedOwners \subseteq owned["key"]

(* A panic uses up one arming: a call made after one that unwound is not   *)
(* interrupted by the same failpoint again, which is what lets signing     *)
(* recover.                                                                *)
OnePanicPerArm == panics <= arms

(* Every call ends, one way or another.                                    *)
CallsEnd == function # "idle" ~> function = "idle"

=============================================================================
