---------------------------- MODULE SecretProofs ----------------------------
(***************************************************************************)
(* Proofs about SecretCalls.                                               *)
(***************************************************************************)
EXTENDS SecretCalls, FlowProofs

-----------------------------------------------------------------------------
(* The thread.                                                             *)

(* An armed failpoint is an arming that no panic has used up.              *)
PanicsOK ==
  /\ failpoint \in Points \cup {"none"}
  /\ arms \in Nat /\ panics \in Nat
  /\ panics <= arms
  /\ failpoint # "none" => panics + 1 <= arms

(* The inductive invariant.                                                *)
SInv == FlowInv /\ PanicsOK

(* It is one.                                                              *)
LEMMA SInvHolds == Spec => []SInv
<1>1. Init => SInv
  <2> SUFFICES ASSUME Init PROVE SInv
    OBVIOUS
  <2>1. FlowInit /\ arms = 0 /\ panics = 0
    BY DEF Init
  <2>2. FlowInv
    BY <2>1, InitFlow
  <2>3. PanicsOK
    BY <2>1 DEF FlowInit, PanicsOK
  <2> QED  BY <2>2, <2>3 DEF SInv
<1>2. SInv /\ [Next]_vars => SInv'
  <2> SUFFICES ASSUME SInv, [Next]_vars PROVE SInv'
    OBVIOUS
  <2>1. FlowInv /\ PanicsOK
    BY DEF SInv
  <2>2. CASE Import
    <3>1. ImportKey(FALSE) /\ arms' = arms /\ panics' = panics
      BY <2>2 DEF Import
    <3>2. failpoint' = failpoint
      BY <3>1 DEF ImportKey
    <3>3. FlowInv'
      BY <2>1, <3>1, KeyStepsKeep
    <3> QED  BY <2>1, <3>1, <3>2, <3>3 DEF SInv, PanicsOK
  <2>3. CASE Drop
    <3>1. DropKey /\ arms' = arms /\ panics' = panics
      BY <2>3 DEF Drop
    <3>2. failpoint' = failpoint
      BY <3>1 DEF DropKey
    <3>3. FlowInv'
      BY <2>1, <3>1, KeyStepsKeep
    <3> QED  BY <2>1, <3>1, <3>2, <3>3 DEF SInv, PanicsOK
  <2>4. CASE Call
    <3>1. PICK op \in {"sign", "verifying_key"} : EnterCall(op)
      BY <2>4 DEF Call
    <3>2. arms' = arms /\ panics' = panics
      BY <2>4 DEF Call
    <3>3. failpoint' = failpoint
      BY <3>1 DEF EnterCall
    <3>4. FlowInv'
      BY <2>1, <3>1, EnterCallKeeps
    <3> QED  BY <2>1, <3>2, <3>3, <3>4 DEF SInv, PanicsOK
  <2>5. CASE Arm
    <3>1. failpoint' \in Points /\ arms' = arms + 1 /\ panics' = panics
      BY <2>5 DEF Arm
    <3>2. /\ operation' = operation /\ function' = function /\ at' = at
          /\ memory' = memory /\ owned' = owned /\ result' = result
      BY <2>5 DEF Arm
    <3>3. FlowInv'
      BY <2>1, <3>2
         DEF FlowInv, FlowTypeOK, OperationOK, OwnersAreFramed, FramesOK,
             DeriveOK, ResultOK
    <3>4. PanicsOK'
      BY <2>1, <3>1 DEF PanicsOK
    <3> QED  BY <3>3, <3>4 DEF SInv
  <2>6. CASE Step
    <3>1. /\ CallStep /\ arms' = arms
          /\ panics' = IF result' = "panicked" THEN panics + 1 ELSE panics
      BY <2>6 DEF Step
    <3>2. FlowInv'
      BY <2>1, <3>1, CallStepKeeps
    <3>3. IF result' = "panicked"
          THEN failpoint # "none" /\ failpoint' = "none"
          ELSE failpoint' = failpoint
      BY <2>1, <3>1, PanicDisarms
    <3>4. PanicsOK'
      BY <2>1, <3>1, <3>3 DEF PanicsOK
    <3> QED  BY <3>2, <3>4 DEF SInv
  <2>7. CASE UNCHANGED vars
    <3>1. /\ operation' = operation /\ function' = function /\ at' = at
          /\ memory' = memory /\ owned' = owned /\ result' = result
          /\ failpoint' = failpoint /\ arms' = arms /\ panics' = panics
      BY <2>7 DEF vars, flow
    <3> QED
      BY <2>1, <3>1
         DEF SInv, PanicsOK, FlowInv, FlowTypeOK, OperationOK, OwnersAreFramed,
             FramesOK, DeriveOK, ResultOK
  <2> QED
    BY <2>2, <2>3, <2>4, <2>5, <2>6, <2>7 DEF Next
<1> QED  BY <1>1, <1>2, PTL DEF Spec

(* TypeOK is an invariant: control is in a function of the call under way, *)
(* at one of its statements or behind the last, and what a guard owns is   *)
(* in memory, so that what ReturnDerived moves is there to be moved.       *)
THEOREM OwnersAreTyped == Spec => []TypeOK
<1>1. SInv => TypeOK
  BY DEF SInv, FlowInv, PanicsOK, TypeOK
<1> QED  BY <1>1, SInvHolds, PTL

(* However calls are made, interrupted and retried, and whichever checks   *)
(* fail: when no call is under way, no named owner is in memory but the    *)
(* seed of a key that is still held.                                       *)
THEOREM OwnersAreWiped == Spec => []NamedOwnersAreWiped
<1>1. SInv => NamedOwnersAreWiped
  <2> SUFFICES ASSUME SInv, function = "idle"
               PROVE  memory \cap NamedOwners \subseteq owned["key"]
    BY DEF NamedOwnersAreWiped
  <2>1. owned["call"] = {} /\ owned["function"] = {}
    BY DEF SInv, FlowInv, FramesOK
  <2> QED  BY <2>1 DEF SInv, FlowInv, OwnersAreFramed
<1> QED  BY <1>1, SInvHolds, PTL

(* There are never more panics than armings.                               *)
THEOREM PanicsUseUpArmings == Spec => []OnePanicPerArm
<1>1. SInv => OnePanicPerArm
  BY DEF SInv, PanicsOK, OnePanicPerArm
<1> QED  BY <1>1, SInvHolds, PTL

=============================================================================
