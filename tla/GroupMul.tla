------------------------------ MODULE GroupMul ------------------------------
(***************************************************************************)
(* What a scalar multiplication promises, in the cyclic group of order     *)
(* Order written additively: the product of a group element and a scalar   *)
(* appears, in one step, where there was no result.                        *)
(***************************************************************************)
EXTENDS Integers

CONSTANTS Order, NoResult

VARIABLES element, multiplier, result

vars == <<element, multiplier, result>>

Init ==
  /\ element \in 0 .. Order - 1
  /\ multiplier \in Nat
  /\ result = NoResult

Multiply ==
  /\ result = NoResult
  /\ result' = (element * multiplier) % Order
  /\ UNCHANGED <<element, multiplier>>

Spec == Init /\ [][Multiply]_vars /\ WF_vars(Multiply)

=============================================================================
