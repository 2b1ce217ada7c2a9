------------------------------ MODULE CtOption ------------------------------
(***************************************************************************)
(* The two shapes a fallible value takes in the crate: the CtOption of     *)
(* crypto-bigint (an inverse, a square root, a canonical integer) and the  *)
(* Result<_, EdwardsPointError> of the point codec.  Which error a Result  *)
(* carries is fixed by the function that returns it, so it is left out.    *)
(***************************************************************************)

None == [some |-> FALSE]

Some(v) == [some |-> TRUE, value |-> v]

(* The option a checked computation returns: v when ok holds, else absent. *)
Checked(ok, v) == IF ok THEN Some(v) ELSE None

=============================================================================
