---------------------------- MODULE SigningDraft ----------------------------
(***************************************************************************)
(* The crate implements the draft: Signing under the mapping that keeps    *)
(* the hash and the outcomes, and forgets every call in progress.          *)
(***************************************************************************)
EXTENDS Signing, PointMathematics

(* The point code computes the mathematics of the curve.                   *)
ASSUME CurveMathAssumption == MathematicsLaws(Points)

Draft ==
  INSTANCE EdDSA WITH Base <- BasePoint

(* Every call that returns has the outcome of the draft's equations, for   *)
(* the hash as it was evaluated: keys and signatures byte for byte, and    *)
(* for a verifier exactly the language of the cofactored equation.         *)
ImplementsDraft == Draft!Spec

=============================================================================
