-------------------------- MODULE PointMathematics --------------------------
(***************************************************************************)
(* What the draft says of points: the sum, the multiples and the encoding  *)
(* of mathematics as further parameters, the code of PointLaws compared    *)
(* with them, and the laws of a group that the scheme needs.               *)
(***************************************************************************)
EXTENDS PointLaws

CONSTANTS
  Sum(_, _), Multiple(_, _), ENC(_)

(* The code adds, multiplies and encodes as the mathematics does, and the  *)
(* cofactor 4 can be cleared before or after a sum or a multiple.          *)
MathematicsLaws(points) ==
  /\ \A p \in points, q \in points :
       AddPoints(p, q) = Sum(p, q)
  /\ \A p \in points, n \in 0 .. 2 * TopBit - 1 :
       MulPoint(p, n) = Multiple(n, p)
  /\ \A p \in points :
       EncodePoint(p) = Some(ENC(p)) /\ DecodePoint(ENC(p)) = Some(p)
  /\ \A e \in Encoding :
       DecodePoint(e) = None \/ \E p \in points : ENC(p) = e
  /\ \A p \in points :
       DoublePoint(DoublePoint(p)) = Multiple(4, p)
  /\ \A p \in points, q \in points :
       Multiple(4, Sum(p, q)) = Sum(Multiple(4, p), Multiple(4, q))
  /\ \A p \in points, n \in Scalars :
       Multiple(4, Multiple(n, p)) = Multiple(4 * n, p)

=============================================================================
