----------------------------- MODULE PointLaws ------------------------------
(***************************************************************************)
(* What signature.rs needs of edwards.rs: points with their operations as  *)
(* parameters, and the laws they obey.  Equality of points is the crate's  *)
(* own, ct_eq.  SmallCurve gives the parameters the formulas of Edwards on *)
(* a small curve, where TLC evaluates the laws; CurveScheme gives them the *)
(* same formulas on every curve, for which CurveProofs proves the laws.    *)
(***************************************************************************)
EXTENDS Scalar

CONSTANTS
  Identity, BasePoint,
  AddPoints(_, _), DoublePoint(_), MulPoint(_, _),
  EncodePoint(_), DecodePoint(_)

(* The base point has order L, its multiples are compatible with the       *)
(* arithmetic of scalars, every point has an encoding that decodes to it.  *)
GroupLaws(points) ==
  /\ Identity \in points /\ BasePoint \in points
  /\ \A p \in points, q \in points : AddPoints(p, q) \in points
  /\ \A p \in points : DoublePoint(p) \in points
  /\ \A p \in points, n \in 0 .. 2 * TopBit - 1 : MulPoint(p, n) \in points
  /\ \A n \in 0 .. 2 * TopBit - 1 :
       MulPoint(BasePoint, n) = MulPoint(BasePoint, n % L)
  /\ \A n \in Scalars : MulPoint(MulPoint(BasePoint, n), L) = Identity
  /\ \A n \in Scalars : MulPoint(BasePoint, n) = Identity <=> n = 0
  /\ \A n \in Scalars :
       DoublePoint(MulPoint(BasePoint, n)) = MulPoint(BasePoint, (2 * n) % L)
  /\ \A m \in Scalars, n \in Scalars :
       MulPoint(BasePoint, (m + n) % L)
         = AddPoints(MulPoint(BasePoint, m), MulPoint(BasePoint, n))
  /\ \A m \in Scalars, n \in Scalars :
       MulPoint(BasePoint, (m * n) % L)
         = MulPoint(MulPoint(BasePoint, n), m)
  /\ \A p \in points : \E e \in Encoding :
       EncodePoint(p) = Some(e) /\ DecodePoint(e) = Some(p)
  /\ \A e \in Encoding :
       DecodePoint(e) = None \/ \E p \in points : DecodePoint(e) = Some(p)

=============================================================================
