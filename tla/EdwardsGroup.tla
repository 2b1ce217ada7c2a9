---------------------------- MODULE EdwardsGroup ----------------------------
(***************************************************************************)
(* The reference the point code is compared with: the affine twisted       *)
(* Edwards curve, its textbook group law, and the discrete logarithm that  *)
(* numbers its 4 L points by the multiples of one generator.  Nothing here *)
(* is translated from the code; the curve is cyclic for every A that is a  *)
(* square, so the generator exists.                                        *)
(***************************************************************************)
EXTENDS Edwards, FiniteSets

GroupOrder == 4 * L

Residues == 0 .. P - 1
Times(x, y) == (x * y) % P

Reciprocals == [x \in Residues \ {0} |-> CHOOSE y \in Residues : Times(x, y) = 1]

CurvePoints ==
  {p \in Residues \X Residues :
     LET xx == Times(p[1], p[1])
         yy == Times(p[2], p[2])
     IN  (A * xx + yy) % P = (1 + D * Times(xx, yy)) % P}

(* (x1 y2 + y1 x2) / (1 + k), (y1 y2 - A x1 x2) / (1 - k).                 *)
AffineAdd(p, q) ==
  LET k == D * Times(Times(p[1], q[1]), Times(p[2], q[2]))
  IN  << Times(p[1] * q[2] + p[2] * q[1], Reciprocals[(1 + k) % P]),
         Times((p[2] * q[2] - A * p[1] * q[1]) % P,
               Reciprocals[(1 - k) % P]) >>

(* The n-th multiples of p, n in 0 .. 4 L - 1, each from the one at half   *)
(* its index.                                                              *)
Multiples(p) ==
  LET multiple[n \in 0 .. GroupOrder - 1] ==
        IF n = 0 THEN <<0, 1>>
        ELSE LET half == multiple[n \div 2]
                 double == AffineAdd(half, half)
             IN  IF n % 2 = 0 THEN double ELSE AffineAdd(double, p)
  IN  [n \in 0 .. GroupOrder - 1 |-> multiple[n]]

(* Base plus the point (1 / sqrt A, 0) of order four has order 4 L.        *)
Generator ==
  LET s == CHOOSE r \in Residues : Times(r, r) = A
  IN  AffineAdd(<<BaseX, BaseY>>, <<Reciprocals[s], 0>>)

GeneratorMultiples == Multiples(Generator)

Log ==
  LET multiples == GeneratorMultiples
  IN  [p \in CurvePoints |->
         CHOOSE n \in 0 .. GroupOrder - 1 : multiples[n] = p]

(* The curve is a cyclic group of order 4 L under its group law, which the *)
(* generator generates; the base point is one of order L.                  *)
ASSUME GroupAssumption ==
  LET log == Log
  IN  /\ log \in [CurvePoints -> 0 .. GroupOrder - 1]
      /\ \A p, q \in CurvePoints : log[p] = log[q] => p = q
      /\ log[<<0, 1>>] = 0
      /\ \A p, q \in CurvePoints :
           log[AffineAdd(p, q)] = (log[p] + log[q]) % GroupOrder
      /\ <<BaseX, BaseY>> \in CurvePoints /\ BaseT = Times(BaseX, BaseY)
      /\ \A n \in 0 .. GroupOrder - 1 :
           (n * log[<<BaseX, BaseY>>]) % GroupOrder = 0 <=> n % L = 0

(* The affine point, in canonical integers, that an extended point of the  *)
(* code stands for, and its discrete logarithm.                            *)
Affine(p) ==
  LET z == Reciprocals[FeToCanonical(p.z)]
  IN  <<Times(FeToCanonical(p.x), z), Times(FeToCanonical(p.y), z)>>

PointLog(p) == Log[Affine(p)]

(* The extended coordinates of an affine point with a given Z.             *)
Extended(p, z) ==
  LET form(integer) == FeFromInteger((integer * z) % P)
  IN  [x |-> form(p[1]), y |-> form(p[2]), z |-> form(1),
       t |-> form(Times(p[1], p[2]))]

(* ENC(x, y) of the draft, section 3.1.                                    *)
WireImage(p) == p[2] + (p[1] % 2) * 4 * YSpace

WireImages == {WireImage(p) : p \in CurvePoints}

=============================================================================
