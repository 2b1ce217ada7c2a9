------------------------------ MODULE Edwards -------------------------------
(***************************************************************************)
(* crates/ed301-eddsa/src/edwards.rs: the twisted Edwards curve            *)
(*     A x^2 + y^2 = 1 + D x^2 y^2                                         *)
(* in extended coordinates (X : Y : Z : T) with X Y = Z T, and the codec   *)
(* of compressed points.                                                   *)
(*                                                                         *)
(* An encoding, 38 bytes in the code, is the integer those bytes spell in  *)
(* little-endian order: FieldBits bits of y, two reserved bits, and the    *)
(* sign bit.  The fixed-round scalar multiplier is here as a function of   *)
(* its inputs; ScalarMul.tla runs it round by round.                       *)
(***************************************************************************)
EXTENDS Field, Powers

CONSTANTS
  A, D,          \* coefficients: A is a square, D is not
  L,             \* the prime order of the base point; the curve has 4 L points
  FieldBits,     \* 301: the bit length of P and the rounds of a multiplication
  BaseX, BaseY,  \* the base point, affine, and the product of the two,
  BaseT          \*   all of them canonical integers like A and D

YSpace == Power(2, FieldBits)       \* what the y bits can spell
EncodingSpace == Power(2, FieldBits + 3)

Encoding == 0 .. EncodingSpace - 1

ASSUME CurveAssumption ==
  /\ A \in 1 .. P - 1 /\ D \in 1 .. P - 1
  /\ \E s \in 1 .. P - 1 : (s * s) % P = A
  /\ \A s \in 1 .. P - 1 : (s * s) % P # D
  /\ FieldBits \in Nat \ {0}
  /\ YSpace \div 2 <= P /\ P < YSpace
  /\ L \in Nat /\ L % 2 = 1 /\ L < YSpace \div 2 /\ YSpace <= 4 * L
  /\ \A i \in 2 .. L - 1 : L % i # 0
  /\ {BaseX, BaseY, BaseT} \subseteq 0 .. P - 1

-----------------------------------------------------------------------------

EDWARDS_A == FeFromInteger(A)
EDWARDS_D == FeFromInteger(D)
TWO == FeFromInteger(2)

IDENTITY == [x |-> FeZero, y |-> FeOne, z |-> FeOne, t |-> FeZero]

BASEPOINT == [x |-> FeFromInteger(BaseX), y |-> FeFromInteger(BaseY),
              z |-> FeOne, t |-> FeFromInteger(BaseT)]

FromAffine(x, y) == [x |-> x, y |-> y, z |-> FeOne, t |-> FeMul(x, y)]

PointAdd(p, q) ==
  LET xx == FeMul(p.x, q.x)
      yy == FeMul(p.y, q.y)
      dt == FeMul(FeMul(EDWARDS_D, p.t), q.t)
      zz == FeMul(p.z, q.z)
      cross == FeSub(FeSub(FeMul(FeAdd(p.x, p.y), FeAdd(q.x, q.y)), xx), yy)
      difference == FeSub(zz, dt)
      sum == FeAdd(zz, dt)
      twisted == FeSub(yy, FeMul(EDWARDS_A, xx))
  IN  [x |-> FeMul(cross, difference),
       y |-> FeMul(sum, twisted),
       z |-> FeMul(difference, sum),
       t |-> FeMul(cross, twisted)]

(* A plausible slip: the untwisted numerator y1 y2 - x1 x2, without A.     *)
PointDoubleUntwisted(p) ==
  LET xx == FeSquare(p.x)
      yy == FeSquare(p.y)
      cross == FeSub(FeSub(FeSquare(FeAdd(p.x, p.y)), xx), yy)
      sum == FeAdd(xx, yy)
      difference == FeSub(sum, FeMul(TWO, FeSquare(p.z)))
      twisted == FeSub(xx, yy)
  IN  [x |-> FeMul(cross, difference),
       y |-> FeMul(sum, twisted),
       z |-> FeMul(difference, sum),
       t |-> FeMul(cross, twisted)]

PointDouble(p) ==
  LET xx == FeSquare(p.x)
      yy == FeSquare(p.y)
      two_zz == FeMul(TWO, FeSquare(p.z))
      twisted_xx == FeMul(EDWARDS_A, xx)
      cross == FeSub(FeSub(FeSquare(FeAdd(p.x, p.y)), xx), yy)
      sum == FeAdd(twisted_xx, yy)
      difference == FeSub(sum, two_zz)
      twisted_difference == FeSub(twisted_xx, yy)
  IN  [x |-> FeMul(cross, difference),
       y |-> FeMul(sum, twisted_difference),
       z |-> FeMul(difference, sum),
       t |-> FeMul(cross, twisted_difference)]

MultiplyByCofactor(p) == PointDouble(PointDouble(p))

IsIdentity(p) == FeIsZero(p.x) /\ p.y = p.z

(* Equality of projective points by cross multiplication.                  *)
CtEq(p, q) ==
  /\ FeMul(p.x, q.z) = FeMul(q.x, p.z)
  /\ FeMul(p.y, q.z) = FeMul(q.y, p.z)

IsValid(p) ==
  LET xx == FeSquare(p.x)
      yy == FeSquare(p.y)
      zz == FeSquare(p.z)
  IN  /\ ~FeIsZero(p.z)
      /\ FeMul(p.x, p.y) = FeMul(p.z, p.t)
      /\ FeAdd(FeMul(FeMul(EDWARDS_A, xx), zz), FeMul(yy, zz))
           = FeAdd(FeSquare(zz), FeMul(FeMul(EDWARDS_D, xx), yy))

-----------------------------------------------------------------------------

(* Bit i of a scalar.                                                      *)
Bit(scalar, i) == (scalar \div Power(2, i)) % 2

ConditionalSelect(when_false, when_true, choice) ==
  [c \in {"x", "y", "z", "t"} |->
     FeConditionalSelect(when_false[c], when_true[c], choice)]

(* One round: double, add, and keep the sum only when the bit is set.      *)
Round(p, accumulator, bit) ==
  LET doubled == PointDouble(accumulator)
  IN  ConditionalSelect(doubled, PointAdd(doubled, p), bit)

(* The whole multiplication, from the top bit down.  Whatever a 38-byte    *)
(* scalar holds above bit FieldBits - 1 is not read.                       *)
ScalarMulWith(p, scalar) ==
  LET after[i \in 0 .. FieldBits] ==
        IF i = FieldBits THEN IDENTITY
                         ELSE Round(p, after[i + 1], Bit(scalar, i))
  IN  after[0]

(* The subgroup test run with the cofactor in place of the group order.    *)
IsPrimeSubgroupByCofactor(p) == ~IsIdentity(MultiplyByCofactor(p))

IsPrimeSubgroup(p) == IsIdentity(ScalarMulWith(p, L))

IsPrimeSubgroupNonidentity(p) == ~IsIdentity(p) /\ IsPrimeSubgroup(p)

-----------------------------------------------------------------------------

SignBit(encoding) == encoding \div (4 * YSpace)
ReservedBits(encoding) == (encoding \div YSpace) % 4
YBits(encoding) == encoding % YSpace

(* The sign taken from the projective X instead of the affine x.           *)
EncodeProjectiveSign(p) ==
  LET inverse == FeInvert(p.z)
      sign == IF FeIsOdd(p.x) THEN 1 ELSE 0
  IN  IF IsValid(p) /\ inverse.some
      THEN Some(FeToCanonical(FeMul(p.y, inverse.value)) + sign * 4 * YSpace)
      ELSE None

Encode(p) ==
  LET inverse == FeInvert(p.z)
      affine_x == FeMul(p.x, inverse.value)
      affine_y == FeMul(p.y, inverse.value)
      sign == IF FeIsOdd(affine_x) THEN 1 ELSE 0
  IN  IF IsValid(p) /\ inverse.some
      THEN Some(FeToCanonical(affine_y) + sign * 4 * YSpace)
      ELSE None

(* The sign of a zero let through.                                         *)
NegativeZeroAllowed(root, sign) == FALSE

(* Zero has no negative.                                                   *)
NegativeZero(root, sign) == FeIsZero(root) /\ sign = 1

(* The root negated when the sign is set, whatever its own parity.         *)
RootNegatedOnSign(root, sign) == IF sign = 1 THEN FeNeg(root) ELSE root

(* Of a root and its negative, the one with the parity of the sign.        *)
RootWithSign(root, sign) ==
  LET negate == IF FeIsOdd(root) = (sign = 1) THEN 0 ELSE 1
  IN  FeConditionalSelect(root, FeNeg(root), negate)

Decode(encoding) ==
  LET sign == SignBit(encoding)
      y == FeFromCanonical(YBits(encoding))
      yy == FeSquare(y.value)
      denominator_inverse == FeInvert(FeSub(EDWARDS_A, FeMul(EDWARDS_D, yy)))
      root == FeSqrt(FeMul(FeSub(FeOne, yy), denominator_inverse.value))
      point == FromAffine(RootWithSign(root.value, sign), y.value)
  IN  IF /\ ReservedBits(encoding) = 0
         /\ y.some
         /\ denominator_inverse.some
         /\ root.some
         /\ ~NegativeZero(root.value, sign)
         /\ IsValid(point)
      THEN Some(point)
      ELSE None

DecodeStrictSubgroup(encoding) ==
  LET point == Decode(encoding)
  IN  IF point.some /\ IsPrimeSubgroupNonidentity(point.value)
      THEN point ELSE None

=============================================================================
