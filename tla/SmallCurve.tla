---------------------------- MODULE SmallCurve ------------------------------
(***************************************************************************)
(* The values of Signing's parameters for model checking: the point code   *)
(* of Edwards.tla on the curve of 68 = 4 * 17 points of MCScalarMul, its   *)
(* points normalised to Z = 1, and the mathematics of the same group read  *)
(* off the logarithms.  Everything is a table, so that it is computed once *)
(***************************************************************************)
EXTENDS Integers, Sequences

Curve == INSTANCE EdwardsGroup WITH
  P <- 59, FieldRadix <- 256, A <- 9, D <- 31, L <- 17, FieldBits <- 6,
  BaseX <- 10, BaseY <- 18, BaseT <- 3

(* The multiples 0 to 67 of a generator, in affine coordinates.            *)
PointsByLog == <<
  <<0, 1>>, <<6, 29>>, <<24, 20>>, <<34, 54>>, <<47, 28>>, <<17, 25>>,
  <<58, 4>>, <<37, 49>>, <<26, 53>>, <<57, 19>>, <<36, 52>>, <<21, 56>>,
  <<28, 51>>, <<29, 23>>, <<18, 43>>, <<46, 13>>, <<49, 18>>, <<20, 0>>,
  <<49, 41>>, <<46, 46>>, <<18, 16>>, <<29, 36>>, <<28, 8>>, <<21, 3>>,
  <<36, 7>>, <<57, 40>>, <<26, 6>>, <<37, 10>>, <<58, 55>>, <<17, 34>>,
  <<47, 31>>, <<34, 5>>, <<24, 39>>, <<6, 30>>, <<0, 58>>, <<53, 30>>,
  <<35, 39>>, <<25, 5>>, <<12, 31>>, <<42, 34>>, <<1, 55>>, <<22, 10>>,
  <<33, 6>>, <<2, 40>>, <<23, 7>>, <<38, 3>>, <<31, 8>>, <<30, 36>>,
  <<41, 16>>, <<13, 46>>, <<10, 41>>, <<39, 0>>, <<10, 18>>, <<13, 13>>,
  <<41, 43>>, <<30, 23>>, <<31, 51>>, <<38, 56>>, <<23, 52>>, <<2, 19>>,
  <<33, 53>>, <<22, 49>>, <<1, 4>>, <<42, 25>>, <<12, 28>>, <<25, 54>>,
  <<35, 20>>, <<53, 29>>
>>

ASSUME PointsByLogAssumption ==
  /\ Len(PointsByLog) = 68
  /\ PointsByLog[1] = <<0, 1>>
  /\ PointsByLog[2] = Curve!Generator
  /\ \A n \in 1 .. 67 :
       PointsByLog[n + 1] = Curve!AffineAdd(PointsByLog[n], PointsByLog[2])
  /\ {PointsByLog[n] : n \in 1 .. 68} = Curve!CurvePoints

PowerTable == [n \in 0 .. 67 |-> Curve!Extended(PointsByLog[n + 1], 1)]

LogTable ==
  [p \in {PowerTable[n] : n \in 0 .. 67} |->
     CHOOSE n \in 0 .. 67 : PowerTable[n] = p]

SmallPoints == DOMAIN LogTable

SmallSum(p, q) == PowerTable[(LogTable[p] + LogTable[q]) % 68]
SmallMultiple(n, p) == PowerTable[(n * LogTable[p]) % 68]
SmallENC(p) == Curve!WireImage(PointsByLog[LogTable[p] + 1])

-----------------------------------------------------------------------------
(* The code.                                                               *)

InverseTable == Curve!Inverses

Normal(p) ==
  Curve!FromAffine(Curve!FeMul(p.x, InverseTable[p.z]),
                   Curve!FeMul(p.y, InverseTable[p.z]))

(* The scalars the signer multiplies by have FieldBits bits.               *)
MulTable ==
  [p \in SmallPoints |->
     [n \in 0 .. 63 |-> Normal(Curve!ScalarMulWith(p, n))]]

AddTable ==
  [p \in SmallPoints |->
     [q \in SmallPoints |-> Normal(Curve!PointAdd(p, q))]]
DoubleTable == [p \in SmallPoints |-> Normal(Curve!PointDouble(p))]

EncodeTable == [p \in SmallPoints |-> Curve!Encode(p)]
DecodeTable == [e \in 0 .. 511 |-> Curve!Decode(e)]

SmallAdd(p, q) == AddTable[p][q]
SmallDouble(p) == DoubleTable[p]
SmallMul(p, n) == MulTable[p][n]
SmallEncode(p) == EncodeTable[p]
SmallDecode(e) == DecodeTable[e]

SmallIdentity == Curve!IDENTITY
SmallBase == Curve!BASEPOINT

=============================================================================
