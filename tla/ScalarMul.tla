----------------------------- MODULE ScalarMul ------------------------------
(***************************************************************************)
(* EdwardsPoint::scalar_mul_with, round by round: FieldBits rounds of      *)
(* double, add and select from the top bit of the scalar to bit 0.  The    *)
(* loop serves three callers, which differ in the scalars they pass:       *)
(*   scalar_mul          a canonical scalar below L;                       *)
(*   scalar_mul_pruned   the pruned secret, 2^300 <= s < 2^301, above L;   *)
(*   scalar_mul_encoded  any 38 bytes (L itself in the subgroup test).     *)
(* The base is any point of the curve, with any Z a caller's point may     *)
(* have (1 after decoding, other values after an addition).                *)
(***************************************************************************)
EXTENDS EdwardsGroup

CONSTANTS
  ZValues,   \* the Z coordinates the base is tried with
  Scalars,   \* the 38-byte scalars tried
  NoResult

ASSUME ScalarMulAssumption ==
  /\ ZValues \subseteq Residues \ {0}
  /\ Scalars \subseteq Encoding

VARIABLES
  base,         \* self, the point multiplied
  scalar,       \* the scalar, read through scalar_bit
  accumulator,
  bit_index

vars == <<base, scalar, accumulator, bit_index>>

ExtendedPoints == {Extended(p, z) : p \in CurvePoints, z \in ZValues}

TypeOK ==
  /\ base \in ExtendedPoints
  /\ scalar \in Scalars
  /\ accumulator \in [x : FieldElement, y : FieldElement,
                      z : FieldElement, t : FieldElement]
  /\ bit_index \in 0 .. FieldBits

Init ==
  /\ base \in ExtendedPoints
  /\ scalar \in Scalars
  /\ accumulator = IDENTITY
  /\ bit_index = FieldBits

(* The round that forgets the last bit: the index is tested, not used.     *)
MulRoundSkipsBitZero ==
  /\ bit_index # 0
  /\ bit_index' = bit_index - 1
  /\ accumulator' =
       IF bit_index' = 0 THEN PointDouble(accumulator)
       ELSE Round(base, accumulator, Bit(scalar, bit_index'))
  /\ UNCHANGED <<base, scalar>>

(* A round that reads the bit before the index is decremented.             *)
MulRoundReadsBitAbove ==
  /\ bit_index # 0
  /\ bit_index' = bit_index - 1
  /\ accumulator' = Round(base, accumulator, Bit(scalar, bit_index))
  /\ UNCHANGED <<base, scalar>>

MulRound ==
  /\ bit_index # 0
  /\ bit_index' = bit_index - 1
  /\ accumulator' = Round(base, accumulator, Bit(scalar, bit_index'))
  /\ UNCHANGED <<base, scalar>>

Next == MulRound

(* The loop runs on its caller's thread and has nothing to wait for.       *)
Spec == Init /\ [][Next]_vars /\ WF_vars(Next)

-----------------------------------------------------------------------------

(* The scalar the loop reads: bits FieldBits and above are not looked at.  *)
ReadScalar == scalar % YSpace

(* After any number of rounds the accumulator is the base times the part   *)
(* of the scalar read so far, in the group of the curve: the incomplete    *)
(* rounds of the fixed schedule never leave the multiples of the base,     *)
(* whatever order the base has and whatever Z it carries.                  *)
AccumulatorIsPartialProduct ==
  PointLog(accumulator)
    = (PointLog(base) * (ReadScalar \div Power(2, bit_index))) % GroupOrder

(* Every accumulator is a valid extended point: Z is invertible, X Y = Z T *)
(* and the curve equation holds, so no sequence of doublings and additions *)
(* meets an exceptional case of the complete formulas.                     *)
AccumulatorIsValid == IsValid(accumulator)

(* The loop implements one atomic multiplication in the group.             *)
Abstract ==
  INSTANCE GroupMul WITH
    Order <- GroupOrder,
    element <- PointLog(base),
    multiplier <- ReadScalar,
    result <- IF bit_index = 0 THEN PointLog(accumulator) ELSE NoResult

(* The round-by-round loop computes the scalar multiple its callers ask    *)
(* for, and it ends (scalar_mul_with is the only loop of edwards.rs).      *)
ImplementsGroupMul == Abstract!Spec

=============================================================================
