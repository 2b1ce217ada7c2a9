------------------------------- MODULE Scalar -------------------------------
(***************************************************************************)
(* crates/ed301-eddsa/src/scalar.rs as the signer uses it: integers modulo *)
(* the prime order L of the base point, read from and written to 38-byte   *)
(* little-endian encodings.  An encoding is the integer its bytes spell,   *)
(* and a 76-byte digest is the pair of its two halves.  The word and byte  *)
(* loops are run one by one in ScalarReduce.tla and ScalarBytes.tla.       *)
(*                                                                         *)
(* TopBit is 2^300, the bit that pruning sets, and the encoding has 304.   *)
(***************************************************************************)
EXTENDS Integers, CtOption

CONSTANTS L, TopBit

EncodingSpace == 16 * TopBit

Encoding == 0 .. EncodingSpace - 1

(* What the draft says of L in its argument for the pruning rule (section  *)
(* 4), true of the modulus that scalar.rs declares.                        *)
ASSUME ScalarAssumption ==
  /\ L \in Nat /\ L % 2 = 1
  /\ TopBit \in Nat /\ TopBit % 4 = 0
  /\ 1 < L /\ L < TopBit /\ 2 * TopBit <= 4 * L

Scalars == 0 .. L - 1

(* The sum as a bounded integer, its reduction forgotten.                  *)
ScalarAddUnreduced(x, y) == x + y

ScalarAdd(x, y) == (x + y) % L

ScalarMul(x, y) == (x * y) % L

(* A signature scalar accepted for what it is modulo L.                    *)
ScalarFromReduced(encoding) == Some(encoding % L)

(* An encoding is a signature scalar only when it is below L.              *)
ScalarFromCanonical(encoding) == Checked(encoding < L, encoding)

(* The reduction applied to the bits below the one that pruning sets.      *)
ReducePrunedBelowTopBit(encoding) == (encoding % TopBit) % L

ReducePruned(encoding) == encoding % L

ReduceHash(digest) == (digest[1] + EncodingSpace * digest[2]) % L

(* Pruning that sets the top bit and leaves the low bits alone.            *)
PruneKeepingLowBits(encoding) == TopBit + (encoding % TopBit)

(* Bits 0 and 1 are cleared, 301 to 303 are cleared, bit 300 is set.       *)
Prune(encoding) == TopBit + ((encoding % TopBit) \div 4) * 4

=============================================================================
