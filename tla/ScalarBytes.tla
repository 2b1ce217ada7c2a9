---------------------------- MODULE ScalarBytes -----------------------------
(***************************************************************************)
(* The byte encoding of a scalar in scalar.rs, both ways: the parser of a  *)
(* signature's S, and the loop of write_canonical_bytes, which copies the  *)
(* words of the scalar to the output, the last one only in part.           *)
(***************************************************************************)
EXTENDS Bytes, CtOption

CONSTANT ScalarLength   \* 38: the bytes of the encoding of a scalar

ASSUME LengthAssumption ==
  /\ ScalarLength \in Nat \ {0}
  /\ ScalarLength <= ScalarWords * WordBytes
  /\ L <= Power(Radix, ScalarLength)

VARIABLES
  input,        \* the bytes parsed
  parsed,       \* the scalar parsed, or None
  phase,        \* "parse", "write", "done"
  output, offset, word_index

encoding_vars == <<input, parsed, phase, output, offset, word_index>>

EncodingTypeOK ==
  /\ Len(input) = ScalarLength
  /\ parsed = None \/ parsed.value \in 0 .. L - 1
  /\ phase \in {"parse", "write", "done"}
  /\ output \in Strings(ScalarLength)
  /\ offset \in 0 .. ScalarLength
  /\ word_index \in 0 .. ScalarWords

EncodingInit ==
  /\ input \in Strings(ScalarLength)
  /\ parsed = None
  /\ phase = "parse"
  /\ output = Zeros(ScalarLength)
  /\ offset = 0
  /\ word_index = 0

(* The integer reduced, not refused.                                       *)
ParseReducing ==
  /\ phase = "parse"
  /\ parsed' = Some(LittleEndian(input) % L)
  /\ phase' = "write"
  /\ UNCHANGED <<input, output, offset, word_index>>

(* from_canonical_bytes: widened with zeros, and refused from L on.        *)
Parse ==
  /\ phase = "parse"
  /\ LET integer ==
           LittleEndian(input \o Zeros(ScalarWords * WordBytes - ScalarLength))
     IN  /\ parsed' = Checked(integer < L, integer)
         /\ phase' = IF integer < L THEN "write" ELSE "done"
  /\ UNCHANGED <<input, output, offset, word_index>>

(* The loop copying whole words, the partial last one included.            *)
WriteWholeWord ==
  /\ phase = "write"
  /\ LET word == (parsed.value \div Power(WordSpace, word_index)) % WordSpace
         encoded == LowBytes(word, WordBytes)
     IN  /\ output' = [i \in 1 .. offset + WordBytes |->
                         IF i <= offset THEN output[i] ELSE encoded[i - offset]]
         /\ offset' = offset + WordBytes
         /\ word_index' = word_index + 1
         /\ phase' = IF offset' < ScalarLength THEN "write" ELSE "done"
  /\ UNCHANGED <<input, parsed>>

(* One iteration of write_canonical_bytes.                                 *)
WriteWord ==
  /\ phase = "write"
  /\ LET word == (parsed.value \div Power(WordSpace, word_index)) % WordSpace
         encoded == LowBytes(word, WordBytes)
         remaining == ScalarLength - offset
         take == IF remaining < WordBytes THEN remaining ELSE WordBytes
     IN  /\ output' = [i \in 1 .. ScalarLength |->
                         IF i \in offset + 1 .. offset + take
                         THEN encoded[i - offset] ELSE output[i]]
         /\ offset' = offset + take
         /\ word_index' = word_index + 1
         /\ phase' = IF offset' < ScalarLength THEN "write" ELSE "done"
  /\ UNCHANGED <<input, parsed>>

EncodingNext == Parse \/ WriteWord

EncodingSpec == EncodingInit /\ [][EncodingNext]_encoding_vars

-----------------------------------------------------------------------------

(* An accepted encoding is the only one of its integer: writing the scalar *)
(* gives back the bytes that were read, every one of the partial last word *)
(* included.  That the integer is below L, so that no other encoding is    *)
(* accepted for the same residue, is the type of parsed.                   *)
OneEncodingPerScalar ==
  phase = "done" /\ parsed.some => output = input

=============================================================================
