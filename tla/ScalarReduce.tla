---------------------------- MODULE ScalarReduce ----------------------------
(***************************************************************************)
(* The two reductions of scalar.rs, reduce_pruned_le on 38 bytes and       *)
(* reduce_hash_le on 76: the bytes are loaded into 64-bit words, the last  *)
(* word only in part (6 and 4 of its 8 bytes), and reduce_words folds the  *)
(* words from the top one down in Montgomery form.  The scalar that comes  *)
(* out is multiplied by another and added to a third, as the challenge is  *)
(* by the secret scalar and the nonce at the end of sign_expanded: scalars *)
(* are plain integers, which mul turns into forms and back, and add takes  *)
(* as they are.                                                            *)
(*                                                                         *)
(* A schedule is the number of full words and the bytes of the top word:   *)
(* <<4, 6>> and <<9, 4>> in the code.                                      *)
(***************************************************************************)
EXTENDS Bytes

CONSTANTS
  Schedules,
  Operands       \* the scalars that the result meets

(* L is odd and a byte has a power of two of values, so that the latter    *)
(* has an inverse modulo L.                                                *)
ASSUME ScheduleAssumption ==
  /\ \E inverse \in Scalars : (inverse * Radix) % L = 1
  /\ Schedules \subseteq Nat \X (1 .. WordBytes)
  /\ Operands \subseteq Scalars

ScalarRadix == Power(WordSpace, ScalarWords)
ScalarRadixInverse == CHOOSE r \in Scalars : (r * ScalarRadix) % L = 1

Form == INSTANCE Montgomery WITH
  Modulus <- L, Radix <- ScalarRadix, RadixInverse <- ScalarRadixInverse

VARIABLES
  schedule,     \* which of the two functions runs
  bytes,        \* its argument
  stage,        \* "load", "fold", "multiply", "add", "done"
  words,
  index,
  accumulator,  \* a form
  scalar,       \* the scalar returned last, or -1
  operands      \* history: the operands of mul and add

vars == <<schedule, bytes, stage, words, index, accumulator, scalar, operands>>

FullWords == schedule[1]
HighBytes == schedule[2]

TypeOK ==
  /\ schedule \in Schedules
  /\ Len(bytes) = FullWords * WordBytes + HighBytes
  /\ stage \in {"load", "fold", "multiply", "add", "done"}
  /\ words \in [1 .. FullWords + 1 -> 0 .. WordSpace - 1]
  /\ index \in 0 .. FullWords + 1
  /\ accumulator \in Scalars /\ scalar \in Scalars \cup {-1}
  /\ operands \in BoundedSeq(Operands, 2)

Init ==
  /\ schedule \in Schedules
  /\ bytes \in Strings(FullWords * WordBytes + HighBytes)
  /\ stage = "load"
  /\ words = Zeros(FullWords + 1)
  /\ index = 0
  /\ accumulator = 0 /\ scalar = -1
  /\ operands = <<>>

LoadWord ==
  /\ stage = "load" /\ index < FullWords
  /\ LET offset == index * WordBytes
     IN  words' = [words EXCEPT ![index + 1] =
                     LittleEndian(SubSeq(bytes, offset + 1, offset + WordBytes))]
  /\ index' = index + 1
  /\ UNCHANGED <<schedule, bytes, stage, accumulator, scalar, operands>>

(* The bytes of the top word copied to the top of its buffer.              *)
LoadHighWordAligned ==
  /\ stage = "load" /\ index = FullWords
  /\ LET high == SubSeq(bytes, FullWords * WordBytes + 1, Len(bytes))
     IN  words' = [words EXCEPT ![FullWords + 1] =
                     LittleEndian(Zeros(WordBytes - HighBytes) \o high)]
  /\ stage' = "fold"
  /\ index' = FullWords + 1
  /\ UNCHANGED <<schedule, bytes, accumulator, scalar, operands>>

LoadHighWord ==
  /\ stage = "load" /\ index = FullWords
  /\ LET high == SubSeq(bytes, FullWords * WordBytes + 1, Len(bytes))
     IN  words' = [words EXCEPT ![FullWords + 1] =
                     LittleEndian(high \o Zeros(WordBytes - HighBytes))]
  /\ stage' = "fold"
  /\ index' = FullWords + 1
  /\ UNCHANGED <<schedule, bytes, accumulator, scalar, operands>>

RADIX_64 == Form!New(WordSpace)

(* One more iteration of reduce_words with its shift by another constant.  *)
FoldWordBy(shift) ==
  /\ stage = "fold" /\ index # 0
  /\ index' = index - 1
  /\ accumulator' =
       Form!Plus(Form!Mul(accumulator, shift), Form!New(words[index]))
  /\ UNCHANGED <<schedule, bytes, stage, words, scalar, operands>>

(* The radix not converted.                                                *)
FoldWordByPlainRadix == FoldWordBy(WordSpace % L)

(* The sum of two forms not reduced.                                       *)
FoldWordUnreduced ==
  /\ stage = "fold" /\ index # 0
  /\ index' = index - 1
  /\ accumulator' = Form!Mul(accumulator, RADIX_64) + Form!New(words[index])
  /\ UNCHANGED <<schedule, bytes, stage, words, scalar, operands>>

FoldWord == FoldWordBy(RADIX_64)

(* secret(Self(accumulator.retrieve()))                                    *)
RetrieveResult ==
  /\ stage = "fold" /\ index = 0
  /\ scalar' = Form!Retrieve(accumulator)
  /\ stage' = "multiply"
  /\ UNCHANGED <<schedule, bytes, words, index, accumulator, operands>>

(* mul with one operand not converted.                                     *)
MulMixed(x, y) == Form!Retrieve(Form!Mul(Form!New(x), y))

MulScalars(x, y) == Form!Retrieve(Form!Mul(Form!New(x), Form!New(y)))

(* What the dependency's add_mod does, for two operands below the modulus. *)
AddMod(x, y) == IF x + y < L THEN x + y ELSE x + y - L

Multiply ==
  /\ stage = "multiply" /\ stage' = "add"
  /\ \E operand \in Operands :
       /\ scalar' = MulScalars(scalar, operand)
       /\ operands' = Append(operands, operand)
  /\ UNCHANGED <<schedule, bytes, words, index, accumulator>>

Add ==
  /\ stage = "add" /\ stage' = "done"
  /\ \E operand \in Operands :
       /\ scalar' = AddMod(scalar, operand)
       /\ operands' = Append(operands, operand)
  /\ UNCHANGED <<schedule, bytes, words, index, accumulator>>

Next ==
  \/ LoadWord \/ LoadHighWord \/ FoldWord
  \/ RetrieveResult \/ Multiply \/ Add

Spec == Init /\ [][Next]_vars

-----------------------------------------------------------------------------

(* Once loaded, the words hold every byte once and nothing else: the words *)
(* are the digits of the integer the bytes spell, in base 2^64.            *)
WordsSpellTheBytes ==
  stage = "fold" =>
    \A i \in DOMAIN words :
      words[i] = (LittleEndian(bytes) \div Power(WordSpace, i - 1)) % WordSpace

(* While folding, the accumulator stands for the part of the integer at    *)
(* and above the word index, modulo L: no word and no shift enters the sum *)
(* in another form than the accumulator has.                               *)
AccumulatorIsReducedPrefix ==
  stage = "fold" =>
    Form!Retrieve(accumulator)
      = (LittleEndian(bytes) \div Power(WordSpace, index)) % L

(* Reduction, product and sum together are the integers' modulo L, and     *)
(* below L: every scalar handed from one to the next is the plain residue, *)
(* neither a form nor one that add could not take for its operand.         *)
ResponseIsExact ==
  stage = "done" =>
    scalar = (LittleEndian(bytes) * operands[1] + operands[2]) % L

=============================================================================
