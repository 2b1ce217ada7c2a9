------------------------------- MODULE Bytes --------------------------------
(***************************************************************************)
(* Integers as little-endian digit strings, with a byte of Radix values    *)
(* (256 in the code) and a word of WordBytes bytes (8 in the code), and    *)
(* the scalars, the integers below L, that are held in such words.         *)
(***************************************************************************)
EXTENDS Powers, SequencesExt

CONSTANTS
  Radix, WordBytes,
  L,             \* the prime order of the base point
  ScalarWords    \* 5: the words of a scalar

ASSUME BytesAssumption ==
  /\ Radix \in Nat \ {0, 1}
  /\ WordBytes \in Nat \ {0}
  /\ L \in Nat /\ L % 2 = 1 /\ ScalarWords \in Nat

Scalars == 0 .. L - 1

Byte == 0 .. Radix - 1

WordSpace == Power(Radix, WordBytes)

(* All strings of n bytes.                                                 *)
Strings(n) == [1 .. n -> Byte]

(* The integer that a string spells: value[n] is that of its first n bytes.*)
LittleEndian(string) ==
  LET value[n \in 0 .. Len(string)] ==
        IF n = 0 THEN 0
        ELSE value[n - 1] + Power(Radix, n - 1) * string[n]
  IN  value[Len(string)]

(* The n low bytes of an integer.                                          *)
LowBytes(integer, n) ==
  [i \in 1 .. n |-> (integer \div Power(Radix, i - 1)) % Radix]

Zeros(n) == [i \in 1 .. n |-> 0]

=============================================================================
