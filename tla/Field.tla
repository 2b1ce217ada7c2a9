------------------------------- MODULE Field --------------------------------
(***************************************************************************)
(* crates/ed301-eddsa/src/field.rs: arithmetic in the prime field of the   *)
(* curve.  A FieldElement holds the Montgomery form of a residue; only     *)
(* FeToCanonical and what is built on it sees the residue itself.  Taking  *)
(* the same time on every input is left out.                               *)
(*                                                                         *)
(* The prime P is 2^301 - 2^99 + 947 in the code.  The square-root         *)
(* exponent is only right for P % 4 = 3, which the code's P satisfies.     *)
(***************************************************************************)
EXTENDS Integers, CtOption

CONSTANTS P, FieldRadix    \* FieldRadix: see Montgomery

ASSUME FieldAssumption ==
  /\ P \in Nat \ {0, 1, 2}
  /\ P % 4 = 3
  /\ \A i \in 2 .. P - 1 : P % i # 0
  /\ FieldRadix \in Nat /\ FieldRadix % P # 0

FieldElement == 0 .. P - 1

FieldRadixInverse == CHOOSE r \in FieldElement : (r * FieldRadix) % P = 1

Form == INSTANCE Montgomery WITH
  Modulus <- P, Radix <- FieldRadix, RadixInverse <- FieldRadixInverse

(* A canonical integer of the code's own: from_u64, from_canonical_words.  *)
FeFromInteger(integer) == Form!New(integer)

FeZero == 0
FeOne == FeFromInteger(1)

FeToCanonical(x) == Form!Retrieve(x)

FeAdd(x, y) == Form!Plus(x, y)

FeSub(x, y) == (x - y) % P

FeNeg(x) == (-x) % P

(* A reduction into 1 .. P in place of 0 .. P - 1.                         *)
FeMulIntoOneToP(x, y) ==
  LET r == Form!Mul(x, y) IN IF r = 0 THEN P ELSE r

FeMul(x, y) == Form!Mul(x, y)

FeSquare(x) == FeMul(x, x)

(* The parity of the form, which is there without a conversion.            *)
FeIsOddOfForm(x) == x % 2 = 1

FeIsOdd(x) == FeToCanonical(x) % 2 = 1

FeIsZero(x) == x = FeZero

(* x^e, what the dependency's pow_bounded_exp computes.                    *)
FePow(x, e) ==
  LET pow[n \in 0 .. e] == IF n = 0 THEN FeOne ELSE FeMul(pow[n - 1], x)
  IN  pow[e]

(* The inverses of the nonzero elements, what the dependency's invert      *)
(* returns; a table, so that it is computed once.                          *)
Inverses ==
  [x \in FieldElement \ {0} |->
     CHOOSE y \in FieldElement : FeMul(x, y) = FeOne]

FeInvert(x) == IF FeIsZero(x) THEN None ELSE Some(Inverses[x])

SqrtExponent == (P + 1) \div 4

(* A candidate root is always computed; it is handed out only when it      *)
(* squares to x.                                                           *)
FeSqrt(x) ==
  LET candidate == FePow(x, SqrtExponent)
  IN  Checked(FeSquare(candidate) = x, candidate)

FeConditionalSelect(when_false, when_true, choice) ==
  IF choice = 1 THEN when_true ELSE when_false

(* The comparison that lets P itself through.                              *)
FeFromAtMostModulus(integer) == Checked(integer <= P, Form!New(integer))

(* An integer read from bytes is a field element only when it is below P.  *)
FeFromCanonical(integer) == Checked(integer < P, Form!New(integer))

=============================================================================
