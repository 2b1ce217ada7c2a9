----------------------------- MODULE Montgomery -----------------------------
(***************************************************************************)
(* The Montgomery form in which crypto-bigint computes modulo an odd       *)
(* number: a residue n is held as n * Radix, and a product of two forms    *)
(* has to be divided by Radix once.  A form and the residue it stands for  *)
(* are both integers below the modulus, so that nothing but the code that  *)
(* handles them keeps one from being taken for the other.                  *)
(***************************************************************************)
EXTENDS Integers

CONSTANTS
  Modulus,
  Radix,          \* 2^320 in the code
  RadixInverse    \* modulo Modulus

(* MontyForm::new reduces any integer that fits.                           *)
New(integer) == (integer * Radix) % Modulus

Retrieve(form) == (form * RadixInverse) % Modulus

Mul(x, y) == (((x * y) % Modulus) * RadixInverse) % Modulus

Plus(x, y) == (x + y) % Modulus

=============================================================================
