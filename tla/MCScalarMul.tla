---------------------------- MODULE MCScalarMul -----------------------------
(***************************************************************************)
(* ScalarMul on a curve of 68 = 4 * 17 points over the field of 59         *)
(* elements, the smallest prime field with a curve of the shape of ED301:  *)
(* P % 4 = 3, 2^(FieldBits-1) < P < 2^FieldBits, a group of 4 L points     *)
(* with L prime, L < 2^(FieldBits-1) and 4 L >= 2^FieldBits.               *)
(***************************************************************************)
EXTENDS ScalarMul

(* Every scalar of FieldBits bits (the canonical ones below L, L itself,   *)
(* the pruned ones), and three with bits above that must not be read.      *)
MCScalars == (0 .. YSpace - 1) \cup {YSpace, 2 * YSpace + 37, 8 * YSpace - 1}

=============================================================================
