------------------------------- MODULE Powers -------------------------------
(***************************************************************************)
(* Powers of a natural number, from their recursion: it is the recursion   *)
(* that the proofs reason with.                                            *)
(***************************************************************************)
EXTENDS Integers

Power(base, n) ==
  LET power[i \in Nat] == IF i = 0 THEN 1 ELSE base * power[i - 1]
  IN  power[n]

=============================================================================
