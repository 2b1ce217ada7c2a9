--------------------------- MODULE MCKnownAnswers ---------------------------
(***************************************************************************)
(* KnownAnswers on the small curve, with digests for every pruned scalar,  *)
(* every nonce and every challenge of the small group.                     *)
(***************************************************************************)
EXTENDS KnownAnswers, MCSigning

(* The lower halves 0 to 16 give every residue modulo 17 and, with the     *)
(* rest, all 8 pruned scalars; two digests have upper bits that must count *)
EveryResidue ==
  {<<low, 0>> : low \in 0 .. 16 \cup {20, 24, 28}}
  \cup {<<511, 511>>, <<40, 300>>}

=============================================================================
