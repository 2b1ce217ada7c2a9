----------------------------- MODULE MCSigning ------------------------------
(***************************************************************************)
(* Signing on the small curve, for two questions (a third: MCKnownAnswers) *)
(*   MCSigning.cfg   two callers whose calls interleave, few digests;      *)
(*   MCVerify.cfg    two verifications of keys and signatures nobody made. *)
(***************************************************************************)
EXTENDS SigningDraft, SmallCurve, TLC

Symmetry == Permutations(Callers)

NoInputs == {}
OneSeed == {7}
EmptyMessage == {<<>>}

(* The second message is a block, so that transcripts of different uses of *)
(* the hash can be the same sequence.                                      *)
TwoMessages == {<<>>, <<5>>}

(* One prefix is the seed itself; the residues are 16 and 6, so that the   *)
(* response wraps around modulo 17.                                        *)
FewDigests == {<<2, 7>>, <<22, 9>>}

(* A key of order 17, one of order 34, one of order 4, the identity, a     *)
(* negative zero, a reserved bit, a y above P, and a wrong length.         *)
EncodingsAt(logs) == {SmallENC(PowerTable[n]) : n \in logs}
ForeignKeys ==
  {None} \cup {Some(e) : e \in EncodingsAt({4, 2, 17, 0})}
         \cup {Some(257), Some(18 + 64), Some(62)}

(* Commitments of every kind of order with every low response, the largest *)
(* canonical response and responses at and above L.                        *)
ForeignSignatures ==
  {None} \cup
  {Some(<<e, s>>) : e \in EncodingsAt({0, 4, 17, 25, 34}) \cup {257},
                    s \in {0, 1, 5, 16, 17, 18, 22, 33}}

VerifyDigests == {<<0, 0>>, <<1, 0>>, <<16, 0>>, <<5, 3>>}

=============================================================================
