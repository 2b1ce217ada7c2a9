--------------------------- MODULE MCScalarReduce ---------------------------
(***************************************************************************)
(* ScalarReduce with bytes of one bit and words of four bytes: every       *)
(* argument of 5 bytes (one full word and 1 byte) and of 10 bytes (two     *)
(* full words and 2 bytes, as many as the code leaves half of a word), for *)
(* L above the word space, as in the code.                                 *)
(***************************************************************************)
EXTENDS ScalarReduce

MCSchedules == {<<1, 1>>, <<2, 2>>}

=============================================================================
