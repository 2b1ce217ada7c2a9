---------------------------- MODULE MCPointCodec ----------------------------
(***************************************************************************)
(* PointCodec on the curve of 68 points of MCScalarMul: every 9-bit        *)
(* encoding received, every point of the curve written with a Z of each    *)
(* parity and a Z that flips the sign of what it multiplies.               *)
(***************************************************************************)
EXTENDS PointCodec

MCZValues == {1, 2, 23, P - 1}

=============================================================================
