---------------------------- MODULE CurveScheme -----------------------------
(***************************************************************************)
(* The point code of edwards.rs as signature.rs is modelled to use it: the *)
(* parameters of Signing and SigningDraft on any curve.  A point is the    *)
(* affine point that its extended coordinates stand for, so that equality  *)
(* is ct_eq; the code runs on representatives with Z = 1, which is no loss *)
(* since its results do not depend on Z (CurveProofs).                     *)
(***************************************************************************)
EXTENDS EdwardsGroup

CodeAdd(p, q) == Affine(PointAdd(Extended(p, 1), Extended(q, 1)))

CodeDouble(p) == Affine(PointDouble(Extended(p, 1)))

CodeMul(p, n) == Affine(ScalarMulWith(Extended(p, 1), n))

CodeEncode(p) == Encode(Extended(p, 1))

CodeDecode(e) ==
  LET point == Decode(e)
  IN  IF point.some THEN Some(Affine(point.value)) ELSE None

(* The mathematics: the n-fold sum of p.                                   *)
AffineMultiple(n, p) ==
  LET multiple[i \in Nat] ==
        IF i = 0 THEN <<0, 1>> ELSE AffineAdd(multiple[i - 1], p)
  IN  multiple[n]

Scheme == INSTANCE PointMathematics WITH
  TopBit <- YSpace \div 2,
  Identity <- Affine(IDENTITY), BasePoint <- Affine(BASEPOINT),
  AddPoints <- CodeAdd, DoublePoint <- CodeDouble, MulPoint <- CodeMul,
  EncodePoint <- CodeEncode, DecodePoint <- CodeDecode,
  Sum <- AffineAdd, Multiple <- AffineMultiple, ENC <- WireImage

=============================================================================
