SPECIFICATION Spec

CONSTANTS
  L = 17
  TopBit = 32
  Points <- SmallPoints
  Identity <- SmallIdentity
  BasePoint <- SmallBase
  AddPoints <- SmallAdd
  DoublePoint <- SmallDouble
  MulPoint <- SmallMul
  EncodePoint <- SmallEncode
  DecodePoint <- SmallDecode
  Sum <- SmallSum
  Multiple <- SmallMultiple
  ENC <- SmallENC
  Callers = {c1, c2}
  Seeds <- OneSeed
  Messages <- TwoMessages
  PublicKeyInputs <- NoInputs
  SignatureInputs <- NoInputs
  Digests <- FewDigests
  MaxCalls = 4
  NoValue = NoValue

SYMMETRY Symmetry

INVARIANTS
  TypeOK
  FramesConsistent
  Deterministic
  SignedIsAccepted

CHECK_DEADLOCK FALSE
