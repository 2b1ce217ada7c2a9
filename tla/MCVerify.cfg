SPECIFICATION Spec

CONSTANTS
  L = 17
  TopBit = 32
  Points <- SmallPoints
  Identity <- SmallIdentity
  BasePoint <- SmallBase
  AddPoints <- SmallAdd
  DoublePoint <- SmallDouble
  MulPoint <- SmallMul
  EncodePoint <- SmallEncode
  DecodePoint <- SmallDecode
  Sum <- SmallSum
  Multiple <- SmallMultiple
  ENC <- SmallENC
  Callers = {c1}
  Seeds <- NoInputs
  Messages <- EmptyMessage
  PublicKeyInputs <- ForeignKeys
  SignatureInputs <- ForeignSignatures
  Digests <- VerifyDigests
  MaxCalls = 2
  NoValue = NoValue

INVARIANT OneResponseAccepted

PROPERTY ImplementsDraft

CHECK_DEADLOCK FALSE
