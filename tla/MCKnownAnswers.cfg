SPECIFICATION ProgramSpec

CONSTANTS
  L = 17
  TopBit = 32
  Points <- SmallPoints
  Identity <- SmallIdentity
  BasePoint <- SmallBase
  AddPoints <- SmallAdd
  DoublePoint <- SmallDouble
  MulPoint <- SmallMul
  EncodePoint <- SmallEncode
  DecodePoint <- SmallDecode
  Sum <- SmallSum
  Multiple <- SmallMultiple
  ENC <- SmallENC
  Callers = {c1}
  Seeds <- OneSeed
  Messages <- TwoMessages
  PublicKeyInputs <- NoInputs
  SignatureInputs <- NoInputs
  Digests <- EveryResidue
  MaxCalls = 4
  NoValue = NoValue
  AnotherValue = AnotherValue

INVARIANTS
  NoInternalFailure
  PassesOnTheDraftsVectorsOnly

PROPERTIES
  ImplementsDraft
  ProgramEnds

CHECK_DEADLOCK FALSE
