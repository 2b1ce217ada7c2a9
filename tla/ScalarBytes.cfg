SPECIFICATION EncodingSpec

CONSTANTS
  Radix = 4
  WordBytes = 2
  L = 769
  ScalarWords = 3
  ScalarLength = 5

INVARIANTS
  EncodingTypeOK
  OneEncodingPerScalar

CHECK_DEADLOCK FALSE
