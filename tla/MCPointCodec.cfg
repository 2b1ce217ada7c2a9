SPECIFICATION CodecSpec

CONSTANTS
  P = 59
  FieldRadix = 256
  A = 9
  D = 31
  L = 17
  FieldBits = 6
  BaseX = 10
  BaseY = 18
  BaseT = 3
  WrittenZValues <- MCZValues

INVARIANTS
  DecodesExactlyTheCurve
  ReencodingReproducesTheInput
  StrictIsExactOrderL
  WrittenPointReadsBackEqual

CHECK_DEADLOCK FALSE
