SPECIFICATION Spec

CONSTANTS
  P = 59
  FieldRadix = 256
  A = 9
  D = 31
  L = 17
  FieldBits = 6
  BaseX = 10
  BaseY = 18
  BaseT = 3
  ZValues = {1, 23}
  Scalars <- MCScalars
  NoResult = NoResult

INVARIANTS
  TypeOK
  AccumulatorIsValid
  AccumulatorIsPartialProduct

PROPERTY ImplementsGroupMul

CHECK_DEADLOCK FALSE
