SPECIFICATION Spec

CONSTANTS
  Radix = 2
  WordBytes = 4
  L = 19
  Schedules <- MCSchedules
  ScalarWords = 2
  Operands = {0, 1, 6, 16}

INVARIANTS
  TypeOK
  WordsSpellTheBytes
  AccumulatorIsReducedPrefix
  ResponseIsExact

CHECK_DEADLOCK FALSE
