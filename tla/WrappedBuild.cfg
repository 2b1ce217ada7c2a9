SPECIFICATION BuildSpec

CONSTANTS
  Wrappers = {w1, w2}
  MaxOptions = 3

INVARIANTS
  GuardTypeOK
  MarkedAsCompiled

PROPERTY ImplementsBuild

CHECK_DEADLOCK FALSE
