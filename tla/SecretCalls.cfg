SPECIFICATION Spec

CONSTANTS
  MaxCalls = 3
  MaxArms = 2

INVARIANTS
  TypeOK
  NamedOwnersAreWiped
  OnePanicPerArm

PROPERTY CallsEnd

CHECK_DEADLOCK FALSE
