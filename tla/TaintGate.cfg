SPECIFICATION Spec

CONSTANT MaxSignals = 2

INVARIANTS
  NoTaintedBranch
  SecretsStayTainted
  PassIsEvidence
  GatePassIsEvidence

CHECK_DEADLOCK FALSE
