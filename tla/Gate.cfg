SPECIFICATION Spec

CONSTANTS
  MaxSignals = 2
  Profiles = {{}, {"on"}, {"off"}, {"absent"}, {"on", "off"}, {"on", "absent"}, {"off", "absent"}, {"on", "off", "absent"}}

INVARIANTS
  TypeOK
  CallerDirectoriesKept
  NothingLeftBehind
  PassMeansEveryStepSucceeded
  UninterruptedPassMeansProfile

CHECK_DEADLOCK FALSE
