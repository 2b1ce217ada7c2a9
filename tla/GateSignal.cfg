SPECIFICATION Spec

CONSTANTS
  MaxSignals = 1
  Profiles = {{}, {"on"}, {"off"}, {"absent"}, {"on", "off"}, {"on", "absent"}, {"off", "absent"}, {"on", "off", "absent"}}

INVARIANT PassMeansOverflowChecksOn

CHECK_DEADLOCK FALSE
