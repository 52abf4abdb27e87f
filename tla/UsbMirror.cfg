\* A sensor that is enumerated anew, and another device that takes its port.
SPECIFICATION FairSpec
CONSTANTS
  Addresses = {a1, a2, a3}
  MaxPlugs = 3
INVARIANTS
  OneNode
  EndsClean
PROPERTIES
  SensorAppears
  OthersDisappear
  LauncherEnds
CHECK_DEADLOCK FALSE
