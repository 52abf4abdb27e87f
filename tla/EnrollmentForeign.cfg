\* The guide and the window at the same time.
SPECIFICATION Spec
CONSTANTS
  Setups <- OnlyBoth
INVARIANTS
  JobReportIsOwn
CHECK_DEADLOCK FALSE
