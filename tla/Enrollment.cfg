\* The guide, the window or both, two stages and one scan to be made again.
SPECIFICATION FairSpec
CONSTANTS
  Setups <- AloneOrBoth
INVARIANTS
  PromptedOnce
  WaitingIsPrompted
  ReportIsTrue
  ReaderLeftFree
PROPERTIES
  EnrollmentEnds
CHECK_DEADLOCK FALSE
