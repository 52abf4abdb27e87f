CONSTANTS
  Users = {me, other}
  Own = me
  TimesOut = {"List", "Stop", "Release", "EnrollStart", "VerifyStart"}
  Refuses = TRUE
  Closes = FALSE
  MaxJobs = 2
  MaxConnects = 3
  MaxRefreshes = 2
  MaxDeaths = 1
SPECIFICATION Spec
INVARIANTS ReaderReleased BusyHasReason OfferedIsStored DialogIsJobs
PROPERTIES JobWaits JobNotReplaced
CHECK_DEADLOCK FALSE
