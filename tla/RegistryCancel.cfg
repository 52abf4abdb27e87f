CONSTANTS
  Users = {me}
  Own = me
  TimesOut = {}
  Refuses = TRUE
  Closes = FALSE
  MaxJobs = 1
  MaxConnects = 1
  MaxRefreshes = 1
  MaxDeaths = 0
SPECIFICATION Spec
INVARIANT FreeIsNotStored
CHECK_DEADLOCK FALSE
