CONSTANTS
  Users = {me}
  Own = me
  TimesOut = {}
  Refuses = TRUE
  Closes = FALSE
  MaxJobs = 1
  MaxConnects = 3
  MaxRefreshes = 1
  MaxDeaths = 1
SPECIFICATION FairSpec
PROPERTY CancelStops
CHECK_DEADLOCK FALSE
