CONSTANTS
  Users = {me}
  Own = me
  TimesOut = {"Claim"}
  Refuses = TRUE
  Closes = FALSE
  MaxJobs = 1
  MaxConnects = 1
  MaxRefreshes = 1
  MaxDeaths = 0
SPECIFICATION FairSpec
PROPERTY CancelReleases
CHECK_DEADLOCK FALSE
