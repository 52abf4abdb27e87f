CONSTANTS
  Users = {me}
  Own = me
  TimesOut = {"Manager", "GetDevices", "Proxy", "List", "Claim", "EnrollStart", "VerifyStart", "Delete", "Stop", "Release"}
  Refuses = TRUE
  Closes = TRUE
  MaxJobs = 2
  MaxConnects = 2
  MaxRefreshes = 2
  MaxDeaths = 1
SPECIFICATION FairSpec
PROPERTY CancelledJobEnds
CHECK_DEADLOCK FALSE
