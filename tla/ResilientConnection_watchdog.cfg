SPECIFICATION FairSpec
CONSTANTS
  Sockets = {s1, s2, s3, s4}
  None = None
  TimersMayBeLost = TRUE
PROPERTY WatchdogRecovers
CHECK_DEADLOCK FALSE
