SPECIFICATION PresenceSpec
CONSTANTS
  Sockets = {s1, s2, s3}
  None = None
  TimersMayBeLost = FALSE
  MaxAttempts = 2
  MaxFaults = 0
INVARIANT OpenConnectionHasRow
CHECK_DEADLOCK FALSE
