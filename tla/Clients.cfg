SPECIFICATION UnionSpec
CONSTANTS
  Sockets = {s1, s2, s3, s4}
  None = None
  TimersMayBeLost = TRUE
  Objects = {a1, a2}
  FirstObject = a1
  Keys = {k1, k2}
  FirstKey = k1
  Nothing = Nothing
  MaxOrders = 2
  MaxCuts = 1
  Labels = {x, y}
  FirstLabel = x
  MaxNumber = 1
  MaxTouches = 2
  MaxGaps = 1
  Gone = Gone
  Studios = {r1, r2}
  OwnStudio = r1
  Levels = {lo, hi}
  FirstLevel = hi
  NoChannel = NoChannel
  PanelMaxSeq = 2
  MaxBreaks = 1
CHECK_DEADLOCK FALSE
INVARIANTS
  PageTypeOK ConnectionHolds SelectionAgrees EditsAreAwaited
  PanelsInStep
PROPERTIES
  StoppedForGood Recovers PageConverges
