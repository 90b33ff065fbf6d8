SPECIFICATION UnionSpec
CONSTANTS
  Sockets = {s1, s2, s3}
  None = None
  TimersMayBeLost = FALSE
  MaxAttempts = 2
  MaxFaults = 2
  Chambers = {c1, c2}
  OwnChamber = c1
  Files = {f1}
  Dashboard = Dashboard
  MaxVisits = 3
  MaxDashboards = 2
  MaxOutages = 2
INVARIANTS
  VisitTypeOK RowsHaveConnections OneLiveSession ViewMatchesUrl UploadsLandAtHome
PROPERTY VisitsSettle
CHECK_DEADLOCK FALSE
