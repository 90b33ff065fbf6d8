SPECIFICATION UnionSpec
CONSTANTS
  Assets = {a1}
  Handlers = {h1, h2}
  Positions = {4}
  Widths = {5}
  Hiddens = {TRUE}
  ViewX = 3
  ViewWidth = 4
  MaxSeq = 2
  NoRow = NoRow
  Missing = Missing
  Idle = Idle
  Slots = {k1}
  MaxEdits = 3
  MaxAborts = 1
  MaxDrops = 1
  Free = Free
  Asked = Asked
  MaxTakes = 2
  MaxFaults = 1
CHECK_DEADLOCK FALSE
INVARIANTS
  ScreenTypeOK ShowsOnlyAccepted EndedStaysEnded StopRewinds
PROPERTY ScreenConverges
