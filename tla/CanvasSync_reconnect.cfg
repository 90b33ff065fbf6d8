SPECIFICATION FairSpec
CONSTANTS
  Assets = {a1}
  Handlers = {h1, h2}
  Positions = {4}
  Widths = {5}
  Hiddens = {TRUE}
  ViewX = 3
  ViewWidth = 4
  MaxSeq = 1
  NoRow = NoRow
  Missing = Missing
  Idle = Idle
  Slots = {k1}
  MaxEdits = 1
  MaxAborts = 0
  MaxDrops = 1
  Free = Free
  Asked = Asked
  None = None
PROPERTY ReconnectHeals
