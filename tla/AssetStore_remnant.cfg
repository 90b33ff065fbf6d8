SPECIFICATION Spec
CONSTANTS
  Assets = {a1}
  Handlers = {h1, h2}
  Positions = {0, 4}
  Widths = {3, 5}
  Hiddens = {TRUE, FALSE}
  ViewX = 3
  ViewWidth = 4
  MaxSeq = 2
  NoRow = NoRow
  Missing = Missing
  Idle = Idle
INVARIANT DeletedStaysGone

