SPECIFICATION UnionSpec
CONSTANTS
  Assets = {a1}
  Handlers = {h1, h2}
  Positions = {4}
  Widths = {5}
  Hiddens = {TRUE}
  ViewX = 3
  ViewWidth = 4
  MaxSeq = 2
  NoRow = NoRow
  Missing = Missing
  Idle = Idle
  Slots = {k1}
  MaxEdits = 2
  MaxAborts = 1
  MaxDrops = 0
  Free = Free
  Asked = Asked
  None = None
  Writers = {w1, w2}
  Texts = {t1, t2}
  FirstText = t1
  Styles = {y1, y2}
  FirstStyle = y1
  Absent = Absent
  TextMaxSeq = 2
  MaxStrokes = 2
INVARIANTS EditingTypeOK AheadOnlyWhilePending LastEditsAreKept
PROPERTY NeverBackwards
SYMMETRY UnionSymmetry
