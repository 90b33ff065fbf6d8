SPECIFICATION UnionSpec
CONSTANTS
  Assets = {a1}
  Handlers = {h1, h2}
  Positions = {0, 4}
  Widths = {3, 5}
  Hiddens = {TRUE, FALSE}
  ViewX = 3
  ViewWidth = 4
  MaxSeq = 2
  NoRow = NoRow
  Missing = Missing
  Idle = Idle
  Invocations = {h1, h2}
  Names = {n1}
  ObsKeys = {o1, o2}
  Values = {v1}
  Default = v1
  RoomMaxSeq = 2
  MaxBirths = 2
  NoRoom = NoRoom
  Absent = Absent
  NoTask = NoTask
  r1 = r1
  r2 = r2
  Places = {r1, r2}
  Media = {k1, k2}
  Home <- MediaHome
  Size <- MediaSize
  Quota = 1
  AssetIds = {b1, b2}
  Workers = {h1, h2}
  NoAsset = NoAsset
  NoKey = NoKey
  NoChore = NoChore
SYMMETRY UnionSymmetry
CHECK_DEADLOCK FALSE
INVARIANTS
  BackendTypeOK RowsAreSound KeyedItemIsKept
  RowsMatchObjects MediaStaysHome QuotaExceededByOne
PROPERTIES
  RowsAreSeqRegisters SettingsAreRegisters CreatedAtKept
