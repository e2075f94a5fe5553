CONSTANTS
  a = a
  b = b
  None = None
  Nodes = {a, b}
  Radios = {a}
  Packets <- MCPackets
  Filters <- MCFilters
  Fixes = {1}
  Panels = {"packets", "nearby"}
  Flippable = {"nearby"}
  BufMax = 2
  LogMax = 1
  RowLimit = 2
  BarLimit = 10
  MaxTime = 1
  MaxPackets = 2
SPECIFICATION Spec
INVARIANTS PanelsAgree OneSelection
CHECK_DEADLOCK FALSE
