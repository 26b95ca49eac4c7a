SPECIFICATION Spec
CONSTANTS
  PageSize = 4096
  KeySize = 1400
  Values = {"small"}
  ValueSize <- MCValueSize
  Keys = {1, 2, 3, 4, 5}
  MinCells = 2
  ScanRanges <- MCScanRanges
  MaxPuts = 5
  MaxDeletes = 0
  MaxScans = 0
INVARIANT PutsReadable
CHECK_DEADLOCK FALSE
