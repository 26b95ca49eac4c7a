SPECIFICATION Spec
CONSTANTS
  PageSize = 4096
  KeySize = 1356
  Values = {"small", "big"}
  ValueSize <- MCValueSize
  Keys = {1, 2, 3, 4}
  MinCells = 2
  ScanRanges <- MCScanRanges
  MaxPuts = 5
  MaxDeletes = 1
  MaxScans = 1
INVARIANTS GetExact ChainHolds TreeShape ScanExact ScanComplete
CHECK_DEADLOCK FALSE
