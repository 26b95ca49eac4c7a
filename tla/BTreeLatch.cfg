SPECIFICATION FairSpec
CONSTANTS
  PageSize = 4096
  KeySize = 1400
  Values = {"a", "b"}
  ValueSize <- MCValueSize
  Keys = {1, 2, 3}
  Readers = {r}
  Writers = {w1, w2}
  First = "a"
  NoProc = NoProc
  InitialKeys <- MCInitialKeys
  MaxCalls = 3
INVARIANTS GetLinearizable NoRace
PROPERTY CallsReturn
CHECK_DEADLOCK FALSE
