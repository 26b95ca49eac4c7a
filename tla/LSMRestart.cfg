SPECIFICATION FairSpec

CONSTANTS
    Keys = {1}
    Deletable = {}
    Writers = {w1}
    Readers = {}
    MemTableSize = 1
    KeyCost = 1
    ValueSize = 1
    MaxL0Files = 2
    MaxLevelFiles = 2
    LastLevel = 2
    MaxEntriesPerFile = 1
    MaxPuts = 3
    MaxCrashes = 1
    MaxCloses = 1
    MaxFaults = 1
    Faults = {"append", "flush", "wal", "merge"}

PROPERTIES
    DiskKeepsKeys
    CallsReturn
    WorkServed
