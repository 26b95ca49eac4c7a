SPECIFICATION Spec

CONSTANTS
    Keys = {1, 2, 3}
    Deletable = {}
    Writers = {w1}
    Readers = {}
    MemTableSize = 4
    KeyCost = 1
    ValueSize = 1
    MaxL0Files = 2
    MaxLevelFiles = 2
    LastLevel = 2
    MaxEntriesPerFile = 1
    MaxPuts = 3
    MaxCrashes = 1
    MaxCloses = 0
    MaxFaults = 0
    Faults = {}

PROPERTIES
    CrashKeepsAcked
