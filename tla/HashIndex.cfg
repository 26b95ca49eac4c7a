SPECIFICATION Spec

CONSTANTS
    Keys = {k1, k2}
    NoKey = NoKey
    Writers = {w1, w2}
    NoWriter = NoWriter
    Readers = {r1}
    SegmentSizeBytes = 60
    MaxSegments = 2
    SyncOnWrite = FALSE
    HeaderSize = 20
    KeySize = 10
    ValueSize = 50
    PowerLoss = FALSE
    MaxPuts = 3
    MaxSyncs = 0
    MaxCompacts = 1
    MaxCloses = 0
    MaxCrashes = 0
    MaxCreateErrors = 0

SYMMETRY Sym

INVARIANTS
    
    GetLinearizable
    CompactionPreserves

CHECK_DEADLOCK FALSE
