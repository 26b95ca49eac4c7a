SPECIFICATION Spec

CONSTANTS
    Keys = {k1, k2}
    NoKey = NoKey
    Writers = {w1}
    NoWriter = NoWriter
    Readers = {}
    SegmentSizeBytes = 60
    MaxSegments = 2
    SyncOnWrite = FALSE
    HeaderSize = 20
    KeySize = 10
    ValueSize = 50
    PowerLoss = FALSE
    MaxPuts = 4
    MaxSyncs = 0
    MaxCompacts = 0
    MaxCloses = 0
    MaxCrashes = 0
    MaxCreateErrors = 0

SYMMETRY Sym

INVARIANTS
    NoUpdateLost

CHECK_DEADLOCK FALSE
