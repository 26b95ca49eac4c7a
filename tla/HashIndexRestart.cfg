SPECIFICATION FairSpec

CONSTANTS
    Keys = {k1}
    NoKey = NoKey
    Writers = {w1}
    NoWriter = NoWriter
    Readers = {}
    SegmentSizeBytes = 60
    MaxSegments = 1
    SyncOnWrite = TRUE
    HeaderSize = 20
    KeySize = 10
    ValueSize = 50
    PowerLoss = TRUE
    MaxPuts = 3
    MaxSyncs = 1
    MaxCompacts = 0
    MaxCloses = 1
    MaxCrashes = 1
    MaxCreateErrors = 1

INVARIANTS
    
    RefsExact
    DiskExact

PROPERTIES
    
    CallsReturn

CHECK_DEADLOCK FALSE
