SPECIFICATION FairSpec

CONSTANTS
    Procs = {p1, p2}
    NoProc = NoProc
    MaxAppends = 2
    MaxWriteErrors = 1

INVARIANTS
    TypeOK
    RefCountExact
    OwnedStaysOpen
    NoUseAfterClose
    AckedReadable

PROPERTIES
    HandleReleased
    CallsReturn
