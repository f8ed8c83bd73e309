\* Bodies of up to three units in three chunks.  A response that has ended or
\* closed stops: no deadlock check.
SPECIFICATION FairSpec
CONSTANTS
    MaxUnits = 3
    MaxChunks = 3
    Threshold = 2
    Declared = {2}
    InHigh = 2
    OutHigh = 1
    SockHigh = 1
    Restarts = FALSE
CHECK_DEADLOCK FALSE
INVARIANTS
    HeadersTellBody
    MemoryIsReleased
    NoEmptyBlock
    BackpressureHolds
PROPERTIES
    WritersWake
    PauseDelivers
