\* Streams of both helpers with two chunks.
SPECIFICATION FairSpec
CONSTANTS
    Helpers = {"root", "next"}
    MaxChunks = 2
CHECK_DEADLOCK FALSE
INVARIANTS
    MemoryIsReleased
    RootDropsLateOutput
    OutputIsWhole
    CallsAreInOrder
PROPERTIES
    RequestsSettle
