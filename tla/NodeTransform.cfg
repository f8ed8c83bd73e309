\* Streams of both helpers, two chunks, results of up to two slices.  A
\* destroyed stream without a user stops: no deadlock check.
SPECIFICATION FairSpec
CONSTANTS
    Helpers = {"context", "detect"}
    MaxChunks = 2
    MaxSlices = 2
CHECK_DEADLOCK FALSE
INVARIANTS
    MemoryIsReleased
    OutputIsWhole
    CallsAreInOrder
PROPERTIES
    StreamCloses
