\* A cancel while finish() of codecStream() is in flight.
SPECIFICATION Spec
CONSTANTS
    Helpers = {"next"}
    MaxChunks = 1
CHECK_DEADLOCK FALSE
INVARIANTS
    LateOutputIsDropped
