\* The same with a handler that answers a failed end() by writeHead() or write().
SPECIFICATION Spec
CONSTANTS
    MaxUnits = 3
    MaxChunks = 3
    Threshold = 2
    Declared = {2}
    InHigh = 2
    OutHigh = 1
    SockHigh = 1
    Restarts = TRUE
CHECK_DEADLOCK FALSE
INVARIANTS
    LengthIsOfBody
