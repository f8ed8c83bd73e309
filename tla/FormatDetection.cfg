\* Tries at 2, 4, 8 and 16 bytes.  A finished stream stops: no deadlock check.
SPECIFICATION Spec
CONSTANTS
    Helpers = {"core", "api", "root"}
    FirstTry = 2
    MaxPrefix = 16
    MaxInput = 18
    Sizes = {0, 1, 2, 3, 5, 8, 17}
CHECK_DEADLOCK FALSE
INVARIANTS
    SplitDoesNotMatter
    InputIsWhole
    DetectionIsCheap
