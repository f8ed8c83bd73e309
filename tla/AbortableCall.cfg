\* Three calls with one signal on a pool of two threads.
SPECIFICATION FairSpec
CONSTANTS
    Calls = {c1, c2, c3}
    Threads = 2
CHECK_DEADLOCK FALSE
INVARIANTS
    WithdrawnNeverRuns
    OutcomeIsTrue
    AbortIsPrompt
PROPERTIES
    CallsSettle
