\* Two calls of any kind, with close(), the finalizer and a shutdown, under the
\* fairness of the pool and the event loop.  A context that is over stops: no
\* deadlock check.
SPECIFICATION FairSpec
CONSTANTS
    c1 = c1
    c2 = c2
    Calls <- MCCalls
    Sizes = {0, 1}
    None = None
CHECK_DEADLOCK FALSE
INVARIANTS
    AccountMatchesState
PROPERTIES
    BegunCallsSeeNoClose
    ImplementsContract
    CallsSettle
    MemoryIsWithdrawn
