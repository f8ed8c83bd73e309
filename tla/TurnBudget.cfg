\* Three streams, calls of 0, 1 and 3 ms and a budget of 4 ms.
SPECIFICATION FairSpec
CONSTANTS
    Streams = {s1, s2, s3}
    Yield = 4
    Costs = {0, 1, 3}
    MaxCost = 3
INVARIANTS
    HoldIsBounded
    WaitIsBounded
PROPERTIES
    CallsGoOn
