\* Streams that hold 5 units, feed blocks of 3 or set up their codec.
SPECIFICATION PredictionSpec
CONSTANTS
    Models <- MCModels
    AsyncMs = 8
    Sample = 2
    Rates = {1, 2, 3}
    Chunks = {0, 1, 2, 5, 9}
    MaxInput = 40
CHECK_DEADLOCK FALSE
INVARIANTS
    AccountMirrorsContext
    SyncIsCheap
