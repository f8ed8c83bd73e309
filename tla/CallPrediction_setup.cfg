\* A zstd stream of the package root without input.
SPECIFICATION PredictionSpec
CONSTANTS
    Models <- MCRootZstd
    AsyncMs = 8
    Sample = 2
    Rates = {1, 2, 3}
    Chunks = {0, 1, 2, 5, 9}
    MaxInput = 40
CHECK_DEADLOCK FALSE
INVARIANTS
    SetupIsForeseen
