SPECIFICATION FairSpec
CONSTANTS
    NewEncoder <- NewBoundEncoder
    Encode <- CompressStream
    NewDecoder <- NewBoundDecoder
    Decode <- DecodeBound
    Meaning <- MeaningOf
    Farthest <- MaxBackwardLimit
    HashBytes <- MCHash
    DictionaryWord <- MCWord
    DictionaryHash <- MCDictionaryHash
    DictionaryBucket <- MCBucket
    Cases <- MCCases
    Trailer <- MCTrailer
    Feed = 8
    Shrink = 9
    Gap = 6
    Fine = 16
    Lap = 7
    MinRing = 2
    MaxSimdQuality = 7
    HeadLimit = 65535
INVARIANTS FlushDelivers EndIsExact LimitIsExact RingHoldsInput CodecKeepsContract
PROPERTIES IsChannel ChunksDoNotMatter Finishes
CHECK_DEADLOCK FALSE
