SPECIFICATION FairSpec
CONSTANTS
    r1 = r1
    r2 = r2
    r3 = r3
    r4 = r4
    Ids = {r1, r2, r3, r4}
    PromptLen <- Lens
    MaxSize = 2
    BlockSize = 2
    Reserved = 1
    MaxBatched = 4
    Chunked = FALSE
    MaxPartial = 0
    MaxLong = 0
    LongThreshold = 0
    MaxBlocks = 5
    MaxBatch = 2
    MaxResponses = 2
    MaxResets = 1
CHECK_DEADLOCK FALSE
INVARIANTS
    TypeOK
    HandedOutOnce
    StreamsIntact
    SizeBounded
PROPERTY EveryRequestAnswered
