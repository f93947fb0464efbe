SPECIFICATION FairSpec
CONSTANTS
    MaxSeq = 2
    ChunkSize = 2
    MaxPayload = 5
    Compress = TRUE
    Workers = {w1, w2}
    EncodeSlots = 1
    PendingChunks = 1
    HashSlots = 1
    MaxLedgers = 2
    DeclaredSizes = {0, 5}
INVARIANTS
    RetainedIsPublished
    DegradationIsCounted
PROPERTIES
    ImplementsPublishInOrder
    LedgerEnds
    EverythingStops
CHECK_DEADLOCK FALSE
