CONSTANTS
    MaxSeq = 3
    ChunkSize = 2
    MaxPayload = 3
    Retention = 2
    Compress = TRUE
    PendingChunks = 2
    FirstSeqs = {0, 1, 2, 3}
    SourceSeqs = {0, 1, 2, 3}
    DeclaredSizes = {0, 2, 4}
    Rings <- MCRings
SPECIFICATION SourceSpec
INVARIANTS
    SourceTypeOK
    NoPanic
    EndMatchesChunks
    BelowFlowOnDisk
    ResetOnlyFirst
    RingIsRange
PROPERTY
    SourceImplementsPublishInOrder
