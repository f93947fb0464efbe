CONSTANTS
    MaxSeq = 4
    ChunkSize = 1
    MaxPayload = 2
    Compress = FALSE
    Retention = 1
    PendingChunks = 1
    FirstSeqs = {2}
    SourceSeqs = {0, 2, 3, 4}
    DeclaredSizes = {2}
    Rings <- MCRings
    Subs = {s1}
    SocketBuf = 1
    Requests <- AllRequests
SPECIFICATION Spec
INVARIANTS
    NoProtocolError
    DeliversWhatWasEmitted
    StampsAreHonest
    DiscardsAreAbandons
    CleanEndIsHonest
    NoLostWakeup
