CONSTANTS
    MaxSeq = 5
    ChunkSize = 1
    MaxPayload = 1
    Compress = FALSE
    Retention = 2
    PendingChunks = 1
    FirstSeqs = {2}
    SourceSeqs = {2, 3}
    DeclaredSizes = {0}
    Rings <- StaleRings
    Subs = {s1}
    SocketBuf = 1
    Requests <- AllRequests
SPECIFICATION Spec
INVARIANT
    TooFarBehindMeansOlder
