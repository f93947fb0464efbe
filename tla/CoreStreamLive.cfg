CONSTANTS
    MaxSeq = 4
    ChunkSize = 1
    MaxPayload = 1
    Compress = TRUE
    Retention = 1
    PendingChunks = 1
    FirstSeqs = {2}
    SourceSeqs = {2, 3}
    DeclaredSizes = {1}
    Rings <- RestartRings
    Subs = {s1}
    SocketBuf = 1
    Requests <- EdgeRequests
SPECIFICATION ServerSpec
PROPERTIES
    ImplementsLedgerStream
    SubscriptionsEnd
    Delivered
