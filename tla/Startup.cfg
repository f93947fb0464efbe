SPECIFICATION StartSpec
CONSTANTS
    MaxUint32 = 7
    MaxInt64 = 31
    MinChunkSize = 2
    MaxChunkSize = 4
    ChunkHeaderSize = 2
    EndSize = 3
    MaxWorkers = 2
    MaxPayload = 2
    Flags <- MCFlags
    ClientCaps <- MCCaps
INVARIANTS
    RangeIsStreamable
    DumpIsNotRing
    EndsInteroperate
    HugeCapIsACap
