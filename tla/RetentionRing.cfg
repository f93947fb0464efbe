CONSTANTS
    MaxSeq = 4
    ChunkSize = 1
    MaxPayload = 2
    Compress = FALSE
    Retention = 2
    Readers = {r1}
    Ranges <- MCRanges
    PutSeqs = {0, 1, 3, 4}
    BodyLen = 2
    MaxPuts = 3
    MaxCrashes = 2
SPECIFICATION Spec
INVARIANTS
    DiskContiguous
    GetIsWhole
    AckedIsDurable
    IndexMatchesDisk
