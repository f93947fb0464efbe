SPECIFICATION FairSpec
CONSTANTS
    Records <- MCRecords
    SynthSize = 3
    ChunkSize = 2
    Cadences = {0, 2, 3}
    Windows = {0, 2, 3}
    Ledgers = 4
    MaxTime = 7
INVARIANTS
    BodiesAreLedgers
    NoBurst
    NeverEarly
PROPERTY
    CancelEndsSleep
CHECK_DEADLOCK FALSE
