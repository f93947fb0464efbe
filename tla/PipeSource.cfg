SPECIFICATION FairSpec
CONSTANTS
    Kids = {"kid"}
    PipeCap = 1
    Sizes = {2}
    MaxFrames = 2
INVARIANTS
    NoShortLedger
    CancelIsNotFailure
    FailureIsNotClean
    GroupIsSwept
PROPERTY
    CancelEnds
