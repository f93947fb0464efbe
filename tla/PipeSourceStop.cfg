SPECIFICATION FairSpec
CONSTANTS
    Kids = {"kid"}
    PipeCap = 2
    Sizes = {1, 2}
    MaxFrames = 1
PROPERTY
    StopEnds
