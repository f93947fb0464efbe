SPECIFICATION FairSpec
CONSTANT
    Conns = {"c1", "c2"}
INVARIANTS
    FailureIsReported
PROPERTY
    DaemonEnds
