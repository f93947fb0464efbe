SPECIFICATION Spec
CONSTANT
    Conns = {"c1", "c2"}
INVARIANT
    SubscribersAreFinishedOff
