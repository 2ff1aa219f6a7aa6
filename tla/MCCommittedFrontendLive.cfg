SPECIFICATION FairSpec
CONSTANTS
    c1 = c1
    c2 = c2
    Nobody = Nobody
    Client = {c1}
    MaxStreams = 1
    Budget = 1
    Operations = {"commit", "close", "arm", "disarm"}
    Traffic = {"up", "down"}
    MaxGeneration = 2
    MaxTransitions = 3
INVARIANT TypeOK
PROPERTIES
    CutoverEnds
    HeldResponseReleased
CHECK_DEADLOCK FALSE
