SPECIFICATION Spec
CONSTANTS
    c1 = c1
    c2 = c2
    Nobody = Nobody
    Client = {c1}
    MaxStreams = 1
    Budget = 1
    Operations = {"commit"}
    Traffic = {}
    MaxGeneration = 1
    MaxTransitions = 1
PROPERTY ClosedGateConnectionsRejected
CHECK_DEADLOCK FALSE
