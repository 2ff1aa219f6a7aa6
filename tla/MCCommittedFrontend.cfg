SPECIFICATION Spec
CONSTANTS
    c1 = c1
    c2 = c2
    Nobody = Nobody
    Client <- MCClient
    MaxStreams = 2
    Budget = 1
    Operations = {"commit", "drain", "revoke", "close", "arm", "quiesce", "reopen"}
    Traffic = {}
    MaxGeneration = 2
    MaxTransitions = 4
SYMMETRY Alike
INVARIANTS
    OneGeneration
    AdmittedByItsGeneration
    NothingUnderABurnedGeneration
    ClosedMeansQuiet
PROPERTIES
    ReopenedGateIsFresh
    ImplementsGate
CHECK_DEADLOCK FALSE
