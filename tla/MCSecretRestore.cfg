SPECIFICATION FairSpec
CONSTANTS
    gateway = gateway
    worker = worker
    r1 = r1
    r2 = r2
    Installer = Installer
    Nobody = Nobody
    Unit = {gateway}
    Run <- MCRun
    MaxFailures = 1
    MaxSignals = 1
    MaxKills = 1
INVARIANTS
    TypeOK
    NothingForgotten
PROPERTIES
    UndisturbedResumesSettled
    PriorSetRestored
    Finishes
CHECK_DEADLOCK FALSE
