SPECIFICATION Spec
CONSTANTS
    gateway = gateway
    worker = worker
    r1 = r1
    r2 = r2
    Installer = Installer
    Nobody = Nobody
    Unit <- MCUnit
    Run <- MCRun
    MaxFailures = 0
    MaxSignals = 1
    MaxKills = 0
PROPERTY ResumesOnlySettled
CHECK_DEADLOCK FALSE
