SPECIFICATION FairSpec
CONSTANTS
    s1 = s1
    s2 = s2
    Session = {s1}
    Ladder = 2
    MaxLeases = 1
    MaxRepairs = 1
    MaxFailures = 2
    WrapperDiesAttaching = FALSE
INVARIANT TypeOK
PROPERTIES
    StopEnds
    StopClears
    RegistrationIsAnswered
CHECK_DEADLOCK FALSE
