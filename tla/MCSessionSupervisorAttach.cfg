SPECIFICATION Spec
CONSTANTS
    s1 = s1
    s2 = s2
    Session = {s1}
    Ladder = 1
    MaxLeases = 1
    MaxRepairs = 0
    MaxFailures = 0
    WrapperDiesAttaching = TRUE
INVARIANT ClearedMeansEmpty
CHECK_DEADLOCK FALSE
