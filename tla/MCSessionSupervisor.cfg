SPECIFICATION Spec
CONSTANTS
    s1 = s1
    s2 = s2
    Session = {s1, s2}
    Ladder = 2
    MaxLeases = 2
    MaxRepairs = 1
    MaxFailures = 1
    WrapperDiesAttaching = FALSE
SYMMETRY Alike
INVARIANTS
    RouteIsOwned
    ClearedMeansEmpty
    EffectsAreRecorded
    OneProvider
PROPERTIES
    NeverClimbs
    ImplementsSharedRoute
CHECK_DEADLOCK FALSE
