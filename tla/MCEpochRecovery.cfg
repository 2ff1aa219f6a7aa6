SPECIFICATION FairSpec
CONSTANTS
    c1 = c1
    Child = {c1}
    MaxGeneration = 2
    MaxEpochs = 2
    MaxKills = 2
INVARIANTS
    TypeOK
    EffectsAreRecorded
    FenceCovers
    OpenIsApplied
    NoFalseResidue

    
CHECK_DEADLOCK FALSE
