SPECIFICATION FairSpec
CONSTANTS
    top = top
    sub = sub
    dir = dir
    old = old
    new = new
    relabelled = relabelled
    Absent = Absent
    Root = Root
    StateDir = StateDir
    TxDir = TxDir
    Nobody = Nobody
    Path <- MCPath
    Content = {old, new}
    Bytes <- MCBytes
    Dir <- MCDir
    Parent <- MCParent
    Requests <- MCRequests
    MetadataOrdered = TRUE
    MaxStops = 1
    MaxPowerLosses = 1
    MaxEdits = 1
INVARIANTS
    TypeOK
    AllOrNothing
    BackupsCoverPending
    NoResidue
    SuccessIsDurable
PROPERTIES
    ReplacesOnlyExpected
    ImplementsAtomicRestore
    RecoveryConverges
