SPECIFICATION Spec
CONSTANTS
    top = top
    sub = sub
    dir = dir
    old = old
    new = new
    relabelled = relabelled
    Absent = Absent
    Root = Root
    StateDir = StateDir
    TxDir = TxDir
    Nobody = Nobody
    Path <- MCPath
    Content = {old, new, relabelled}
    Bytes <- MCBytes
    Dir <- MCDir
    Parent <- MCParent
    Requests <- MCRequests
    MetadataOrdered = FALSE
    MaxStops = 0
    MaxPowerLosses = 1
    MaxEdits = 1
INVARIANTS
    AllOrNothing
    SuccessIsDurable
