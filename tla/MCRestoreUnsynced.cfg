SPECIFICATION Spec
CONSTANTS
    top = top
    sub = sub
    dir = dir
    old = old
    new = new
    relabelled = relabelled
    Absent = Absent
    Root = Root
    StateDir = StateDir
    TxDir = TxDir
    Nobody = Nobody
    Path <- MCPath
    Content = {old, new}
    Bytes <- MCBytes
    Dir <- MCDir
    Parent <- MCParent
    Requests <- MCRequests
    MetadataOrdered = FALSE
    MaxStops = 1
    MaxPowerLosses = 0
    MaxEdits = 0
INVARIANT SyncedBeforeDecision
