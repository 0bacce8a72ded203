CONSTANTS
    A = A
    B = B
    x = x
    y = y
    Machine = {A, B}
    Key = {k1}
    Data = {x, y}
    NoData = NoData
    Nobody = Nobody
    TracksExec = {A}
    Edits <- SameFile
    Start <- Nothing
    Modes = {"both"}
    ReportsETag = FALSE
    EditDuringRun = FALSE
    MaxEdits = 2
    MaxResolves = 0
    MaxFaults = 0
    MaxCrashes = 1
    MaxLosses = 1
SPECIFICATION FairSpec
INVARIANT DeletesOnlyShared
PROPERTY Converges
