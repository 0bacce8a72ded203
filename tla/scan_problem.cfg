CONSTANTS
    A = A
    B = B
    x = x
    y = y
    Machine = {A, B}
    Key = {k1}
    Data = {x, y}
    NoData = NoData
    Nobody = Nobody
    TracksExec = {A, B}
    Edits <- Files
    Start <- Nothing
    Modes = {"both"}
    ReportsETag = TRUE
    EditDuringRun = FALSE
    MaxEdits = 1
    MaxResolves = 0
    MaxFaults = 1
    MaxCrashes = 0
    MaxLosses = 0
SPECIFICATION Spec
INVARIANT DeletesOnlyWhatIsGone
