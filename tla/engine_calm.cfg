CONSTANTS
    A = A
    B = B
    x = x
    y = y
    Machine = {A, B}
    Key = {k1}
    Data = {x, y}
    NoData = NoData
    Nobody = Nobody
    TracksExec = {A, B}
    Edits <- Files
    Start <- FilesOrAbsent
    Modes = {"both", "pull"}
    ReportsETag = TRUE
    EditDuringRun = FALSE
    MaxEdits = 3
    MaxResolves = 1
    MaxFaults = 0
    MaxCrashes = 0
    MaxLosses = 0
SYMMETRY SameMachinesAndData
SPECIFICATION Spec
INVARIANT UnaskedStaysLocal
INVARIANT OwnVersionsStayOwn
PROPERTY ReplacesOnlyShared
