CONSTANTS
    A = A
    B = B
    x = x
    y = y
    Machine = {A, B}
    Key = {k1}
    Data = {x, y}
    NoData = NoData
    Nobody = Nobody
    TracksExec = {A, B}
    Edits <- FilesAndLink
    Start <- Nothing
    Modes = {"both"}
    ReportsETag = TRUE
    EditDuringRun = TRUE
    MaxEdits = 2
    MaxResolves = 1
    MaxFaults = 1
    MaxCrashes = 0
    MaxLosses = 0
SYMMETRY SameMachines
SPECIFICATION Spec
INVARIANT TypeOK
INVARIANT StateMatchesStore
INVARIANT KnowledgeIsSound
INVARIANT DeletesOnlyShared
PROPERTY SharedEntriesSpec
