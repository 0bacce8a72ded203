CONSTANTS
    Machine = {"a", "b"}
    Item = {"server", "theme"}
    Value = {1, 2}
    NoValue = 0
    Data <- Maps
    NoData <- NoMap
    Nobody = "nobody"
    TracksExec = {}
    Above <- Nested
    Starts <- AllStarts
    MaxEdits = 2
    MaxFaults = 1
SPECIFICATION Spec
INVARIANT TypeOK
INVARIANT RestingAgree
PROPERTY OnlyOwnEditsSent
PROPERTY EditsAreKept
PROPERTY NeverDeleted
CHECK_DEADLOCK FALSE
