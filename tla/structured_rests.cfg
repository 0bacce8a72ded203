CONSTANTS
    Machine = {"a", "b"}
    Item = {"server", "theme"}
    Value = {1, 2}
    NoValue = 0
    Data <- Maps
    NoData <- NoMap
    Nobody = "nobody"
    TracksExec = {}
    Above <- Flat
    Starts <- FewStarts
    MaxEdits = 1
    MaxFaults = 1
SPECIFICATION Spec
PROPERTY Rests
CHECK_DEADLOCK FALSE
