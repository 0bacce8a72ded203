CONSTANTS
    A = A
    B = B
    x = x
    y = y
    Machine = {A, B}
    Data = {x, y}
    NoData = NoData
    Nobody = Nobody
    TracksExec = {A}
    Inputs <- Every
SPECIFICATION Spec
INVARIANT Settles
INVARIANT NothingVanishes
CHECK_DEADLOCK FALSE
