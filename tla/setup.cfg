CONSTANTS
    Machine = {"a", "b"}
    Bucket = {"one", "two"}
    Passphrase = {"p", "q"}
    KeyFile = {"k"}
    None = "none"
    Servers <- SomeServers
    MaxInits = 3
    MaxTroubles = 1
SPECIFICATION Spec
INVARIANT TypeOK
INVARIANT OneKey
INVARIANT Joinable
INVARIANT CodesOpen
INVARIANT ProbeIsRight
CHECK_DEADLOCK FALSE
