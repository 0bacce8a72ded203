CONSTANTS
    Client = {"a", "b"}
    Root = "root"
    Collection = {"d", "e", "inner"}
    Key = {"high", "deep"}
    Above <- Tree
    Lister = {"a"}
    Listed = {"root"}
    MaxPuts = 2
    MaxRemovals = 1
SPECIFICATION Spec
INVARIANT TypeOK
INVARIANT ListMissesNothing
INVARIANT ListInventsNothing
INVARIANT PutsFindTheirCollections
PROPERTY ListsEnd
CHECK_DEADLOCK FALSE
