CONSTANTS
    Content = {"x", "y"}
    Starts <- FewStarts
    Adapt <- OneAdapts
    SyncPlans <- SkillPlans
    keepBackups = 1
    MaxChanges = 2
    MaxTroubles = 1
SPECIFICATION Spec
INVARIANT TypeOK
INVARIANT NothingLost
INVARIANT DecisionsFit
PROPERTY UndoRestores
PROPERTY FailedStepLeavesNoTrace
CHECK_DEADLOCK FALSE
