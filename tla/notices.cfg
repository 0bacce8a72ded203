CONSTANTS
    Hook = {"h1", "h2"}
    Problem = {"conflict"}
    Thing = {"skill", "server"}
    Named <- Plain
    None = "none"
    Scenes <- Apart
    MaxChanges <- Changes
    MaxNews = 1
    MaxDays = 3
    MaxTroubles = 1
SPECIFICATION FairSpec
INVARIANT TypeOK
INVARIANT ToldOnce
INVARIANT OneShotsKept
INVARIANT DecisionsStay
PROPERTY ProblemsAreTold
CHECK_DEADLOCK FALSE
