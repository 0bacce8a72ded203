CONSTANTS
    Hook = {"h1", "h2"}
    Problem = {"conflict"}
    Thing = {"server", "project/server"}
    Named <- Namesakes
    None = "none"
    Scenes <- OfThings
    MaxChanges <- ThreeChanges
    MaxNews = 0
    MaxDays = 1
    MaxTroubles = 0
SPECIFICATION Spec
INVARIANT DecisionsStay
CHECK_DEADLOCK FALSE
