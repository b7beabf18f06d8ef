SPECIFICATION FairSpec
CONSTANTS
    None = None
    Turns <- TwoTurns
    Replies = {"A", "?"}
    MaxCrashes = 1
CHECK_DEADLOCK FALSE
INVARIANTS
    SettledInv
    PassedMeansBoundary
PROPERTIES
    SuiteEnds
