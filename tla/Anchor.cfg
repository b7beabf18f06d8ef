SPECIFICATION FairSpec
CONSTANTS
    None = None
    t1 = t1  b1 = b1  m1 = m1  m2 = m2  s1 = s1
    Trajectory = {t1}
    Behavior = {b1}
    Dimension <- Friendship
    Correct <- AlwaysA
    Contexts <- SomeContexts
    Replies <- SomeReplies
    Verdicts = {"0", "2", "?"}
    ArmOrder <- Orders
    MaxTokens = 5
    NumCases = 1
    MaxCrashes = 1
    MaxDrifts = 1
CHECK_DEADLOCK FALSE
INVARIANTS
    DirectoryInv
    VerdictJustified
PROPERTIES
    EvaluationEnds
