SPECIFICATION FairSpec
CONSTANTS
    None = None
    i1 = i1  i2 = i2  m1 = m1  m2 = m2  s1 = s1
    Instances = {i1, i2}
    Cohort <- Order
    Actives <- SomeActives
    Contexts <- SomeContexts
    Sizes <- SomeSizes
    Replies <- SomeReplies
    Verdicts = {"A", "B", "?"}
    AnswerOrder <- Answers
    JudgeOrder <- Judgements
    MaxTokens = 5
    DominanceWins = 1
    MaxStops = 1
    MaxDrifts = 1
CHECK_DEADLOCK FALSE
INVARIANTS
    DirectoryInv
    VerdictJustified
PROPERTIES
    EvaluationEnds
