SPECIFICATION FairSpec
CONSTANTS
    None = None
    a1 = a1  a2 = a2  a3 = a3  b1 = b1  p1 = p1  p2 = p2  m1 = m1  s1 = s1  q1 = q1  q2 = q2
    Instances = {a1, a2, a3, b1}
    Cohort <- FourTasks
    Formal = TRUE
    Split <- SplitOf
    Persona <- PersonaOf
    Request <- RequestFor
    Label <- SameLabel
    Contexts <- HoldoutContexts
    Replies = {"x", "y"}
    Verdicts = {"3", "8", "?"}
    ArmOrder <- Orders
    Draws <- SomeDraws
    Limit = 2
    MaxStarts = 2
    MaxDrifts = 1
    MaxTokens = 5
CHECK_DEADLOCK FALSE
INVARIANTS
    ProtocolInv
    VerdictJustified
PROPERTIES
    EvaluationEnds
