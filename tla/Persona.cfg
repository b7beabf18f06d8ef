SPECIFICATION FairSpec
CONSTANTS
    None = None
    p1 = p1  p2 = p2  q1 = q1  q2 = q2  q3 = q3
    e1 = e1  e2 = e2  e3 = e3  m1 = m1  m2 = m2
    Questions = {q1, q2, q3}
    Persona <- PersonaOf
    PersonaOrder <- BothPersonas
    Cases <- CasesOf
    Gold <- GoldOf
    OracleText <- OracleOf
    HistoryText <- Histories
    Ranked <- OrderOf
    Learned <- LearnedOf
    Draws <- SomeDraws
    Replies <- RepliesTo
    Loadable <- LoadableFor
    Bytes <- BytesPer
    EvidenceBytes = 3
    TopN = 3
    MaxEvidence = 2
    MaxTokens = 5
    Limit = 2
    MaxLearn <- LearnsOne
    MaxStops = 1
CHECK_DEADLOCK FALSE
INVARIANTS
    MemoryFrozen
    ArmsComparable
    BlameJustified
PROPERTIES
    EvaluationEnds
