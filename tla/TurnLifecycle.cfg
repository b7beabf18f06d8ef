SPECIFICATION TurnSpec
CONSTANTS
    c1 = c1  m1 = m1  m2 = m2  m3 = m3
    x1 = x1  x2 = x2
    None = None
    Memories <- SomeMemories
    Outputs = {x1, x2, None}
    MaxTokens = 7
    MaxAttempts = 3
CHECK_DEADLOCK FALSE
INVARIANTS
    TurnInv
    ModelSeesDelivered
    CoreRecordsTurn
