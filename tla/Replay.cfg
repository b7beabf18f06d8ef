SPECIFICATION ReplaySpec
CONSTANTS
    Nothing = Nothing
    c1 = c1  c2 = c2  e1 = e1  e2 = e2  e3 = e3  s1 = s1  s2 = s2  q1 = q1  q2 = q2  q3 = q3
    u1 = u1  u2 = u2  o1 = o1  o2 = o2  m1 = m1  m2 = m2  stray = stray
    MemoryRefs = {m1, m2}
    Callers = {c1, c2}
    Inputs <- Windows
    Outputs <- SomeOutputs
    StrictReplay = TRUE
    MaxCalls = 2
    MaxStarts = 2
SYMMETRY CallersAlike
CHECK_DEADLOCK FALSE
INVARIANTS
    ReplayInv
    RestoredIsRenaming
