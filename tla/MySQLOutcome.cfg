SPECIFICATION Spec
CONSTANTS
    s1 = s1  s2 = s2  s3 = s3
    x1 = x1  x2 = x2
    g1 = g1  g2 = g2  r1 = r1
    k1 = k1  k2 = k2  k3 = k3  k4 = k4  k5 = k5  k6 = k6
    c1 = c1  c2 = c2  c3 = c3
    Null = Null
    Source = {s1, s2, s3}
    Content = {x1, x2}
    Group = {g1, g2}
    Run = {r1}
    Key = {k1, k2, k3, k4, k5, k6}
    RunOf <- RunOfGroup
    Request <- RaceRequests
    Caller = {c1, c2}
    Adapter = "mysql"
    MaxCalls = 4
SYMMETRY Symmetry
CHECK_DEADLOCK FALSE
INVARIANTS
    EvidenceBound
