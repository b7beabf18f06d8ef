SPECIFICATION Spec
CONSTANTS
    w1 = w1
    e1 = e1  e2 = e2  e3 = e3
    o1 = o1  o2 = o2
    p1 = p1  p2 = p2
    i1 = i1  i2 = i2
    Null = Null
    Owner = {w1}
    Episode = {e1, e2, e3}
    Outcome = {o1}
    OwnerOf <- OneOwner
    EpisodeOf <- OutcomeOwners
    Intake = {i1, i2}
    Processor = {p1, p2}
    MaxEpisodes = 2
    Overlap = 2
    MaxJobs = 3
    MaxIntakes = 3
SYMMETRY Actors
CHECK_DEADLOCK FALSE
INVARIANTS
    CommitsInOrder
    EffectOnce
    QueueInv
    LeaseNeverWedged
    EvidenceNeverLost
PROPERTIES
    FrozenWindowsFixed
    FreezeMakesProgress
