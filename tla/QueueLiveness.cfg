SPECIFICATION LiveSpec
CONSTANTS
    w1 = w1
    e1 = e1  e2 = e2  e3 = e3
    o1 = o1  o2 = o2
    p1 = p1  p2 = p2
    i1 = i1  i2 = i2
    Null = Null
    Owner = {w1}
    Episode = {e1, e2, e3}
    Outcome = {}
    OwnerOf <- OneOwner
    EpisodeOf <- OutcomeOwners
    Intake = {i1}
    Processor = {p1}
    MaxEpisodes = 2
    Overlap = 2
    MaxJobs = 4
    MaxIntakes = 4
CHECK_DEADLOCK FALSE
PROPERTIES
    EvidenceConsolidated
