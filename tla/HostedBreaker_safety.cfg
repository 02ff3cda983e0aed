SPECIFICATION FairSpec
CONSTANTS
    p1 = p1
    p2 = p2
    c1 = c1
    c2 = c2
    c3 = c3
    Procs = {p1, p2}
    Calls = {c1, c2, c3}
    Concurrency = 2
    Threshold = 2
    Cooldown = 2
INVARIANTS
    SlotsAccounted
    BreakerMatchesCount
PROPERTIES
    Recovers
