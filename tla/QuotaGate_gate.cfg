SPECIFICATION FairSpec
CONSTANTS
    p1 = p1
    p2 = p2
    Procs = {p1, p2}
    LastMinute = 1
    MonthOf <- MonthEnds
    MinuteLimit = 2
    MonthlyLimit = 2
    DomainCap = 2
    MaxAborts = 1
    MaxCounted = 4
INVARIANTS
    MinuteOvershoot
    MonthlyOvershoot
    RateOvershoot
    WorkIsCharged
PROPERTY RateKeysExpire
CHECK_DEADLOCK FALSE
