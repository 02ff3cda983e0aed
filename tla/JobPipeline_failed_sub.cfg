SPECIFICATION FairSpec
CONSTANTS
    j1 = j1
    j2 = j2
    w1 = w1
    w2 = w2
    NoJob = NoJob
    Jobs = {j1}
    N = 2
    SafetyCount = 3
    Workers = {w1, w2}
    Lists = {"rdap", "whois"}
    ListOf <- TwoLists
    WorkerList <- OnePerList
    Kinds = {"bulk"}
    Impatient = {}
    Budget <- WorkerErrorOnce
PROPERTIES
    FailedSubJobIsMerged
CHECK_DEADLOCK FALSE
