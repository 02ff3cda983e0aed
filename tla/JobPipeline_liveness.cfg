SPECIFICATION FairSpec
CONSTANTS
    j1 = j1
    j2 = j2
    w1 = w1
    w2 = w2
    NoJob = NoJob
    Jobs = {j1}
    N = 2
    SafetyCount = 3
    Workers = {w1, w2}
    Lists = {"rdap"}
    ListOf <- OneList
    WorkerList <- BothOnOne
    Kinds = {"bulk", "anon"}
    Impatient = {}
    Budget <- ApiErrorTwice
PROPERTIES
    AnsweredInFull
    HashesExpire
CHECK_DEADLOCK FALSE
