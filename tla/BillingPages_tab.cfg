SPECIFICATION PagesSpec
CONSTANTS
    u1 = u1
    Users = {u1}
    Me = u1
    Links = {}
    Cards = {f1}
    NoCard = NoCard
    Sold = {"basic"}
    Calls = {c1, c2}
    None = None
    Subs = {s1}
    Scenarios <- MCScenarios
    Published = {"free", "free_plus", "basic"}
    Watchers = {u1}
    MaxKeys <- MCMaxKeys
INVARIANT BusyHasReason SuccessIsRecorded ShownWasEarned
PROPERTY UsageShows
CHECK_DEADLOCK FALSE
