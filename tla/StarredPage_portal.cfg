SPECIFICATION StarSpec
CONSTANTS
    u1 = u1
    u2 = u2
    t1 = t1
    t2 = t2
    v1 = v1
    v2 = v2
    Users = {u1, u2}
    Links <- MCLinks
    Tabs = {t1, t2}
    Domains = {d1, d2}
    Vids = {v1, v2}
    Slots = {s1, s2}
    NoUser = NoUser
    NoVid = NoVid
    NoTab = NoTab
    LastVersion = 2
    Plots <- MCPlots
INVARIANT GateIsHonest NoVidLost ShownIsMine StarsAgree
PROPERTY SpinnerEnds UnstarOnlyRemoves
CHECK_DEADLOCK FALSE
