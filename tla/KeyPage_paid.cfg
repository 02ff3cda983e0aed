SPECIFICATION KeyPageSpec
CONSTANTS
    u1 = u1
    u2 = u2
    u3 = u3
    c1 = c1
    c2 = c2
    s1 = s1
    s2 = s2
    Users = {u1, u2, u3}
    Me = u3
    Watchers = {u3}
    Links <- MCLinks
    Cards = {f1}
    NoCard = NoCard
    Sold = {"basic", "pro"}
    Calls = {c1, c2}
    Subs = {s1, s2}
    Scenarios <- MCPaidScenarios
    MaxKeys <- MCMaxKeys
SYMMETRY MCSymmetry
INVARIANT PaidIsServed
CHECK_DEADLOCK FALSE
