SPECIFICATION Spec
CONSTANTS
    l1 = l1
    l2 = l2
    Lookups = {l1, l2}
    Langs = {"go", "python"}
    AvailableTTL <- Available
    RegisteredTTL <- Registered
    ExpiryTTL = 3
    ZoneTTL = 2
    Stale = 1
    LongAgo = 5
    MaxErrors = 0
SYMMETRY LookupSymmetry
INVARIANT WhatIsCachedExpires
