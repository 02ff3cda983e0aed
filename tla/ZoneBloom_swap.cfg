SPECIFICATION FairSpec
CONSTANTS
    Names = {"known", "other"}
    Known = {"known"}
    Hash <- SmallHash
    Word = 16
    Reverse <- SmallReverse
    NumHashes = 2
    Sizes = {5, 7}
    Builders = {b1}
    Readers = {r1}
    Langs = {"go", "python"}
    MaxCrashes = 1
INVARIANTS
    SwapLosesNothing
    LiveIsVerified
PROPERTIES
    MetaCatchesUp
