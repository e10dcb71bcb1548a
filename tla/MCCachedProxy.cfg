SPECIFICATION CachedSpec
CONSTANTS
    Key = {k1, k2, k3}
    Answer <- Answers
    MaxSize = 2
    MaxTime = 3
    MaxUses = 4
    Handler = {h1, h2}
    NoKey = NoKey
    MaxWait = 1
SYMMETRY Symmetry
INVARIANTS
    ListMatchesMap
    KeptAtMostTwice
PROPERTIES
    IsLRUStore
CHECK_DEADLOCK FALSE
