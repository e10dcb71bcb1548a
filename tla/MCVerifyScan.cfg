SPECIFICATION FairVerifySpec
CONSTANTS
    Entry = {r1, r2, r3}
    Workers = 2
    TopN = 2
    Latency = {1, 2}
INVARIANTS
    VerifyTypeOK
    HandedOnce
    HandedIsSound
    RescanTakesTheBest
PROPERTIES
    EveryoneIsTested
CHECK_DEADLOCK FALSE
