SPECIFICATION ReloaderSpec
CONSTANTS
    Resolver = {r1, r2}
    Updater = {watcher, hup}
    Watcher = watcher
    Hup = hup
    FailLimit = 2
    Free = Free
    HC = HC
    MaxCalls = 0
    EarlyEdits = TRUE
    MaxEdits = 3
INVARIANTS
    NoLostEdit
CHECK_DEADLOCK FALSE
