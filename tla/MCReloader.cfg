SPECIFICATION ReloaderSpec
CONSTANTS
    Resolver = {r1, r2}
    Updater = {watcher, hup}
    Watcher = watcher
    Hup = hup
    FailLimit = 2
    Free = Free
    HC = HC
    MaxCalls = 0
    EarlyEdits = FALSE
    MaxEdits = 3
SYMMETRY Symmetry
INVARIANTS
    ReloaderTypeOK
    NoLostEdit
CHECK_DEADLOCK FALSE
