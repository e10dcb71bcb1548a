SPECIFICATION Spec
CONSTANTS
    Resolver = {r1, r2}
    Updater = {}
    FailLimit = 2
    Free = Free
    HC = HC
    MaxCalls = 4
PROPERTIES
    DownIsAnnounced
CHECK_DEADLOCK FALSE
