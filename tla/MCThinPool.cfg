SPECIFICATION ScannerSpec
CONSTANTS
    Resolver = {r1, r2}
    Updater = {scanner}
    Scanner = scanner
    FailLimit = 1
    Free = Free
    HC = HC
    MaxCalls = 2
    TopN = 4
    FoundLists <- NoList
PROPERTIES
    ThinPoolIsSeen
CHECK_DEADLOCK FALSE
