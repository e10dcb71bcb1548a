SPECIFICATION FairScannerSpec
CONSTANTS
    Resolver = {r1, r2}
    Updater = {scanner}
    Scanner = scanner
    FailLimit = 1
    Free = Free
    HC = HC
    MaxCalls = 1
    TopN = 4
    FoundLists <- AllLists
INVARIANTS
    ScannerTypeOK
    NoLostDown
PROPERTIES
    DownLeadsToScan
    TunnelStarts
CHECK_DEADLOCK FALSE
