SPECIFICATION FairProxySpec
CONSTANTS
    Resolver = {r1, r2}
    Updater = {}
    FailLimit = 1
    Free = Free
    HC = HC
    MaxCalls = 0
    UDPHandler = {u1}
    TCPHandler = {t1}
    NoResolver = NoResolver
    MaxQueries = 2
PROPERTIES
    EveryQueryCompletes
