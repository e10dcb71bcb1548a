SPECIFICATION FairProxySpec
CONSTANTS
    Resolver = {r1}
    Updater = {reloader}
    FailLimit = 2
    Free = Free
    HC = HC
    MaxCalls = 0
    UDPHandler = {u1}
    TCPHandler = {t1}
    NoResolver = NoResolver
    MaxQueries = 1
PROPERTIES
    EveryQueryCompletes
CHECK_DEADLOCK FALSE
