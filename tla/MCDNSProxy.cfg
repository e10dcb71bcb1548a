SPECIFICATION ProxySpec
CONSTANTS
    Resolver = {r1, r2}
    Updater = {reloader}
    FailLimit = 2
    Free = Free
    HC = HC
    MaxCalls = 0
    UDPHandler = {u1}
    TCPHandler = {t1}
    NoResolver = NoResolver
    MaxQueries = 2
INVARIANTS
    CacheCoherent
    StreakMeansDown
    ProbesCoverReceives
    ProxyTypeOK
    NoNilStats
    Conservation
    RateAtMostOne
PROPERTIES
    PoolSpec
CHECK_DEADLOCK FALSE
