SPECIFICATION FairTunnelSpec
CONSTANTS
    Slipnet = {t1, t2}
    Ssh = {s1, s2}
    Main = Main
    None = None
INVARIANTS
    TunnelTypeOK
    StopLeavesNothing
    OneChain
PROPERTIES
    TunnelComesBack
    SSHComesBack
    StopEnds
CHECK_DEADLOCK FALSE
