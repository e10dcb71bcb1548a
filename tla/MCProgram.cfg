SPECIFICATION FairProgramSpec
CONSTANTS
    Handler = {h1}
    Socket = {s1, s2, s3}
    NoSocket = NoSocket
    Numeral <- Numerals
    Stem <- Stems
    Candidate = {c1, c2, c3}
    Replies <- Networks
    BestLimit = 2
    Probed = {p1, p2, p3, p4}
    MaxWorkers = 2
    Flags <- CommandLines
INVARIANTS
    ProgramTypeOK
    NoStraySocket
    ClosedForAReason
    CleanExit
    FailsForAReason
    SlipnetGetsTheProfile
    ScannedIsTunnelled
    BestAreNamed
PROPERTIES
    ProbeCompletes
    SignalEndsIt
    ServesAgain
CHECK_DEADLOCK FALSE
