SPECIFICATION Spec
CONSTANTS
    A = A
    B = B
    a1 = a1
    a2 = a2
    b1 = b1
    b2 = b2
    NoRoute = NoRoute
    Agents = {A, B}
    PRIO_BASE = 16
    Candidate <- MCCandidate
    InitialRole <- ControllingA
    Gathered <- OnePath
    Described <- OnePath
    Source <- OneWay
    SplitStart = {A}
    Stoppers = {A}
    MAX_RETRANSMITS = 2
    MAX_STARTS = 2
    MAX_LOST = 0
    MAX_COPIES = 1
    MAX_CONFLICTS = 1
PROPERTIES ClosedIsQuiet
