SPECIFICATION FairSpec
CONSTANTS
    A = A
    B = B
    a1 = a1
    a2 = a2
    b1 = b1
    b2 = b2
    NoRoute = NoRoute
    Agents = {A, B}
    PRIO_BASE = 16
    Candidate <- MCCandidate
    InitialRole <- ControllingA
    Gathered <- OnePath
    Described <- OnePath
    Source <- Direct
    SplitStart = {}
    Stoppers = {}
    MAX_RETRANSMITS = 2
    MAX_STARTS = 1
    MAX_LOST = 0
    MAX_COPIES = 0
    MAX_CONFLICTS = 0
PROPERTIES NominationCompletes
