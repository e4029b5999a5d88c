SPECIFICATION FairSpec
CONSTANTS
    A = A
    B = B
    a1 = a1
    a2 = a2
    b1 = b1
    b2 = b2
    NoRoute = NoRoute
    Agents = {A, B}
    PRIO_BASE = 16
    Candidate <- MCCandidate
    InitialRole <- ControllingA
    Gathered <- TwoPaths
    Described <- TwoPaths
    Source <- OneWay
    SplitStart = {}
    Stoppers = {}
    MAX_RETRANSMITS = 2
    MAX_STARTS = 1
    MAX_LOST = 1
    MAX_COPIES = 0
    MAX_CONFLICTS = 0
INVARIANTS NominationAgreed
PROPERTIES PathIsStable NominationCompletes ChecksEnd
