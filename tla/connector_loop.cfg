SPECIFICATION FairSpec
CONSTANTS
    STOPPABLE = TRUE
    MAX_MESSAGES = 3
    MAX_PINGS = 2
    MAX_DROPS = 1
    MAX_WAITS = 6
INVARIANTS MessagesInOrder
PROPERTIES MessagesDelivered StopEnds
CHECK_DEADLOCK FALSE
