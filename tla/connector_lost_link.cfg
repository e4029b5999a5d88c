SPECIFICATION ReachableSpec
CONSTANTS
    STOPPABLE = FALSE
    MAX_MESSAGES = 0
    MAX_PINGS = 0
    MAX_DROPS = 1
    MAX_WAITS = 2
PROPERTIES Reconnects
CHECK_DEADLOCK FALSE
