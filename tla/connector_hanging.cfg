SPECIFICATION FairSpec
CONSTANTS
    STOPPABLE = TRUE
    MAX_MESSAGES = 0
    MAX_PINGS = 0
    MAX_DROPS = 0
    MAX_WAITS = 2
PROPERTIES EndsWhenTold
CHECK_DEADLOCK FALSE
