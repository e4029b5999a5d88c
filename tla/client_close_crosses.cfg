SPECIFICATION Spec
CONSTANTS
    NoConnect = NoConnect
    NoCallback = NoCallback
    Connects = {k1}
    Callbacks = {cb1}
    FirstCallback = cb1
    CALLS = "any time"
    PROGRESS = {"Completed"}
    HEARTBEAT = TRUE
    MAX_STOPS = 1
INVARIANT Released
CHECK_DEADLOCK FALSE
