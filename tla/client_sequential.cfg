SPECIFICATION FairSpec
CONSTANTS
    NoConnect = NoConnect
    NoCallback = NoCallback
    Connects = {k1, k2}
    Callbacks = {cb1, cb2}
    FirstCallback = cb1
    CALLS = "settled"
    PROGRESS = {"Completed"}
    HEARTBEAT = TRUE
    MAX_STOPS = 2
INVARIANTS Released QuietAfterClose
PROPERTIES CallsReturn StateReported
CHECK_DEADLOCK FALSE
