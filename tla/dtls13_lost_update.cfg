SPECIFICATION Spec
CONSTANTS
    MTU = 6
    RETRIES = 2
    MAX_QUEUE_RX = 12
    MAX_QUEUE_TX = 6
    WINDOW = 16
    MAX_RECEIVED = 32
    MAX_RECV_EPOCHS = 4
    SCENARIOS <- LostUpdate
INVARIANT UpdatesComplete
CHECK_DEADLOCK FALSE
