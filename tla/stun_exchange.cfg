SPECIFICATION StunSpec
CONSTANTS
    MTU = 7
    CERT_LEN = 4
    RETRIES = 2
    MAX_QUEUE_RX = 2
    MAX_QUEUE_TX = 6
    WINDOW = 4
    HANDSHAKE_SECONDS = 5
    SCENARIOS <- Exchanges
INVARIANTS AnswerIsOwn LossIsOvercome
PROPERTIES CallReturns
CHECK_DEADLOCK FALSE
