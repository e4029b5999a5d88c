SPECIFICATION Spec
CONSTANTS
    MTU = 4
    CERT_LEN = 4
    RETRIES = 2
    MAX_QUEUE_RX = 4
    MAX_QUEUE_TX = 6
    WINDOW = 4
    SCENARIOS <- Handshakes
INVARIANTS KeysAgree ClientConnectsLast OutputsInOrder NoFalseFailure
PROPERTIES HandshakeCompletes AbortIsQuiet
CHECK_DEADLOCK FALSE
