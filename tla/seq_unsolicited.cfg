SPECIFICATION Spec
CONSTANTS
    Requests = {r1, r2}
    Messages = {m1}
    MAX_ARRIVALS = 2
    MAX_TEXTS = 2
INVARIANTS Correlated
CHECK_DEADLOCK FALSE
