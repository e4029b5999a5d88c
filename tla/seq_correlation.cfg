SPECIFICATION Spec
CONSTANTS
    Requests = {r1, r2, r3}
    Messages = {m1}
    MAX_ARRIVALS = 4
    MAX_TEXTS = 3
INVARIANTS AnswersMatch IdsInOrder
CHECK_DEADLOCK FALSE
