SPECIFICATION Spec
CONSTANTS
    Initiations = {i1}
    Offers = {o1}
    Connectors = {c1}
    None = none
    USAGES = {"in turn", "stops any time"}
    MAX_STOPS = 1
INVARIANTS ThreadsStoppable QuietWhenClosed AnswerTaken
PROPERTIES CallsReturn StateTold
CHECK_DEADLOCK FALSE
