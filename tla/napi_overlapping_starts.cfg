SPECIFICATION Spec
CONSTANTS
    Initiations = {i1}
    Offers = {o1}
    Connectors = {c1}
    None = none
    USAGES = {"any time"}
    MAX_STOPS = 1
INVARIANT JoinsEnd
CHECK_DEADLOCK FALSE
