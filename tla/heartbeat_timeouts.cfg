SPECIFICATION Spec
CONSTANTS
    A = A
    B = B
    Ends = {A, B}
    Interval <- ThreeAndSeven
    FirstElapsed = {0, 2}
    Mortal = {B}
    Reconnecting = {B}
    MAX_TIME = 9
    MAX_DELAY = 1
    MAX_LOST = 1
    MAX_DATA = 1
INVARIANTS NoFalseAlarm SilenceNoticed
CHECK_DEADLOCK FALSE
