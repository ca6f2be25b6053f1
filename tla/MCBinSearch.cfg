SPECIFICATION Spec
CONSTANTS
    Keys = {0, 1, 2, 3, 4, 5}
    MAX_ENTRIES = 5
INVARIANTS
    LoopInvariant
    Correct
PROPERTIES
    Terminates
CHECK_DEADLOCK FALSE
