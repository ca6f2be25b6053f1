SPECIFICATION Spec
CONSTANTS
    Keys = {1, 2, 3, 4, 5, 6, 7, 8, 9, 10}
    Nodes = {1, 2, 3}
    LEAF_SLOTS = 9
    NODE_SLOTS = 10
INVARIANT
    RightMostUpdated
CHECK_DEADLOCK FALSE
