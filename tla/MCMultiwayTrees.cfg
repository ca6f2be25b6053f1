SPECIFICATION MCSpec
CONSTANTS
    Keys = {1, 2, 3, 4, 5, 6, 7, 8, 9, 10, 11, 12, 13, 14, 15, 16, 17, 18, 19, 20, 21, 22, 23, 24, 25, 26, 27, 28, 29, 30, 31, 32, 33, 34, 35, 36, 37, 38, 39, 40, 41, 42, 43, 44, 45, 46, 47, 48, 49, 50}
    FewKeys = {1, 2, 3, 4, 5}
    Nodes = {1, 2, 3, 4, 5, 6, 7, 8, 9, 10, 11, 12, 13, 14, 15, 16, 17, 18, 19, 20}
    MIN_DEGREE = 2
    ORDER = 4
    LEAF_SLOTS = 9
    NODE_SLOTS = 10
INVARIANTS
    NoBug
    Balanced
    InOrder
    FindsAllButSmallest
    AbsentRemovalTakesNeighbour
PROPERTIES
    Implements
    CallsReturn
