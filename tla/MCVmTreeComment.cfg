SPECIFICATION Spec
CONSTANTS
    ULONG = 16
    PAGE_SIZE = 1
    And <- BitAnd
    ORDER = 4
    Nodes = {1, 2, 3, 4, 5, 6, 7}
    VSTART = 1
    VEND = 10
    Requests <- UnitRequests
    DEBUG = FALSE
INVARIANTS
    LowestLeafComment
