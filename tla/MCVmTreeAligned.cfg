SPECIFICATION Spec
CONSTANTS
    ULONG = 16
    PAGE_SIZE = 1
    And <- BitAnd
    ORDER = 4
    Nodes = {1, 2, 3, 4, 5, 6, 7}
    VSTART = 0
    VEND = 15
    Requests <- AlignedRequests
    DEBUG = FALSE
PROPERTIES
    Implements
