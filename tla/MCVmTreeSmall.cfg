SPECIFICATION Spec
CONSTANTS
    ULONG = 16
    PAGE_SIZE = 1
    And <- BitAnd
    ORDER = 4
    Nodes = {1, 2, 3, 4, 5}
    VSTART = 1
    VEND = 7
    Requests <- BoundedRequests
    DEBUG = TRUE
INVARIANTS
    TypeOK
    VerifyMetaData
    SameAsLinear
PROPERTIES
    Implements
    CallsReturn
