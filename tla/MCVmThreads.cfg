SPECIFICATION Spec
CONSTANTS
    Threads = {t1, t2}
    LOOPS = 3
    MAX_DEFER_FREE = 2
    PAGE_SIZE = 1
    VSTART = 1
    VEND = 5
    Requests <- SmallRequests
INVARIANTS
    Serialised
    Owned
    ArrayFits
    AllReturned
PROPERTIES
    Ends
