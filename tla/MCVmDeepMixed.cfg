SPECIFICATION DeepSpec
CONSTANTS
    ULONG = 32
    PAGE_SIZE = 1
    And <- BitAnd
    ORDER = 4
    Nodes = {1, 2, 3, 4, 5, 6, 7, 8, 9, 10, 11, 12, 13}
    VSTART = 1
    VEND = 14
    Requests <- UnitRequests
    DEBUG = FALSE
    Scripts <- DeepScripts
    ALLOCS = 1
INVARIANTS
    AvailExact
    Tiling
    GivesUpOnlyWhenFull
