SPECIFICATION GrowSpec
CONSTANTS
    ULONG = 32
    PAGE_SIZE = 1
    And <- BitAnd
    ORDER = 4
    Nodes = {1, 2, 3, 4, 5, 6, 7, 8, 9, 10, 11, 12, 13, 14, 15}
    VSTART = 1
    VEND = 18
    Requests <- UnitRequests
    DEBUG = FALSE
    Script <- Outwards
INVARIANTS
    NoBug
    LinksAgree
    Balanced
    LeafListInOrder
    SeparatorsCutNothing
