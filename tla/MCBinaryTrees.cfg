SPECIFICATION Spec
CONSTANTS
    Keys = {1, 2, 3, 4, 5, 6}
    AvlKeys = {1, 2, 3, 4, 5, 6, 7, 8}
    Size <- Sizes
INVARIANTS
    Ordered
    LinksAgree
    BalanceExact
    MaxSizeExact
PROPERTIES
    Implements
    CallsReturn
