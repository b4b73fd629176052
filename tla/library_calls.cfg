SPECIFICATION LibrarySpec
CONSTANTS
    WORD = 4096
    D_SIZE = 4
    X_SIZE = 3
    Calls <- MCCalls
    MEMORY = 5
    BYTE = 4
    Contents <- MCContents
INVARIANTS
    LibraryTypeOK
    PrintsExpansion
    DigitsInBounds
    BlockMoved
    StrcmpOrders
PROPERTIES
    Returns
CHECK_DEADLOCK FALSE
