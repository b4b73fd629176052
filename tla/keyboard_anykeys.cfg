SPECIFICATION Spec
CONSTANTS
    a = a
    b = b
    NUL = NUL
    Char <- MCChar
    keys <- MCKeys
    Codes <- MCCodesBackspace
    BUFSIZE = 3
    INT8 = 5
    Sizes <- MCSizesShort
    TypeAhead = 5
INVARIANTS
    RingAccessInBounds
