SPECIFICATION FairSpec
CONSTANTS
    a = a
    b = b
    NUL = NUL
    Char <- MCChar
    keys <- MCKeys
    Codes <- MCCodes
    BUFSIZE = 3
    INT8 = 5
    Sizes <- MCSizes
    TypeAhead = 3
INVARIANTS
    TypeOK
    RingHoldsPending
PROPERTIES
    ImplementsKeyQueue
    KeyReachesReader
