SPECIFICATION FairSpec
CONSTANTS
    x = x
    y = y
    stack = stack
    null = null
    NUL = NUL
    NAME = 2
    COUNT = 2
    MaxTyped = 5
    Chars <- MCChars
    init <- MCInit
    echo <- MCEcho
    wait <- MCWait
    Places <- MCPlaces
    Invalid <- MCInvalid
INVARIANTS
    TypeOK
    ExecsWhatWasTyped
PROPERTIES
    ShellTakesAll
CHECK_DEADLOCK FALSE
