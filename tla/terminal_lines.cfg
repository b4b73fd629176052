SPECIFICATION Spec
CONSTANTS
    x = x
    y = y
    WIDTH = 2
    HEIGHT = 3
    Printable <- MCPrintable
    Blank = Blank
    NL = NL
    CR = CR
    BS = BS
    Echoed <- MCEchoed
    BYTE = 4
    EchoAt <- Between
INVARIANTS
    TypeOK
    CursorRecovers
PROPERTIES
    ImplementsTeletype
