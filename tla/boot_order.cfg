SPECIFICATION FairSpec
CONSTANTS
    BootSelectors <- MCSelectors
    TagSets <- MCTags
    Lines <- MCLines
    MaxKeys = 3
INVARIANTS
    TypeOK
    NeverReset
    HandlerNotReentered
    ServedByItsHandler
    ReturnsToPrograms
PROPERTIES
    KeyHandled
CHECK_DEADLOCK FALSE
