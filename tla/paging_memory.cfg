SPECIFICATION FairSpec
CONSTANTS
    PAGE = 4
    FRAMES = 13
    CR3 <- MCRoot
    BootMem <- MCBootMem
    memmap <- MCmemmap
    UserPages <- MCUserPages
    KernelPages <- MCKernelPages
    Protections <- MCDataAndCode
    Touched <- MCTouched
INVARIANTS
    TypeOK
    FreelistIntact
    FreeNotInUse
    Partition
    NoAliasing
    TlbCoherent
    TranslateAgrees
PROPERTIES
    CallsReturn
    ImplementsAddressSpace
