SPECIFICATION ExecFairSpec
CONSTANTS
    PAGE = 4
    FRAMES = 28
    CR3 <- MCRoot
    BootMem <- MCBootMem
    memmap <- MCmemmap
    UserPages <- MCExecPages
    KernelPages <- MCKernelPages
    Protections = {}
    Touched <- MCExecTouched
    Modules <- MCModules
    user_stack <- MCStack
    BootCall <- MCBootCall
    UserCalls <- MCNamesAnywhere
INVARIANTS
    ExecTypeOK
    StartsWhole
    OnlyOwnPages
    HaltsForCause
PROPERTIES
    ExecEnds
CHECK_DEADLOCK FALSE
