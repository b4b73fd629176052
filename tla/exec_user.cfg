SPECIFICATION ExecSpec
CONSTANTS
    PAGE = 4
    FRAMES = 28
    CR3 <- MCRoot
    BootMem <- MCBootMem
    memmap <- MCmemmap
    UserPages <- MCExecPages
    KernelPages <- MCKernelPages
    Protections = {}
    Touched <- MCExecTouched
    Modules <- MCSleepModule
    user_stack <- MCStack
    BootCall <- MCBootCall
    UserCalls <- MCNamesOnStack
INVARIANTS
    NamedModuleRuns
CHECK_DEADLOCK FALSE
