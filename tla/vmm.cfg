SPECIFICATION Spec
CONSTANTS
    PAGE_SIZE = 4
    ADDR_SPACE = 256
    KernelStart = 8
    KernelEnd = 18
    ModStart = 28
    ModEnd = 34
    BootMaps <- Machines
    ENTRIES = 8
    KERNEL_SLOT = 3
    HEAP_SLOT = 4
    INITIAL_PAGES = 2
    MAX_GROW = 2
    LeftOver <- Contents
INVARIANTS TypeOK KernelMapped HeapExact FramesApart TlbCoherent StopsOnlyWhenFull
