SPECIFICATION Spec
CONSTANTS
    PAGE_SIZE = 4
    ADDR_SPACE = 4096
    KernelStart = 16
    KernelEnd = 23
    ModStart = 28
    ModEnd = 34
    BootMaps <- PcMaps
INVARIANTS ModuleKept
