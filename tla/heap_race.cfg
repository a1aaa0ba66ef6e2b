SPECIFICATION Spec
CONSTANTS
    PAGE_SIZE = 16
    KHEAP_START = 16
    KHEAP_INITIAL_SIZE = 32
    HDR = 4
    ALIGN = 2
    WORD = 256
    FRAMES = 4
    Sizes = {4}
    MAX_BLOCKS = 2
    Callers = {1, 2}
    Atomic = {2}
INVARIANTS NoSharedBlock
