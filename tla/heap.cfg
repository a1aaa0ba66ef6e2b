SPECIFICATION FairSpec
CONSTANTS
    PAGE_SIZE = 16
    KHEAP_START = 16
    KHEAP_INITIAL_SIZE = 32
    HDR = 4
    ALIGN = 2
    WORD = 256
    FRAMES = 4
    Sizes = {0, 1, 7, 17, 250}
    MAX_BLOCKS = 3
    Callers = {1}
    Atomic = {}
INVARIANTS TypeOK Tiled Coalesced BlocksOwned
PROPERTIES CallsReturn
