SPECIFICATION Spec
CONSTANTS
    NIBBLE = 2
    TssAt = 214
    TssSize = 26
    CodeAt = 100
    Lines = {0, 1, 7, 8, 15}
    BiosMasks <- Masks
INVARIANTS EveryTrapHandled FrameMatches Transparent EoiExact TypeOK
