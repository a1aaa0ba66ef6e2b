SPECIFICATION Spec
CONSTANTS
    NTASKS = 2
    PERIOD = 2
    TICK_MOD = 4
INVARIANTS ListIsCircular
