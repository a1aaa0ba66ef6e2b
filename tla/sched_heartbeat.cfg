SPECIFICATION FairSpec
CONSTANTS
    NTASKS = 2
    PERIOD = 2
    TICK_MOD = 16
PROPERTIES Heartbeat
