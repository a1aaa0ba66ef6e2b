SPECIFICATION FairSpec
CONSTANTS
    NTASKS = 3
    PERIOD = 1
    TICK_MOD = 4
INVARIANTS TypeOK OwnStack WaitingTasksIntact NoLineBlocked ReadyRing LockExclusive
PROPERTIES EveryTaskRuns
