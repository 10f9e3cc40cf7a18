CONSTANTS
    PoolSize = 2
    BatchSize = 2
    MaxFaults = 1
    MaxFlushes = 3
    MaxOpens = 3
SPECIFICATION FairSpec
INVARIANTS TypeOK ListNewestFirst NothingMissing PoolNoLostWakeup
PROPERTIES NothingOverwritten FlushReturns ManagerCloses
CHECK_DEADLOCK FALSE
