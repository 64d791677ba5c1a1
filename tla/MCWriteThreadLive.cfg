CONSTANTS
    Threads = {t1, t2, t3}
    NumFrames = 1
    Configs <- LiveConfigs
    SmallBatch = 1
    MaxGroupSize = 4
    NULL = NULL
SPECIFICATION FairSpec
PROPERTIES EveryCallReturns
CHECK_DEADLOCK FALSE
