\* Two or three transactions on one or two keys, up to three ticks of the clock.
CONSTANTS
    t1 = t1
    t2 = t2
    t3 = t3
    Txns = {t1, t2, t3}
    Keys = {1, 2, 3}
    NoTxn = NoTxn
    Configs <- UsualConfigs
SPECIFICATION FairSpec
INVARIANTS CommitHoldsLocks NoOrphanLock NoDeadlock RevMapCounts LimitHolds
PROPERTIES UnlimitedCallsReturn
CHECK_DEADLOCK FALSE
