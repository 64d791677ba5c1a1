\* A request with a timeout that is refused because max_num_locks are out.
CONSTANTS
    t1 = t1
    t2 = t2
    t3 = t3
    Txns = {t1, t2, t3}
    Keys = {1, 2, 3}
    NoTxn = NoTxn
    Configs <- LimitConfigs
SPECIFICATION FairSpec
PROPERTIES LockCallsReturn
CHECK_DEADLOCK FALSE
