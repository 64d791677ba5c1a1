CONSTANTS
    Threads = {t1, t2, t3}
    NumFrames = 1
    Configs <- SafetyConfigs
    SmallBatch = 1
    MaxGroupSize = 4
    NULL = NULL
SYMMETRY Symmetry
SPECIFICATION Spec
INVARIANTS ExclusiveLeaders NoLostWriter NoDanglingPointer AssertionsHold
PROPERTIES ImplementsWriteQueue
CHECK_DEADLOCK FALSE
