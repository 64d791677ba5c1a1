SPECIFICATION Spec
CONSTANTS
    CFs = {cf1, cf2}
    Jobs = {j1, j2}
    Configs <- SyncWALConfigs
    MaxWrites = 2
    MaxFile = 4
    MaxImm = 2
    MaxCrashes = 2
    NULL = NULL
SYMMETRY Symmetry
INVARIANTS UnsyncedIsListed
CHECK_DEADLOCK FALSE
