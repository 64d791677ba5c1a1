\* A commit cache of two entries, up to six sequence numbers, one or two snapshots at a time.
CONSTANTS
    h1 = h1
    h2 = h2
    Handles = {h1, h2}
    Configs <- UsualConfigs
SPECIFICATION Spec
SYMMETRY Symmetric
INVARIANTS HeapDrains PreparedAboveMax SnapshotMinIsSafe
 
CHECK_DEADLOCK FALSE
