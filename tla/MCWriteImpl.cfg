CONSTANTS
    Writers = {w1, w2, w3}
    w1 = w1
    w2 = w2
    w3 = w3
    Kinds <- GroupKinds
    SeqPerBatch = FALSE
    AllowConcurrent = TRUE
    ParanoidChecks = TRUE
    WalMayFail = FALSE
    PreReleaseMayFail = FALSE
    BackgroundMayFail = FALSE
SPECIFICATION Spec
SYMMETRY Symmetry
INVARIANTS TypeOK SomebodyInCharge LastOneCloses NoHalfBatchVisible SequencesAreUnique ReplayAgrees AcknowledgedIsVisible RefusedLeavesNoTrace
