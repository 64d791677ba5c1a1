CONSTANTS
    Writers = {w1, w2, w3}
    w1 = w1
    w2 = w2
    w3 = w3
    Kinds <- CommitKinds
    SeqPerBatch = TRUE
    AllowConcurrent = TRUE
    ParanoidChecks = TRUE
    WalMayFail = TRUE
    PreReleaseMayFail = TRUE
    BackgroundMayFail = TRUE
SPECIFICATION Spec
SYMMETRY Symmetry
INVARIANTS ReplayAgrees
