CONSTANTS
    Writers = {w1, w2}
    w1 = w1
    w2 = w2
    Kinds <- StateKinds
    SeqPerBatch = TRUE
    AllowConcurrent = TRUE
    ParanoidChecks = TRUE
    WalMayFail = FALSE
    PreReleaseMayFail = FALSE
    BackgroundMayFail = FALSE
SPECIFICATION Spec
SYMMETRY Symmetry
INVARIANTS SequencesAreUnique
