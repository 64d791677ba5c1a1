CONSTANTS
    Writers = {w1, w2, w3}
    w1 = w1
    w2 = w2
    w3 = w3
    Kinds <- ErrorKinds
    SeqPerBatch = FALSE
    AllowConcurrent = TRUE
    ParanoidChecks = TRUE
    WalMayFail = TRUE
    PreReleaseMayFail = FALSE
    BackgroundMayFail = TRUE
SPECIFICATION FairSpec
INVARIANTS AcknowledgedIsDurable NothingAfterFailedAppend
PROPERTIES LastSequenceNeverDecreases EveryWriteReturns
