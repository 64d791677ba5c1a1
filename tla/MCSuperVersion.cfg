SPECIFICATION FairSpec
CONSTANTS
    Readers = {r1, r2}
    MaxVersion = 4
    kSVInUse = kSVInUse
INVARIANTS NoUseAfterFree LocalIsNeverLast NoLeak CleanedOnce FreshGet
PROPERTIES CallsReturn
