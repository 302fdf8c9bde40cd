SPECIFICATION FairSpec
CONSTANTS
    Threads = {t1, t2}
    NoThread = NoThread
    update = update
    advertisement = advertisement
    Rows <- MCRows
    Discarded <- MCDiscarded
    TableLen <- MCTableLen
    TupleLen <- MCTupleLen
    Sign = TRUE
    DoCheck = TRUE
    DoTrimming = TRUE
    CheckAfter = 2
    IntMax = 3
    SignCanFail = FALSE
    InsertCanFail = FALSE
    MaxRows = 1
    MaxPairs = 4
INVARIANTS
    OwnTransaction
PROPERTIES
    AuditsSpaced
    ImplementsLog
    CallsReturn
    EveryRowSettles
CHECK_DEADLOCK FALSE
