SPECIFICATION FairSpec
CONSTANTS
    Threads = {t1, t2}
    NoThread = NoThread
    update = update
    advertisement = advertisement
    Rows <- MCRows
    Discarded <- MCDiscarded
    TableLen <- MCTableLen
    TupleLen <- MCTupleLen
    Sign = TRUE
    DoCheck = FALSE
    DoTrimming = FALSE
    CheckAfter = 2
    IntMax = 3
    SignCanFail = TRUE
    InsertCanFail = FALSE
    MaxRows = 1
    MaxPairs = 2
PROPERTIES
    CallsReturn
CHECK_DEADLOCK FALSE
