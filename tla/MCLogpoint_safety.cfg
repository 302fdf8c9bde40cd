SPECIFICATION Spec
CONSTANTS
    Threads = {t1, t2}
    NoThread = NoThread
    update = update
    advertisement = advertisement
    Rows <- MCRows
    Discarded <- MCDiscarded
    TableLen <- MCTableLen
    TupleLen <- MCTupleLen
    Sign = TRUE
    DoCheck = FALSE
    DoTrimming = FALSE
    CheckAfter = 2
    IntMax = 3
    SignCanFail = TRUE
    InsertCanFail = TRUE
    MaxRows = 2
    MaxPairs = 3
SYMMETRY Symmetry
INVARIANTS
    ChainUnbroken
    EachRowOnce
    SignatureMatchesRow
CHECK_DEADLOCK FALSE
