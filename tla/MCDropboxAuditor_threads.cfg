SPECIFICATION Spec
CONSTANTS
    Threads = {t1, t2}
    Hosts = {h1, h2}
    Paths = {p, q}
    Blocks = {b}
    Deleted = Deleted
    OneConnection = TRUE
    Restores = TRUE
    TooLong = TRUE
    MaxExchanges = 3
SYMMETRY Symmetry
INVARIANTS
    LaterPairsLaterTimes
    RowsAreStored
    HonestListsPass
    OmissionsCaught
CHECK_DEADLOCK FALSE
