SPECIFICATION Spec
CONSTANTS
    Threads = {t1}
    Repos = {"r1"}
    Branches = {"a", "b", HEAD}
    HEAD = HEAD
    Cids = {1, 2}
    Zero = 0
    NoRef = NoRef
    Ordered = TRUE
    Rejects = FALSE
    IdMax = 2147483647
    MaxExchanges = 3
SYMMETRY Symmetry
INVARIANTS
    TypeOK
    LatestPushKept
    RollbacksCaught
    NoFalseAlarm
    TrimmingPreservesVerdicts
CHECK_DEADLOCK FALSE
