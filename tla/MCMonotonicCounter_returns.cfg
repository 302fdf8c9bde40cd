SPECIFICATION FairSpec
CONSTANTS
    c1 = c1
    c2 = c2
    t1 = t1
    t2 = t2
    t3 = t3
    Clients = {c1}
    Threads = {t1, t2}
    Owner <- OneOwner
    NumServers = 1
    MaxFds = 2
    EnclaveUp = TRUE
    Exits = FALSE
    MaxInserts = 2
INVARIANTS
    RoundsAnswered
PROPERTIES
    InsertsReturn
CHECK_DEADLOCK FALSE
