SPECIFICATION Spec
CONSTANTS
    c1 = c1
    c2 = c2
    t1 = t1
    t2 = t2
    t3 = t3
    Clients = {c1, c2}
    Threads = {t1, t3}
    Owner <- TwoOwners
    NumServers = 2
    MaxFds = 1
    EnclaveUp = TRUE
    Exits = TRUE
    MaxInserts = 2
INVARIANTS
    TypeOK
    MessagesDecrypt
    
CHECK_DEADLOCK FALSE
