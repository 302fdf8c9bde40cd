SPECIFICATION Spec
CONSTANTS
    Threads = {t1, t2, t3}
    Keys = {k1, k2}
    None = None
    Sgx = FALSE
    Overlap = FALSE
    Interim = FALSE
    MaxConns = 2
    MaxExchanges = 4
    MaxChunks = 1
SYMMETRY Symmetry
INVARIANTS
    ClosedIsLogged
    LogLagsByOne
    
CHECK_DEADLOCK FALSE
