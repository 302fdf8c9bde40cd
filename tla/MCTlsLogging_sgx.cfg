SPECIFICATION FairSpec
CONSTANTS
    Threads = {t1, t2}
    Keys = {k1}
    None = None
    Sgx = TRUE
    Overlap = TRUE
    Interim = TRUE
    MaxConns = 1
    MaxExchanges = 3
    MaxChunks = 2
INVARIANTS
    
    ExchangesLoggedWhole

    
    
CHECK_DEADLOCK FALSE
