SPECIFICATION Spec
CONSTANTS
    Threads = {t1, t2}
    Members = {m1, m2, m3}
    e1 = e1
    e2 = e2
    m1 = m1
    m2 = m2
    a = a
    b = b
    Sessions = {e1, e2}
    SessionsOf <- TwoDocuments
    Central = Central
    Ops = {a, b}
    Recorded = {a, b}
    Quoted = {}
    Alike = {}
    MaxOps = 1
    MaxLies = 1
    MaxExchanges = 4
SYMMETRY Symmetry
INVARIANTS RowsAreStored DivergenceCaught LastUpdatePasses
CHECK_DEADLOCK FALSE
