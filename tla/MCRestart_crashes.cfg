SPECIFICATION Spec
CONSTANTS
    Script <- GitScript
    thetables <- GitTables
    Refs = {a, b}
    MaxRuns = 3
    MaxPairs = 2
SYMMETRY Symmetry
INVARIANTS
    HashColumnsComplete
    
    RefusalsAreOfEarlierRuns
    HashesIdentifyRows
CHECK_DEADLOCK FALSE
