SPECIFICATION MCSpec
CONSTANTS
    t1 = t1
    t2 = t2
    t3 = t3
    a = a
    b = b
    Threads <- MCTwoThreads
    Keys = {1, 2}
    Values <- MCOneValue
    Missing = Missing
    NullRange = NullRange
    Untouched = Untouched
    Starts = {1}
    Limits = {1, 2}
    DontWatch = {FALSE}
    WriteBatches <- MCSingletons
    ReadBatches <- MCWhole
    MaxGeneration = 3
    MaxAccesses = 2
    StageSeesStaged = TRUE
SYMMETRY MCSymmetry
CHECK_DEADLOCK FALSE
INVARIANTS
    Serializable
    ReplayMatches
    ScanWithinLimit
    
