SPECIFICATION MCSpec
CONSTANTS
    t1 = t1
    t2 = t2
    main = main
    other = other
    third = third
    n = n
    m = m
    k = k
    l = l
    a = a
    s1 = s1
    Threads <- MCThreads
    Families <- MCFamilies
    Keys <- MCKeys
    Values <- MCValues
    EmptyValue = EmptyValue
    Main = main
    Names <- MCNames
    Cells <- MCCells
    Snapshots <- MCSnapshots
    Missing = Missing
    Unchanged = Unchanged
    None = None
    Batches <- MCBatches
    ReadSets <- MCReadSets
    MaxSequence = 2
    MaxReads = 1
    MaxWrites = 1
SYMMETRY MCSymmetry
CHECK_DEADLOCK FALSE
INVARIANTS
    ReportedInOrder
    SnapshotReadsFrozen
    
PROPERTIES
    ImplementsStore
    DropEmpties
