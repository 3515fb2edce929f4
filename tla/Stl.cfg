SPECIFICATION Spec
CONSTANTS
    t1 = t1
    t2 = t2
    v = v
    Threads <- MCThreads
    Collections <- MCCollections
    Names <- MCNames
    Places <- MCPlaces
    Values <- MCValues
    EmptyValue = EmptyValue
    Missing = Missing
    Unchanged = Unchanged
    Batches <- MCBatches
    MaxGenerations = 2
SYMMETRY MCSymmetry
INVARIANTS
    QueriesAgree
PROPERTIES
    CommitsFresh
    RestartKeeps
