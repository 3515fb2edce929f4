SPECIFICATION MCSpec
CONSTANTS
    t1 = t1
    t2 = t2
    a = a
    h1 = h1
    h2 = h2
    Threads <- MCTwoThreads
    Names = {1, 2}
    Handles <- MCHandles
    Keys = {1}
    Values <- MCOneValue
    Missing = Missing
    NullRange = NullRange
    Empty = Empty
    HeadValues <- MCDeletions
    DropModes = {"keys_vals_handle", "vals"}
    MaxCrashes = 1
    MaxCommits = 2
SYMMETRY MCSymmetry
CHECK_DEADLOCK FALSE
INVARIANT CollectionsSound
PROPERTY CloseKeepsPairs
INVARIANT FlushedOnDisk
