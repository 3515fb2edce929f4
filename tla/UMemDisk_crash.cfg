SPECIFICATION Spec
CONSTANTS
    t1 = t1
    t2 = t2
    a = a
    h1 = h1
    h2 = h2
    Threads <- MCOneThread
    Names = {1}
    Handles <- MCHandles
    Keys = {1}
    Values <- MCOneValue
    Missing = Missing
    NullRange = NullRange
    Empty = Empty
    HeadValues = {}
    DropModes = {}
    MaxCrashes = 2
    MaxCommits = 2
CHECK_DEADLOCK FALSE
INVARIANT FlushedSurvives
