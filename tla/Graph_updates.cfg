SPECIFICATION Spec
CONSTANTS
    t1 = t1
    t2 = t2
    t3 = t3
    Vertices = {1, 2, 3}
    EdgeIds = {7}
    Edges <- MCEdges
    EdgeBatches <- MCSingles
    VertexBatches = {{2}}
    Removable = {2}
    Threads = {t1, t2, t3}
    HeadThreads = {t3}
    HeadAlone = TRUE
    MaxCalls = 4
    Missing = Missing
    Blank = Blank
    Unread = Unread
SYMMETRY MCSymmetry
CHECK_DEADLOCK FALSE
INVARIANT Symmetric
INVARIANT FindsEachEdgeOnce
PROPERTY ChangesAsAsked
