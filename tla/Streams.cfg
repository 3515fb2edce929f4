SPECIFICATION Spec
CONSTANTS
    Unknown = 3
    Aheads = {1, 2}
    Starts = {0, 1, 3}
    Bounds = {1, 2, 3}
    MaxWrites = 2
    MaxFailures = 1
CHECK_DEADLOCK FALSE
INVARIANTS
    VisitsEachOnce
    OverrunsExplained
    PairsHeld
PROPERTIES
    LoopEnds
