CONSTANTS
    Calls = {c1, c2, c3}
    Sessions = {s1, s2}
    Handles = {h1, h2, h3}
    Null = Null
    NoSession = NoSession
    Capacity = 2
    Timeout = 3
    Word = 16
    MaxAge = 1
    MaxFree = 3
    SerialClients = TRUE
    InitMayFail = TRUE
SYMMETRY MCSymmetry
SPECIFICATION Spec
INVARIANTS
    HandlesExclusive
PROPERTIES
    EvictionOnlyUnderPressure
    NoHandleLost
