CONSTANTS
    Calls = {c1, c2}
    Sessions = {s1, s2}
    Handles = {h1, h2}
    Null = Null
    NoSession = NoSession
    Capacity = 2
    Timeout = 3
    Word = 16
    MaxAge = 1
    MaxFree = 2
    SerialClients = FALSE
    InitMayFail = FALSE
SPECIFICATION Spec
INVARIANT HandlesExclusive
