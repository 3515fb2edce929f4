SPECIFICATION Spec
CONSTANTS
    Calls <- ApiCalls
    Payloads <- CallPayloads
    Clients = {1}
    RpcKeys = {1, 2}
    MaxId = 1
    MaxCalls = 4
CHECK_DEADLOCK FALSE
INVARIANTS
    NetworkSound
PROPERTIES
    WholeCommits
    ReadsOwnWrites
    AllSettles
