SPECIFICATION Spec
CONSTANTS
    Clients = {c1, c2}
    PathNames = {"a", "b", "c", "d"}
    Hash <- MCHash
    PathBytes = 3
    Paddings = {0, 15}
    Writes <- MCWrites
    Reads <- MCReads
    Patterns <- MCPatterns
    Limits = {1, 2}
    MaxVersion = 3
    MaxCalls = 3
    VectorWrites <- MCVectorWrites
    Searches <- MCSearches
    Junk <- MCJunk
    MaxVectorCalls = 3
    Kinds = {"sys", "shared"}
    HeaderSize = 2
    InitialSize = 8
    ElementSizes = {1, 2}
    MaxBlocks = 2
    MaxArrays = 2
    MaxLength = 2
    MaxDepth = 2
    MaxTape = 3
SYMMETRY Symmetry
CHECK_DEADLOCK FALSE
INVARIANTS
    PathsFound
    SearchesRight
    MemoryIntact
PROPERTIES
    BatchApplied
    CommitKeepsOthers
    PagesCover
