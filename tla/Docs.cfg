SPECIFICATION Spec
CONSTANTS
    Clients = {c1, c2}
    Keys = {1, 2}
    Writes <- MCWrites
    Reads <- MCReads
    Parse <- AnyParse
    Modify <- ModifyDoc
    FieldOf <- Lookup
    Edits <- MCEdits
    Trees <- MCTrees
    PathLimit = 4
    MaxVersion = 2
    MaxCalls = 4
    MaxEdits = 2
SYMMETRY Symmetry
CHECK_DEADLOCK FALSE
INVARIANTS
    ReadsRight
    EditsAsAsked
    
PROPERTIES
    RewritesFresh
    BatchesWhole
