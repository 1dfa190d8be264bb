SPECIFICATION Spec
CONSTANTS
    MaxDepth = 4
    StackSize = 16
    BufferExtra = 16
    LenOf <- MCLenOf
    Colons = {":a"}
    Hats = {"^ra"}
    OddArity <- MCOddArity
    Codes <- MCCodes
    MemberNames <- MCMemberNames
    Graphs <- MCGraphs
    Settings <- MCSettings
INVARIANTS
    
    WritesDocument
    RefusesDeep
    
CHECK_DEADLOCK FALSE
