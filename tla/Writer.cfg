SPECIFICATION Spec
CONSTANTS
    Streams = {TRUE, FALSE}
    FlushLimit = 2
    InitTypes = 1
    MaxDepth = 3
    MaxTokens = 12
    MaxBelow = 1
INVARIANTS
    
    PopAllCompletes
    Delivered
