SPECIFICATION SafeSpec
CONSTANTS
    Keys = {"k", "j"}
    CreateId = "k"
    Texts = {"J", "x"}
    Classes = {"J"}
    Creatable = {"J"}
    Settings <- MCSettings
    Files = TRUE
    InitCap = 2
    InitCols = 2
    MaxDepth = 2
    MaxValues = 3
    LimitSets <- MCLimits
    Qnil = 5
CONSTRAINT Bounded
INVARIANTS
    SafeTypeOK
    BuildsDocuments
    
    RefusesOnlyOver
