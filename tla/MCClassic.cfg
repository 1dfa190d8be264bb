SPECIFICATION Spec
CONSTANTS
    StackInc = 1
    KeyWidth = 3
    KArray = 2
    Configs <- AllConfigs
    Strings <- MCStrings
    TextOf <- MCTextOf
    Escaped <- MCEscaped
    CreateId <- MCCreateId
    MaxTokens = 6
    MaxOdd = 1
INVARIANTS
    
    
    StackProtects
