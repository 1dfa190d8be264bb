SPECIFICATION Spec
CONSTANTS
    Names <- MCNames
    Numbers <- MCNumbers
    CharsOf <- MCCharsOf
    Texts <- MCTexts
    Documents <- MCDocuments
    Paths <- MCPaths
    MaxStack = 4
    MaxFrames = 2
INVARIANTS
    KeepsValue
    KeepsPlace
    FetchLikeMove
PROPERTIES
    ChildReturns
