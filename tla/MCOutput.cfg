SPECIFICATION Spec
CONSTANTS
    Texts <- MCTexts
    Streamed <- MCStreamed
    MaxAgain = 1
INVARIANTS
    Estimated
    Stands
    Delivered
