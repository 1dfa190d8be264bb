SPECIFICATION Spec
CONSTANTS
    Alphabet <- MCAlphabet
    Entries = {"parse", "load", "file"}
    AfterNumber = FALSE
    JustOnes = {TRUE, FALSE}
    MaxDepth = 2
INVARIANTS
    FaithfulEvents
    ReturnsWhole
PROPERTIES
    RejectsOnlyInvalid
    OnlyKnownSlack
    KeepsProtocol
