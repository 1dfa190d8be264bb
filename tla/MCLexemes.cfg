SPECIFICATION Spec
CONSTANTS
    Base = 3
    Pad = 2
    Topics <- AllTopics
    DecMax = 0
    IntMax = 922
    ExpMax = 5
INVARIANTS
    Mirror
    
    Agree
