SPECIFICATION Spec
CONSTANTS
    Bytes <- AllBytes
    BigLimit = 500
    FracLimit = 100
    MaxExp = 49
    ExpMod = 512
    ShiftMod = 4
    MaxLen = 8
    Leftovers <- NoOrOldText
CHECK_DEADLOCK FALSE
INVARIANTS
    ValueKept
