SPECIFICATION Spec
CONSTANTS
    SmallSize = 2
    CbmemSize = 5
    MaxBytes = 7
    MaxResets = 2
INVARIANTS
    TypeOK
    LogKept
CHECK_DEADLOCK FALSE
