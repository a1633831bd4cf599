SPECIFICATION Spec
CONSTANTS
    MinWindow = 4
    MaxIndex = 0
    InitialIndex = 0
    GrowHits = 2
    ShrinkHits = 2
    MaxPayload = 4
    WriteSizes = {4}
    Responses = 0
    MaxBytes = 8
    PathCap = 2
    Environment = {"queueFull"}
INVARIANTS
    CreditIsReleased
CHECK_DEADLOCK FALSE
