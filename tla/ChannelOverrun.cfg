SPECIFICATION Spec
CONSTANTS
    MinWindow = 4
    MaxIndex = 1
    InitialIndex = 0
    GrowHits = 2
    ShrinkHits = 4
    MaxPayload = 2
    WriteSizes = {1, 2}
    Responses = 2
    MaxBytes = 8
    PathCap = 2
    Environment = {"budgetDenied"}
INVARIANTS
    NoWindowOverrun
CHECK_DEADLOCK FALSE
