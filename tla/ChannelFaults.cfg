SPECIFICATION Spec
CONSTANTS
    MinWindow = 16
    MaxIndex = 1
    InitialIndex = 1
    GrowHits = 2
    ShrinkHits = 1
    MaxPayload = 8
    WriteSizes = {3, 14}
    Responses = 0
    MaxBytes = 17
    PathCap = 1
    Environment = {"queueFull", "budgetDenied", "abort"}
INVARIANTS
    EOFAfterAllData
PROPERTIES
    KeepsAccount
CHECK_DEADLOCK FALSE
