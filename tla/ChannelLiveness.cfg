SPECIFICATION ReadingSpec
CONSTANTS
    MinWindow = 4
    MaxIndex = 1
    InitialIndex = 0
    GrowHits = 2
    ShrinkHits = 1
    MaxPayload = 4
    WriteSizes = {2, 4}
    Responses = 1
    MaxBytes = 9
    PathCap = 1
    Environment = {"budgetDenied", "abort"}
PROPERTIES
    KeepsAccount
    StreamCompletes
    AbortReleasesChannel
CHECK_DEADLOCK FALSE
