\* Two muxes share a budget that only one channel's growth fits in.
SPECIFICATION FairSpec
CONSTANTS
    Muxes = {m1, m2}
    Requesting = {m1}
    MaxAllocations = 2
    MaxActive = 1
    MinWindow = 1
    MaxIndex = 1
    InitialIndex = 0
    InitialWindow = 1
    MaxDebt = 1
    Limit = 1
INVARIANTS
    MemoryBounded
    ChargesExact
PROPERTIES
    CloseCompletes
CHECK_DEADLOCK FALSE
