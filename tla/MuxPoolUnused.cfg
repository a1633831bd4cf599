SPECIFICATION Spec
CONSTANTS
    Requests = {r1, r2, r3}
    Servers = {s1}
    Muxes = {m1, m2, m3}
    MaxAllocations = 2
    MaxActive = 2
    BatchSize = 2
    None = None
    Environment = {}
PROPERTIES
    UnusedHasNoChannels
CHECK_DEADLOCK FALSE
