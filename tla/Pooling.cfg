SPECIFICATION PoolingSpec
CONSTANTS
    Requests = {r1, r2, r3}
    Servers = {s1}
    Muxes = {m1, m2, m3}
    MaxAllocations = 3
    MaxActive = 2
    BatchSize = 3
    None = None
    Environment = {"muxCloses", "retires", "dialFails", "unacked", "idle"}
    Keys = {k1, k2, k3}
    Values = {v1, v2}
    Absent = Absent
    TTL = 1
    MaxSize = 2
    MaxClock = 2
    MaxUses = 3
SYMMETRY Symmetry
INVARIANTS
    OneChannelEach
    NoMuxForgotten
    FailureHasCause
    LeastRecentGoes
PROPERTIES
    NoExpiredAnswer
    IsForgetfulMap
CHECK_DEADLOCK FALSE
