SPECIFICATION ClientSpec
CONSTANTS
    Requests = {r1, r2}
    Servers = {s1, s2}
    Muxes = {m1, m2}
    MaxAllocations = 2
    MaxActive = 2
    BatchSize = 2
    None = None
    Environment = {"muxCloses", "dialFails", "idle"}
    UdpWindow = 1
    AppPackets = 3
    TargetPackets = 2
PROPERTIES
    RequestsAnswered
    UdpEndsTogether
CHECK_DEADLOCK FALSE
