SPECIFICATION ServiceSpec
CONSTANTS
    QueueCap = 2
    Fragments = 1
    MaxDrain = 1
    MaxForwards = 1
    MaxBeats = 1
    SessEvents = {"damage", "clock", "revoke"}
    MaxMuxes = 3
    HealthServers = {"s", "t"}
    Reasons = {"x", "y"}
    DedupWindow = 1
    DecayEvery = 2
    MaxErrors = 2
    Conns = {c1, c2}
    MaxTraffic = 2
    MaxEdits = 2
    MaxFaults = 1
    EditDuringFlush = FALSE
INVARIANTS
    InvalidHasCause
    ClassExplainsHealth
    TrafficConserved
PROPERTIES
    InvalidAcceptorCloses
    RetireAfterReplacement
    DisabledUserDropped
CHECK_DEADLOCK FALSE
