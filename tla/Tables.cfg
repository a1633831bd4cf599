SPECIFICATION TablesSpec
CONSTANTS
    Deciders = {d1, d2}
    CacheSize = 2
    MaxRefreshes = 2
    Scopes = {"s1", "s2"}
    Remotes = {"r1", "r2"}
    IDs = {1, 2}
    Flags = {"rd", "cd"}
    MaxTracked = 2
    Lookups = {"l1", "l2"}
    Names = {"n1", "n2"}
    IDSpace = 5
    MaxMade = 3
    RevMuxes = {m1, m2}
    Preferred = {m1}
    Forwarders = {f1, f2}
    MaxAllocs = 1
    RegisterFaults = TRUE
    FragTargets = {"t", "u"}
    Heavy = {"u"}
    MaxFrag = 3
    MaxQueued = 4
    Lifetime = 1
    MaxPushes = 4
    MinBeat = 1
    MaxBeat = 2
    SocketIdle = 3
    NoData = 5
    MaxData = 2
    Horizon = 8
    MaxIndex = 2
    InitialIndex = 1
    Window <- MCWindow
    MaxResponses = 1
    MaxDebt = 3
    Labels = {1, 2}
    MaxDepth = 2
    MaxDomainPort = 1
    Bits = 2
    MaxPort = 2
    MaxRules = 3
SYMMETRY ForwarderSymmetry
INVARIANTS
    RefreshedListsDecide
    ResponsesMatchQueries
    NamesAndAddressesAgree
    RoutesAreCurrent
    ReverseChannelsKept
    DatagramsExact
    MatchesWhatRulesSay
    DroppedWhenIdle
    NeverStarved
CHECK_DEADLOCK FALSE
