SPECIFICATION ConnectionSpec
CONSTANTS
    Sessions = {r1, r2}
    FirstWindow = 1
    EarlyChunks = 2
    MaxTimeouts = 1
    Addresses = {"a6", "b6", "a4", "p4", "r4"}
    V6 = {"a6", "b6"}
    Direct = {"a6", "b6", "a4"}
    Proxied = {"p4"}
    MaxResolved = 3
    RelayWindow = 1
    ClientChunks = 2
    ServerChunks = 1
    Resetting = {"client"}
    Stalling = {"server"}
    Askers = {a1, a2, a3}
    Upstreams = 2
    Nobody = Nobody
INVARIANTS
    EntryIsCurrent
    CleanEndIsComplete
    LookupsShared
PROPERTIES
    SessionsSettle
    ConnectionsAccounted
    RequestAnswered
    RelaysFinish
    AbortIsHeard
    AskersAnswered
CHECK_DEADLOCK FALSE
