SPECIFICATION BrokerageSpec
CONSTANTS
    Trackers = {p1, p2}
    Clients = {c1, c2}
    NoClient = NoClient
    NoPod = NoPod
    Gone = Gone
    MaxSocketFaults = 2
    HeldSymbols = {h1}
    SyncSlots = {1, 2}
    UnknownStocks = {}
    MaxTrades = 3
    MaxSyncFaults = 1
    Requests = {1, 2}
    RestPods = {1, 2}
    CollectorCreds = {11, 12}
    AccountCreds = {21}
    ProcessCap = 2
    CredentialCap = 1
    MaxPerSecond = 1
    MaxRestAttempts = 3
    MaxRestFaults = 1
    Keys = {k1, k2}
    BadKeys = {k2}
    PoolPods = {1, 2}
    PoolCalls = {1, 3}
    CallPod <- MCCallPod
    Tokens = {1, 2}
    MaxPoolFaults = 2
INVARIANTS
    BrokerageTypeOK SocketsSafe  
PROPERTIES  BrokerageSettles
CHECK_DEADLOCK FALSE
