SPECIFICATION Spec
CONSTANTS
    p1 = p1
    p2 = p2
    t1 = t1
    t2 = t2
    a1 = a1
    strategy = strategy
    user = user
    nobody = nobody
    NoOwner = NoOwner
    Accounts <- OneAccount
    AccountOf <- SameAccount
    Books <- AllBooks
    StrategyBooks = {strategy}
    NullBook = nobody
    Orders = {1}
    Quantity <- QtyTwo
    MaxHandles = 1
    MaxFills = 2
    MaxFaults = 1
    Pods <- OnePod
    BatchSize = 1
    Incomplete = {}
    RedisEnabled = TRUE
    TtlOutlivesHolder = TRUE
    Trackers <- TwoTrackers
    MaxAttempts = 2
    Side <- AllBuy
    BookOf <- ByStrategy
    Cancellable = {}
    MalformedFrames = {TRUE, FALSE}
INVARIANTS
    FilledIsSumOfFills
    DeliveredFillsKept
    ResolvedFillsRecorded
