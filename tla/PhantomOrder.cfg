SPECIFICATION Spec
CONSTANTS
    p1 = p1
    p2 = p2
    t1 = t1
    t2 = t2
    a1 = a1
    strategy = strategy
    user = user
    nobody = nobody
    NoOwner = NoOwner
    Accounts <- OneAccount
    AccountOf <- SameAccount
    Books <- AllBooks
    StrategyBooks = {strategy}
    NullBook = nobody
    Orders = {1, 2}
    Quantity <- QtyTwo
    MaxHandles = 2
    MaxFills = 0
    MaxFaults = 0
    Pods <- TwoPods
    BatchSize = 2
    Incomplete = {}
    RedisEnabled = TRUE
    TtlOutlivesHolder = TRUE
    Trackers <- OneTracker
    MaxAttempts = 2
    Side <- AllBuy
    BookOf <- ByStrategy
    Cancellable = {1}
    MalformedFrames = {FALSE}
INVARIANTS
    NoPhantomOrder
