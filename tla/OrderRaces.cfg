SPECIFICATION Spec
CONSTANTS
    p1 = p1
    p2 = p2
    t1 = t1
    t2 = t2
    a1 = a1
    strategy = strategy
    user = user
    nobody = nobody
    NoOwner = NoOwner
    Accounts <- OneAccount
    AccountOf <- SameAccount
    Books <- AllBooks
    StrategyBooks = {strategy}
    NullBook = nobody
    Orders = {1}
    Quantity <- QtyTwo
    MaxHandles = 2
    MaxFills = 1
    MaxFaults = 2
    Pods <- TwoPods
    BatchSize = 1
    Incomplete = {}
    RedisEnabled = TRUE
    TtlOutlivesHolder = FALSE
    Trackers <- OneTracker
    MaxAttempts = 2
    Side <- AllBuy
    BookOf <- ByStrategy
    Cancellable = {1}
    MalformedFrames = {FALSE}
INVARIANTS
    TypeOK
    AtMostOnePlacement
    BrokerOrdersKnown
    ClaimsHaveTasks
    EventsAreTrue
PROPERTIES
    TerminalIsFinal
    ImplementsContract
