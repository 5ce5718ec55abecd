SPECIFICATION Spec
CONSTANTS
    p1 = p1
    p2 = p2
    t1 = t1
    t2 = t2
    a1 = a1
    strategy = strategy
    user = user
    nobody = nobody
    NoOwner = NoOwner
    Accounts <- OneAccount
    AccountOf <- SameAccount
    Books <- AllBooks
    StrategyBooks = {strategy}
    NullBook = nobody
    Orders = {1, 2}
    Quantity <- QtyTwoOne
    MaxHandles = 2
    MaxFills = 2
    MaxFaults = 1
    Pods <- OnePod
    BatchSize = 2
    Incomplete = {}
    RedisEnabled = FALSE
    TtlOutlivesHolder = TRUE
    Trackers <- OneTracker
    MaxAttempts = 1
    Side <- BuyThenSell
    BookOf <- NobodyThenUser
    Cancellable = {}
    MalformedFrames = {FALSE}
INVARIANTS
    BooksMatchFills
