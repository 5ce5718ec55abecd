SPECIFICATION PipelineSpec
CONSTANTS
    MaxTicks = 5
    MinuteOf <- MCMinuteOf
    BadTicks = {4}
    OffSession = {3}
    JobAttempts = 2
    MaxJobs = 1
    MaxFeedFaults = 2
    Writers = {w1, w2}
    ArchivePods = {w1}
    NDates = 3
    TradingDates = {1, 3}
    Minutes = {1}
    Derived = {"1h"}
    MaxRuns = 2
    MaxArchiveFaults = 1
    MaxSideJobs = 1
    TaskMaxAttempts = 2
    LocksOutliveHolders = TRUE
    NoWriter = NoWriter
    Notifiers = {n1, n2}
    MaxEntries = 3
    BatchSize = 2
    MilliOf <- MCMilliOf
    Malformed = {3}
    MaxIngestFaults = 2
    Dispatchers = {n1, n2}
    Notices = {r1}
    OutboxBatch = 1
    OutboxMaxAttempts = 3
    MaxNoticeFaults = 1
    Signals = {s1, s2}
    MaxDeliveries = 2
    MaxSignalFaults = 1
    Calculators = {c1}
    MaxCandles = 5
    CandleSymbol <- MCCandleSymbol
    Window = 2
    CandleBatch = 2
    MaxCalcFaults = 2
    DedupIntervals = 2
    MaxIntervals = 3
    MaxAlertFaults = 1
    CalendarPods = {w1, w2}
    TradeDates = {1, 2}
    DayKinds = {"closed", "full"}
    CalendarFiles <- MCCalendarFiles
    Overrides <- MCOverrides
    HintSlots = {"hint"}
    MaxCalendarWrites = 2
    MaxCalendarFaults = 1
    MasterPods = {w1, w2}
    Stocks = {1, 2}
    MarketCodes = {"KOSPI", "KOSDAQ"}
    MarketCode <- MCMarketCode
    RequiredMarkets = {"KOSPI", "KOSDAQ"}
    MaxStockRuns = 2
    MaxStockChanges = 1
    MaxStockFaults = 1
INVARIANTS
    PipelineTypeOK  ReadyIsComplete  
    PlacementsTrue  
PROPERTIES  NoticesSettle
CHECK_DEADLOCK FALSE
