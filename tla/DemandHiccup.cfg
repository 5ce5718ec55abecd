SPECIFICATION StreamsSpec
CONSTANTS
    Collectors = {0}
    DemandSymbols = {0, 1}
    Score <- MCScore
    RefreshSlots = {1}
    MaxDemandChanges = 0
    MaxUniverseFaults = 1
    Credentials = {1, 2}
    SymbolCount = 2
    ChartSymbols = {2}
    IndexSymbols = {1}
    WsMaxSymbols <- MCWsMaxSymbols
    FanScore <- MCScore
    CallSlots = {1, 2}
    MaxFanChanges = 0
    MaxFanFaults = 0
    StreamSymbols = {s1, s2}
    MaxLoginFailures = 3
    MaxStreamFaults = 0
    WireFrames <- MCWireFrames
    MaxLetterFaults = 1
    SnapshotPods = {w1, w2}
    Markets = {"kospi", "kosdaq"}
    IndexKeys = {"kospi"}
    MergeSlots = {1}
    MaxSnapshots = 3
    MaxSnapshotFaults = 1
PROPERTIES HiccupKeepsSubscriptions
CHECK_DEADLOCK FALSE
