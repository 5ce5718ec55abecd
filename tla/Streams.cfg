SPECIFICATION StreamsSpec
CONSTANTS
    Collectors = {0, 1}
    DemandSymbols = {0}
    Score <- MCScore
    RefreshSlots = {1, 2}
    MaxDemandChanges = 2
    MaxUniverseFaults = 1
    Credentials = {1, 2}
    SymbolCount = 2
    ChartSymbols = {2}
    IndexSymbols = {1}
    WsMaxSymbols <- MCWsMaxSymbols
    FanScore <- MCScore
    CallSlots = {1, 2}
    MaxFanChanges = 1
    MaxFanFaults = 1
    StreamSymbols = {s1, s2}
    MaxLoginFailures = 3
    MaxStreamFaults = 5
    WireFrames <- MCWireFrames
    MaxLetterFaults = 1
    SnapshotPods = {w1, w2}
    Markets = {"kospi", "kosdaq"}
    IndexKeys = {"kospi"}
    MergeSlots = {1}
    MaxSnapshots = 3
    MaxSnapshotFaults = 1
INVARIANTS
    StreamsTypeOK 
PROPERTIES SnapshotsKept 
CHECK_DEADLOCK FALSE
