SPECIFICATION FairOutboxSpec
CONSTANTS
    p1 = p1
    f1 = f1
    p2 = p2
    Pods <- OnePod
    Fills <- OneFill
    MaxFaults = 0
    MaxSends = 3
PROPERTIES
    StreamIsIndependent
