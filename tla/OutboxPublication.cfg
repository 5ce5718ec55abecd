SPECIFICATION HealthyOutboxSpec
CONSTANTS
    p1 = p1
    p2 = p2
    f1 = f1
    Pods <- TwoPods
    Fills <- OneFill
    MaxFaults = 1
    MaxSends = 3
INVARIANTS
    OutboxTypeOK
    MarkedWasSent
    ClaimsExclusive
PROPERTIES
    EveryFillIsPublished
