SPECIFICATION DeliverySpec
CONSTANTS
    Producers = {p1}
    MaxPending = 1
    QueueCap = 2
    MaxRecovered = 0
    MaxOrdinal = 3
    MaxGeneration = 1
    BatchSize = 2
    MaxFaults = 0
    MaxCrashes = 0
    GrantsBelow = 2
INVARIANTS
    DurableStoreBounded
