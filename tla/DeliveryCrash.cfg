SPECIFICATION QuietSpec
CONSTANTS
    Producers = {}
    MaxPending = 2
    QueueCap = 2
    MaxRecovered = 0
    MaxOrdinal = 3
    MaxGeneration = 1
    BatchSize = 2
    MaxFaults = 1
    MaxCrashes = 1
    GrantsBelow = 2
INVARIANTS
    DeliveryInv
    OrderedDelivery
    CapacityNeverUndercounted
