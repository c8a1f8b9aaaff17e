SPECIFICATION FairDelivery
CONSTANTS
    Producers = {p1}
    MaxPending = 2
    QueueCap = 2
    MaxRecovered = 0
    MaxOrdinal = 3
    MaxGeneration = 1
    BatchSize = 2
    MaxFaults = 2
    MaxCrashes = 0
    GrantsBelow = 2
INVARIANTS
    PurgedNeverReturns
    MarkedRevocationEnforced
    NothingLost
    AtMostOneLateWrite
    NoPhantomCapacity
PROPERTIES
    ImplementsAdmission
    AcceptedEventuallySettled
    RevocationEventuallyPurges
