SPECIFICATION Spec
CONSTANTS
    Producers = {p1, p2}
    MaxPending = 3
    QueueCap = 2
    MaxRecovered = 4
    MaxOrdinal = 5
    MaxGeneration = 1
SYMMETRY ProducerSymmetry
INVARIANTS
    SessionsGapFree
    ReplacementAtomic
    AdmissionInv
