SPECIFICATION SinkSpec
CONSTANTS
    BatchSize = 2
    MaxEvent = 3
    MaxSetbacks = 3
    kBlock = 3
INVARIANTS
    LinesWellFormed
    OkSurvives
    RolledBackExactly
    OutputOrdered
    TailScanExact
    SinkInv
