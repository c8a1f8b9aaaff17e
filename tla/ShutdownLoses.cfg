SPECIFICATION Spec
CONSTANTS
    Callers = {c1}
    QueueCap = 2
    BatchSize = 1
    MaxRetainedPasses = 1
    MaxOrdinal = 1
    MaxTokens = 2
INVARIANTS
    ShutdownKeepsAccepted
