SPECIFICATION Spec
CONSTANTS
    Callers = {c1, c2}
    QueueCap = 2
    BatchSize = 2
    MaxRetainedPasses = 1
    MaxOrdinal = 2
    MaxTokens = 2
SYMMETRY CallerSymmetry
INVARIANTS
    FlushOkMeansSettled
    OwnResultOnly
    StoppedMeansExited
    LifecycleInv
