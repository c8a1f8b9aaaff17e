SPECIFICATION FairSpec
CONSTANTS
    Callers = {c1}
    QueueCap = 2
    BatchSize = 1
    MaxRetainedPasses = 1
    MaxOrdinal = 2
    MaxTokens = 2
PROPERTIES
    TokensAnswered
    StopLeadsToExit
