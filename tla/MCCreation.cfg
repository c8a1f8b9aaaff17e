SPECIFICATION CreationSpec
CONSTANTS
    Threads = {t1, t2}
    Claims <- MCClaims
    Paths <- MCPaths
    InMemory <- MCInMemory
    Files <- MCFiles
    Normal <- MCNormal
    SinkPaths <- MCSinkPaths
    NoPath = NoPath
INVARIANTS
    OneUserPerFile
    NothingLeftBehind
    CreationInv
