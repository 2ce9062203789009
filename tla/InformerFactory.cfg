SPECIFICATION FactorySpec
CONSTANTS
    Type = {t1, t2}
    Ctx = {c1, c2}
    Caller = {p1, p2}
INVARIANTS
    NobodyBlocksForNothing
    NothingOutlivesShutdown
    FailureHasCause
PROPERTIES
    ShutdownReturns
    WaitReturns
