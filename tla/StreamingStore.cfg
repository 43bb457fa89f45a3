CONSTANTS
    k1 = k1
    k2 = k2
    t1 = t1
    t2 = t2
    NoKey = NoKey
    Keys = {k1, k2}
    AcquireKeys = {k1}
    Size <- UnitSize
    Capacity = 1
    Callers = {t1, t2}
    WorkerCount = 1
    QueueLimit = 1
    Faulty = {k2}
    SpawnMayFail = FALSE
    MayPanic = FALSE
    MayClose = TRUE
    MaxAcquires = 1
    MaxPrefetches = 1
    a = a
    b = b
    Forwards = {f1, f2, f3}
    None = None
SPECIFICATION MCSpec
INVARIANTS ReadsAndLeasesExact LedgerWithinBudget
PROPERTIES AcquireReturns CloseReturns ParameterAcquireReturns
CHECK_DEADLOCK FALSE
