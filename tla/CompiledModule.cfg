CONSTANTS
    g1 = g1
    g2 = g2
    f2 = f2
    s1 = s1
    None = None
    Forwards = {f1, f2}
    Readers = {s1}
    Replanner = replanner
    Closer = closer
    Canceller = canceller
    Gens = {g1, g2}
    Initial = g1
    Resources = {"host", "device"}
    Need <- NeedDef
    Budget <- BudgetDef
    HasDirect = {g1}
    Hoists = {g2}
    OwnToken = {f1}
    MaxCancels = 1
    Absentees <- AbsenteesDef
    Callers = {x1, x2}
    Workers = {"d1", "d2"}
    MaxRestarts = 1
    MaxPending = 1
    MaxCrashes = 2
    MaxSubmits = 1
SPECIFICATION MCSpec
PROPERTIES CallsReturn  SubmittedReturns
INVARIANT GenerationsExact
CHECK_DEADLOCK FALSE
