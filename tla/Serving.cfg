CONSTANTS
    None = None
    Models = {m1}
    Gens = {g1}
    Requests = {c1, c2}
    Unloaders = {u1}
    MaxLimit = 2
    Misuse = {}
    Rids = {r1, r2}
    MaxQueue = 2
    PoolThreads = 1
    MaxStarts = 2
    Connections = {h1, h2}
    Forwards = {f1, f2, f3}
SPECIFICATION MCSpec
SYMMETRY ServiceSymmetry
INVARIANTS ServiceExact NeverClosedInUse  
PROPERTIES KeepsManagerContract
CHECK_DEADLOCK FALSE
