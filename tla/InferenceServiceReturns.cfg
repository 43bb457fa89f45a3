CONSTANTS
    None = None
    Models = {m1}
    Gens = {g1}
    Requests = {c1, c2}
    Unloaders = {u1}
    MaxLimit = 2
    Misuse = {}
    Rids = {r1}
    MaxQueue = 2
    PoolThreads = 1
    MaxStarts = 1
SPECIFICATION ServiceSpec
PROPERTIES ServiceReturns RetiredCloses
CHECK_DEADLOCK FALSE
