CONSTANTS
    None = None
    Models = {m1}
    Gens = {g1, g2}
    Requests = {r1, r2}
    Unloaders = {u1, u2}
    MaxLimit = 2
    Misuse = {"twice", "by_id"}
    k1 = k1
    k2 = k2
SPECIFICATION MCSpec
INVARIANTS ClosedOnce RetiredIsAccountedFor NoPhantomLease
SYMMETRY Symmetry
CHECK_DEADLOCK FALSE
