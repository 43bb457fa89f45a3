CONSTANTS
    Instr = {1, 2, 3, 4}
    compute = compute
    copy = copy
    lifetime = lifetime
    sync = sync
    Keys = {compute, copy, lifetime, sync}
    None = None
    Plans <- MCPlans
    Modes <- BothModes
    MaxInflight = 4
    MinChannel = 4
    PoolWorkers <- Workers2
    StallLimit = 1
    MayPanic = TRUE
    MayCancel = TRUE
    Forwards = {f1, f2}
    Tokens = {f1}
SPECIFICATION MCSpec
INVARIANTS DependenciesFirst LaunchesExact 
 
