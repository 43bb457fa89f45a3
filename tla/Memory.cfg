CONSTANTS
    p1 = p1
    p2 = p2
    n1 = n1
    n2 = n2
    gpu = gpu
    gpu2 = gpu2
    cpu = cpu
    localhost = localhost
    numa1 = numa1
    staging = staging
    disk = disk
    k1 = k1
    k2 = k2
    k3 = k3
    None = None
    NoHandle = NoHandle
    Tensors = {t1}
    Resources = {cpu, gpu}
    Allocs = {n1, n2}
    Threads = {p1, p2}
    Capacities = {1, 2}
    Limit <- LimitDef
    MaxVersion = 2
    MaxLeases = 1
SPECIFICATION MCSpec
SYMMETRY Symmetry
INVARIANTS RefCountsExact ValidCopiesCurrent OneAuthoritative CapacityRespected CountersExact  RecencyQueueExact MirrorAgrees 
PROPERTIES  ImplementsLeaseCache
