CONSTANTS
    h = h
    g = g
    k = k
    p1 = p1
    p2 = p2
    la = la
    lb = lb
    NoLayer = NoLayer
    Unbounded = Unbounded
    None = None
    w1 = w1
    w2 = w2
    b1 = b1
    b2 = b2
    b3 = b3
    s1 = s1
    s2 = s2
    r1 = r1
    Host <- MCHost
    Devices <- MCDevices
    Size <- MCSize
    Programs <- MCPrograms
SPECIFICATION MCSpec
INVARIANTS    CompileSound SelectionSound 
