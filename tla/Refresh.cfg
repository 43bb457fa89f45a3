CONSTANTS
    Writers = {w1, w2}
    Loaders = {r1}
    Streaming = {w1, w2}
    Shared = FALSE
    MaxSaves = 1
    None = None
SPECIFICATION RefreshSpec
INVARIANT RefreshedVerifies
CHECK_DEADLOCK FALSE
