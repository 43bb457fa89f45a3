CONSTANTS
    Count = 4
    Sizes = {1}
SPECIFICATION Spec
INVARIANT NeverOverwritesLive
CHECK_DEADLOCK FALSE
