CONSTANTS
    Forwards = {f1, f2}
    Tokens = {f1}
    Disturbances <- OneUpdate
    HasDirect = TRUE
    None = None
SPECIFICATION OOMSpec
PROPERTY ForwardsReturn
CHECK_DEADLOCK FALSE
