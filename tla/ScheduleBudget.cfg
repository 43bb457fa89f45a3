CONSTANTS
    h = h
    g = g
    k = k
    Host <- MCHost
    Devices <- MCDevices
    Size <- MCSize
    Programs <- Spilling
SPECIFICATION Spec
INVARIANT BudgetKept
