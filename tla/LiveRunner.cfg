CONSTANTS
    Orders = {o1}
    NoOrder = NoOrder
    Threads = {t1}
    InitQty = 1
    MaxQty = 1
    ReplaceWired = TRUE
    MaxCrashes = 1
    KillErrors = 1
    Callers = {u1, u2}
SPECIFICATION LiveSpec
SYMMETRY OrderSymmetry
INVARIANTS
    
    KilledIsDown
