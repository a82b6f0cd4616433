CONSTANTS
    Orders = {o1}
    NoOrder = NoOrder
    Threads = {t1, t2}
    InitQty = 2
    MaxQty = 2
    ReplaceWired = TRUE
    MaxCrashes = 0
SPECIFICATION FairFillSpec
PROPERTIES
    FillsArrive
