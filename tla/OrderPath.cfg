CONSTANTS
    Orders = {o1}
    NoOrder = NoOrder
    Threads = {t1, t2}
    InitQty = 2
    MaxQty = 2
    ReplaceWired = TRUE
    MaxCrashes = 1
SPECIFICATION FillSpec
SYMMETRY ThreadSymmetry
INVARIANTS
    FillTypeOK
    AtMostOneSubmission
    WriteAhead
    NoFalseCancel
    NeverOverCounts
    ClosedIsReal
    FilledIsReal
    BookedOnce
PROPERTIES
    FilledIsFinal
    RefinesSubmitOnce
