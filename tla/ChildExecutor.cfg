SPECIFICATION FairSpec
CONSTANTS
    MaxSends = 1
    MaxSlices = 2
    Target = 3
    MaxReplaces = 2
    MinChildQty = 1
    MaxFaults = 1
INVARIANTS
    ExecutorTypeOK
    OneOpenPerSlice
    PlannedWithinTotal
    CompleteIsOver
PROPERTY
    Settles
CHECK_DEADLOCK FALSE
