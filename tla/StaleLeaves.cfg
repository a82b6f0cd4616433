SPECIFICATION Spec
CONSTANTS
    MaxSends = 1
    MaxSlices = 2
    Target = 4
    MaxReplaces = 1
    MinChildQty = 1
    MaxFaults = 0
INVARIANT NeverOverfilled
CHECK_DEADLOCK FALSE
