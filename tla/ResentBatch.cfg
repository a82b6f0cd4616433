SPECIFICATION Spec
CONSTANTS
    MaxSends = 2
    MaxSlices = 2
    Target = 4
    MaxReplaces = 1
    MinChildQty = 1
    MaxFaults = 0
INVARIANT ResendAddsNothing
CHECK_DEADLOCK FALSE
