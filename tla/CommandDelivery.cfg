SPECIFICATION Spec
CONSTANTS
    MaxCommands = 1
    PollLimit = 1
    KindsOf <- OneCommand
    Heartbeats = {h1}
    MaxOpen = 2
    MaxFaults = 1
    MaxCrashes = 1
INVARIANTS
    DeliveryTypeOK
    RunsAtMostOnce
    ReportIsTrue
    
CHECK_DEADLOCK FALSE
