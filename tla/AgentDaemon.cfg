CONSTANTS
    Requests <- DaemonRequests
    Cooldown = 1
    ManualReset = TRUE
    MaxHistory = 2
    MaxHalts = 3
    StorageFaults = TRUE
    MaxStarts = 2
SPECIFICATION FairDaemonSpec
INVARIANTS
    SwitchTypeOK
    RecoveredWasApproved
    SevereStays
    TriggeredIsDown
    HaltedIsTriggered
    TraceIsComplete
PROPERTIES
    StoppedHeartsEnd
