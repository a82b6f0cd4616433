SPECIFICATION FairSpec
CONSTANTS
    MaxEvents = 3
    BatchSize = 2
    MaxRetries = 2
    Flushers <- TwoThreads
    MaxFaults = 1
INVARIANTS
    NothingVanishes
    LossIsBounded
    AttemptsBounded
PROPERTIES
    BacklogClears
CHECK_DEADLOCK FALSE
