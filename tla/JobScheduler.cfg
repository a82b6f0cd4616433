SPECIFICATION FairSpec
CONSTANTS
    MaxJobs = 3
    Workspaces <- TwoWorkspaces
    WorkspaceOf <- MCWorkspaceOf
    PriorityOf <- MCPriorityOf
    MaxQueued = 2
    QuotasOf <- MCQuotasOf
    TimesOf <- MCTimesOf
    MaxGlobal = 2
    MaxTime = 1
INVARIANTS
    DependenciesFirst
    NoneForgotten
PROPERTIES
    StartsWithinQuota
    QueueDrains
CHECK_DEADLOCK FALSE
