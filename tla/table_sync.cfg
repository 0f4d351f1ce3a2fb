SPECIFICATION FairSpec
CONSTANTS
    t1 = t1
    r1 = r1
    Table = {t1}
    Row = {r1}
    TableOf <- OneTable
    Initial = {r1}
    MaxSyncWorkers = 1
    Workloads <- MCWorkloads
    Binary = {FALSE, TRUE}
    Budgets <- Faults
INVARIANTS
    SyncedMeansSent
    OriginMatchesState
    WorkerPastLeader
    StreamHasSlot
PROPERTIES
    FollowsTables
    WaitsEnd
    ReadyOrCrashing
