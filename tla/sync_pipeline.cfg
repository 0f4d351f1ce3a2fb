SPECIFICATION SyncPipelineSpec
CONSTANTS
    t1 = t1
    t2 = t2
    r1 = r1
    Table = {t1, t2}
    Row = {r1}
    TableOf <- RowOfT1
    Initial = {r1}
    Workloads <- MCWorkloads
    MaxSyncWorkers = 2
    Binary = {FALSE, TRUE}
    Budgets <- Faults
    Partition = {1}
    Reliable = {FALSE, TRUE}
    MaxMessages = 7
    Leader = Leader
CONSTRAINT
    Explored
INVARIANTS
    SentHasFate
    CopyBeforeCatchup
    TopicConverges
