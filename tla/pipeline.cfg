SPECIFICATION PipelineSpec
CONSTANTS
    Workloads <- MCWorkloads
    Budgets <- MCBudgets
    DisableOnError = TRUE
    Message <- MCMessage
    Partition = {p1, p2}
SYMMETRY PartitionSymmetry
INVARIANTS
    FateKnown
    RewindsAreRestarts
