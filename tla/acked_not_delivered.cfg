SPECIFICATION PipelineSpec
CONSTANTS
    Workloads <- TwoRows
    Budgets <- ExitBudgets
    DisableOnError = FALSE
    Message <- MCMessage
    Partition = {p1, p2}
SYMMETRY PartitionSymmetry
INVARIANT AckedIsDelivered
