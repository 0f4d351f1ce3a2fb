SPECIFICATION FairSpec
CONSTANTS
    Workloads <- MCWorkloads
    Budgets <- MCBudgets
    DisableOnError = TRUE
INVARIANTS
    NothingSkippedOver
    PendingNotReported
    SkippedOnRequest
PROPERTIES
    ResentOnlyAfterCrash
    CaughtUp
