SPECIFICATION FairSpec
CONSTANTS
    Xid = {x1, x2}
    Budgets <- MCBudgets
INVARIANTS
    TypeOK
    CommitFindsPrepared
    ConfirmedMeansSent
    NoneLeftPrepared
    PreparedOnce
    RolledBackSentAtPrepare
PROPERTIES
    PreparedFinishes
