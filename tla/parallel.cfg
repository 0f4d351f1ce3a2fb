SPECIFICATION ParallelFairSpec
CONSTANTS
    x1 = x1
    x2 = x2
    Xid = {x1, x2}
    Shapes <- MCShapes
    Worker = {w1, w2}
    QueueSize = 2
    MaxParallel = 2
    MaxErrors = 1
INVARIANTS
    ParallelTypeOK
    TransferExact
    ChunkCounted
    ReusedClean
    FlushedMeansSent
    SentByWorkerOnly
PROPERTY LeaderGoesOn
