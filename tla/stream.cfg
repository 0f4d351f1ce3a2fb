SPECIFICATION StreamPipelineSpec
CONSTANTS
    x1 = x1
    x2 = x2
    Xid = {x1, x2}
    Shapes <- MCShapes
    Worker = {w1}
    QueueSize = 1
    MaxParallel = 2
    MaxErrors = 1
    Partition = {p1, p2}
INVARIANTS
    ChangesInOrder
    FlushedHasFate
