SPECIFICATION SpooledSpec
CONSTANTS
    x1 = x1
    x2 = x2
    Xid = {x1, x2}
    Shapes <- MCShapes
INVARIANTS
    SpoolExact
    OnlyCommittedSent
