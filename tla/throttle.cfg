SPECIFICATION Spec
CONSTANTS
    Partition = {p1, p2}
    Message <- MCMessage
    MaxSends = 5
    Size <- MCSize
    MaxMessages = 2
    MaxKbytes = 1
    MaxRestarts = 1
INVARIANT FlushLiftsThrottle
CHECK_DEADLOCK FALSE
