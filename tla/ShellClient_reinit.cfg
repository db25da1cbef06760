SPECIFICATION ShellSpec
CONSTANTS
    RecKeys = {k1, k2}
    Batch = 3
    MaxEvent = 2
    MaxSeq = 3
    MaxSock = 3
    MaxLoss = 2
INVARIANT PageEventsOnce
CHECK_DEADLOCK FALSE
