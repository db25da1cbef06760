SPECIFICATION SocketsSpec
CONSTANTS
    u1 = u1
    u2 = u2
    RecKeys = {k1, k2}
    Batch = 3
    MaxEvent = 2
    MaxSeq = 3
    MaxSock = 3
    MaxLoss = 2
    Calls = {c1, c2}
    MaxFlap = 1
    Tickets = {t1}
    Upgrades = {u1, u2}
    Cap = 1
    Allowance = 1
    MaxFrame = 1
    Relays = {r1}
    Visitors = {a1, a2}
    Sockets = {s1, s2, s3}
    MaxRows = 3
INVARIANTS
    ShellInv
    CallsInv
    GateInv
    AttendInv
PROPERTIES
    SocketsProgress
CHECK_DEADLOCK FALSE
