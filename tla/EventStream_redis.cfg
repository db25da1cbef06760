\* Two sessions on one process that uses Redis and may die.
SPECIFICATION FairSpec
CONSTANTS
    w1 = w1
    w2 = w2
    s1 = s1
    s2 = s2
    alice = alice
    r1 = r1
    r2 = r2
    Writers = {}
    Sessions = {s1, s2}
    Authors = {alice}
    System = system
    Keys = {}
    NoKey = nokey
    MaxEventsPerPane = 0
    SerialInserts = FALSE
    MaxId = 2
    Clients = {s1, s2}
    ClientOf <- OwnClient
    Replicas = {r1}
    HostOf <- OneHost
    RedisOn = TRUE
    MaxConnections = 0

INVARIANTS
    NoDuplicateSend
PROPERTIES
    RelayRecovers
CHECK_DEADLOCK FALSE
