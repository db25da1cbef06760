\* One process and its in-process bus on SQLite; a client that connects,
\* loses its socket and connects again while a writer writes.
SPECIFICATION Spec
CONSTANTS
    w1 = w1
    w2 = w2
    s1 = s1
    s2 = s2
    alice = alice
    r1 = r1
    r2 = r2
    Writers = {w1}
    Sessions = {s1, s2}
    Authors = {alice}
    System = system
    Keys = {}
    NoKey = nokey
    MaxEventsPerPane = 0
    SerialInserts = TRUE
    MaxId = 3
    Clients = {alice}
    ClientOf <- OneClient
    Replicas = {r1}
    HostOf <- OneHost
    RedisOn = FALSE
    MaxConnections = 0
INVARIANTS
    LiveInv
PROPERTIES
    FeedSpec
CHECK_DEADLOCK FALSE
