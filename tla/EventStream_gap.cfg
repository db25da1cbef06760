\* One process on SQLite: an event lands between the replay and the subscription.
SPECIFICATION Spec
CONSTANTS
    w1 = w1
    w2 = w2
    s1 = s1
    s2 = s2
    alice = alice
    r1 = r1
    r2 = r2
    Writers = {w1}
    Sessions = {s1}
    Authors = {alice}
    System = system
    Keys = {}
    NoKey = nokey
    MaxEventsPerPane = 0
    SerialInserts = TRUE
    MaxId = 2
    Clients = {alice}
    ClientOf <- OneClient
    Replicas = {r1}
    HostOf <- OneHost
    RedisOn = FALSE
    MaxConnections = 0
INVARIANT LiveStreamIsComplete
CHECK_DEADLOCK FALSE
