SPECIFICATION TplSpec
CONSTANTS
    Writers = {w1, w2}
    Readers = {}
    Subscribers = {s1}
    Sessions = {p1}
    Keys = {"j", "k"}
    NoMatch = NoMatch
    Nobody = Nobody
    PageSize = 1
    MaxRecords = 2
    Serial = TRUE
    MaxSeq = 3
    MaxGen = 2
    Batch = 2
    MaxVersion = 2
SYMMETRY Symmetry
CONSTRAINT Followed
INVARIANTS
    SubscribersInv
    SessionsInv
PROPERTIES
    IfMatchHonoured
CHECK_DEADLOCK FALSE
