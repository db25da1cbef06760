SPECIFICATION EndsSpec
CONSTANTS
    Requests = {w1, w2}
    MaxBlobs = 3
    Scopes = {"agent", "pane"}
    Sizes = {1, 2, 3}
    AgentCap = 2
    PaneCap = 5
    PutBytes = {"good"}
    Evict = TRUE
    Kinds = {"upload"}
    ScanHook = FALSE
    StoreFails = TRUE
    Writers = {w1, w2}
    Readers = {c1}
    Subscribers = {}
    Keys = {"j", "k"}
    NoMatch = NoMatch
    Nobody = Nobody
    PageSize = 1
    MaxRecords = 2
    Serial = FALSE
    MaxSeq = 3
    MaxGen = 2
    w1 = w1
    w2 = w2
    Persons = {h1, h2}
    NoPerson = NoPerson
    k2 = k2
    Clicks = {k1, k2}
    MaxEndpoint = 1
    MaxPush = 2
    HomePanes = {g1, g2}
    NewPane = g2
    g2 = g2
    NoPane = NoPane
    TagLists = {"a"}
    DefaultSegment = "templates"
    Sends = {q1, q2}
    MaxEntry = 3
    MaxSecret = 3
    People = {h1, h2}
    PaneOwner = h1
    NoOne = NoOne
    h1 = h1
SYMMETRY Symmetry
INVARIANTS
    QuotaInv
    ReaderInSync
    OpenInv
PROPERTIES
    SeqOrderIsCommitOrder
    PushIsSound
    HomeIsSound
CHECK_DEADLOCK FALSE
