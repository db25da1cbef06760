SPECIFICATION ContentsSpec
CONSTANTS
    owner = owner
    Writers = {w1, w2}
    Sessions = {s1}
    Authors = {alice, bob}
    System = system
    Keys = {k}
    NoKey = nokey
    MaxEventsPerPane = 1
    SerialInserts = FALSE
    MaxId = 3
    Requests = {w1, w2}
    MaxBlobs = 1
    Scopes = {"agent"}
    Sizes = {2}
    AgentCap = 3
    PaneCap = 2
    PutBytes = {"good", "bad"}
    Evict = TRUE
    Kinds = {"upload", "presign"}
    ScanHook = TRUE
    StoreFails = FALSE
    Tokens = {t1, t2}
    Downloads = {w1, w2}
    Replicas = {w1, w2}
    HostOf <- HostOfDownload
    CacheSize = 1
    MaxUses = 1
    AgentMints = {w1, w2}
    HumanMints = {m1}
    Entries = {n1}
    Reserved = {owner}
    Unread = Unread
    SlotOf <- OwnerSlot
    Created = 0
    Cap = 2
    MinAttempts = 2
    HelperAttempts = 2
    MaxRows = 2
    a1 = a1
    a2 = a2
    h1 = h1
    p1 = p1
    p2 = p2
    t1 = t1
    v1 = v1
    v2 = v2
    x1 = x1
    x2 = x2
    e1 = e1
    m1 = m1
    n1 = n1
    Atoms = {"1", "o"}
    JsonTypes = {"number", "object"}
    JsonType <- NumberOrObject
    SizeOf <- Size
    Patterns = {}
    Meeting <- NoPatterns
    Fields = {"f", "g"}
    Unset = Unset
    Docs = {"first", "wider", "more"}
    PartOf <- PartsOf
    Fit = {"first", "wider", "more"}
    Data <- SomeData
    SchemaCalls = {w1, w2}
    CacheMax = 1
    LastVersion = 2
    MaxStored = 1
    QAgents = {a1, a2}
    QHumans = {h1}
    Unowned = Unowned
    QPanes = {p1, p2}
    NoScope = NoScope
    MadeBy <- Makers
    QTemplates = {t1}
    OnTemplate <- OneTemplate
    VersionsOf <- TwoVersions
    RowIds = {x1, x2, e1, m1}
    TableOf <- RowTables
    HomeOf <- RowHomes
    NameOf <- OneName
    Vals = {"x", "y"}
    NoFact = NoFact
    Names = {n1}
    Cols = {"c"}
    Types = {"text", "json"}
    DeclaredIn <- Declarations
    Statements <- Queries
    ScopeCap = 2
    RowCap = 1
    OutputCap = 2
    MaxEdits = 2
    ListRows <- FiveRows
    PageSizes = {1, 2}
    NoCursor = NoCursor
    MaxMoves = 3
SYMMETRY Symmetry
INVARIANTS
    SchemasAreSound
    QueryIsSound
    WalksAreSound
    WritesAreSound
    OvershootBounded
    BytesMatchCommitment
    TokensInv
    LabelsSound
PROPERTIES
    FirstChoiceIsFree
CHECK_DEADLOCK FALSE
