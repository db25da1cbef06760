SPECIFICATION LifecycleSpec
CONSTANTS
    Requests = {r1, r2}
    Agents = {a1, a2}
    Humans = {h1}
    NoHuman = NoHuman
    OwnerOf <- TwoOfOneHuman
    Immune = {}
    Keys = {k1}
    NoKey = NoKey
    NoPane = NoPane
    Cap = 0
    Batch = 1
    MaxPane = 2
    MaxVersion = 2
    a1 = a1
    a2 = a2
    k1 = k1
    h1 = h1
    p1 = p1
    f1 = f1
    t1 = t1
    g1 = g1
    g2 = g2
    Item = {p1, f1, t1, g1, g2}
    KindOf <- KindOfRow
    Restricts <- References
    Cascade <- Cascades
    Exempt = {}
    RowBatch = 1
    MaxStops = 1
INVARIANTS
    PanesInv
    RetentionInv
PROPERTIES
    RowsEnd
CHECK_DEADLOCK FALSE
