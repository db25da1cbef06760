SPECIFICATION AccountsSpec
CONSTANTS
    g1 = g1
    h1 = h1
    b1 = b1
    e1 = e1
    c1 = c1
    o1 = o1
    k1 = k1
    Emails = {e1}
    Browsers = {b1, b2}
    Links = {l1, l2}
    Visits = {i1, i2}
    Invites = {v1}
    NoEmail = NoEmail
    NoLink = NoLink
    Workers = {g1, g2}
    Owners = {h1, h2}
    Nobody = Nobody
    Codes = {c1, c2}
    Claimers = {i1, i2}
    Makers = {m1}
    ContextKeys = {q1}
    NoContext = NoContext
    MaxRow = 2
    Consents = {k1, k2}
    Decisions = {o1, o2}
    Exchanges = {i1, i2}
    Revokers = {v1}
    NoConsent = NoConsent
    NoKey = NoKey
    MaxKey = 3
    MaxPair = 3
    Calls = {i1, i2, j3}
    Installers = {h1}
    Incompatible <- BreakingChange
    MaxVersions = 3
    MaxLaunches = 1
    Checks = {i1, i2}
    Hosts = {r1}
    Clients = {e1, e2}
    Proxies = {b1}
    Bearers = {t1}
    Limit = 1
    Window = 2
    MaxTime = 3
    Sessions = {s1, s2, s3}
    Users = {v1}
    MaxSessions = 2
    IdleTtl = 1
    MaxTick = 3
SYMMETRY Symmetry
INVARIANTS
    SignInInv
    OAuthInv
    RateInv
PROPERTIES
    ClaimsAreSound
    CatalogIsSound
    SessionTableIsSound
CHECK_DEADLOCK FALSE
