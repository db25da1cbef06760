SPECIFICATION DeliverySpec
CONSTANTS
    MaxHook = 2
    Attempts = 3
    Pollers = {p1}
    PollPage = 1
    OneWriter = TRUE
    MaxLog = 2
    Profiles = {"default", "prod"}
    Default = "default"
    NoProfile = NoProfile
    NoKey = 0
    Commands = {c1}
    Servers = {s1}
    Calls = {x1, x2}
    Owners = {o1}
    Alone = FALSE
    MaxKey = 2
INVARIANTS
    ReadsInv
    KeysInv
PROPERTIES
    WebhookIsSound
    ReadsEnd
CHECK_DEADLOCK FALSE
