SPECIFICATION FairSpec
CONSTANTS
    p1 = p1
    Payment = {p1, p2}
    User = {m, c1}
    Maker = {m}
    SuperAdmin = {}
    Handler = {h1}
    Event <- NoEvents
    Seeded = {}
    SourceAmount = 2
    FeeAmount = 1
    DispatchAttempts = 3
    WebhookAttempts = 2
    LossyProvider = TRUE
    MaxCrashes = 1
    None = None
    System = System
INVARIANTS
    SettledBooks
PROPERTIES
    DispatchSettles
CHECK_DEADLOCK FALSE
