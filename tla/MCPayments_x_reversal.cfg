SPECIFICATION Spec
CONSTANTS
    p1 = p1
    Payment = {p1}
    User = {m, c1}
    Maker = {m}
    SuperAdmin = {}
    Handler = {h1}
    Event <- NoEvents
    Seeded = {}
    SourceAmount = 2
    FeeAmount = 1
    DispatchAttempts = 3
    WebhookAttempts = 5
    LossyProvider = FALSE
    MaxCrashes = 0
    None = None
    System = System
INVARIANTS
    ReversalRestoresDebit
CHECK_DEADLOCK FALSE
