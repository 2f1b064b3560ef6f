SPECIFICATION Spec
CONSTANTS
    p1 = p1
    Payment = {p1}
    User = {m, c1, sa}
    Maker = {m, sa}
    SuperAdmin = {sa}
    Handler = {h1, h2}
    Event <- FailedEvent
    Seeded = {p1}
    SourceAmount = 2
    FeeAmount = 1
    DispatchAttempts = 2
    WebhookAttempts = 2
    LossyProvider = TRUE
    MaxCrashes = 1
    None = None
    System = System
SYMMETRY HandlerSymmetry
INVARIANTS
    TypeOK
    DispatchedWasDebited
    FourEyes
    ReversedAtMostOnce
PROPERTIES
    TerminalIsFinalWhenQuiet
CHECK_DEADLOCK FALSE
