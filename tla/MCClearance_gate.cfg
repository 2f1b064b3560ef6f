SPECIFICATION Spec
CONSTANTS
    Request = {r1, r2, r3, r4}
    Seed = s
    Amount <- Amounts
    None = None
    Over = Over
SYMMETRY Symmetry
INVARIANTS
    KycAgrees
    DocumentsStay
    ScreeningFollows
    VelocityHolds
CHECK_DEADLOCK FALSE
