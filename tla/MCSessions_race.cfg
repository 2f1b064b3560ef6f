SPECIFICATION Spec
CONSTANTS
    Request = {r1, r2, r3}
    Seed = {s}
    User = {u1, u2}
    Password = {a, b}
    Recent = 1
    None = None
    Over = Over
SYMMETRY Symmetry
INVARIANTS
    SessionsEnd
    OneTokenPerSession
    LinkWritesOnce
PROPERTIES
    ResetIsNew
CHECK_DEADLOCK FALSE
