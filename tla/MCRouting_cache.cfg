SPECIFICATION Spec
CONSTANTS
    Requests = 3
    Currency = {"USD"}
    Provider = {"manual", "zoqq"}
    Batch = 1
    None = None
    Over = Over
INVARIANTS
    RouteIsCurrent
    AdapterIsCurrent
CHECK_DEADLOCK FALSE
