SPECIFICATION Spec
CONSTANTS
    Requests = 4
    Value = {1}
    None = None
    Over = Over
INVARIANTS
    FeeWasInForce
    FeesHaveValues
CHECK_DEADLOCK FALSE
