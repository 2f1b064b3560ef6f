SPECIFICATION Spec
CONSTANTS
    Requests = 3
    User = {owner, other}
    Attempts = 1
    Owner = owner
    Window = 2
    Day = 2
    MaxTime = 4
    MaxDate = 5
    MaxCrashes = 1
    MaxEvents = 1
    None = None
    Over = Over
INVARIANTS
    SilentAfterAlert
    OneAlertPerCountdown
    EverybodyIsTold
CHECK_DEADLOCK FALSE
