SPECIFICATION Spec
CONSTANTS
    Txn = {t1, t2, t3}
    Amount = {1}
    MaxClock = 6
    None = None
INVARIANTS
    ExactWithoutOverlap
    ExtendsWhatIsShown
    OnlyOvertakenAreLost
PROPERTIES
    IsAnAccount
CHECK_DEADLOCK FALSE
