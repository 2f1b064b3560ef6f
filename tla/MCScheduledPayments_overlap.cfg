SPECIFICATION FairSpec
CONSTANTS
    Worker = worker
    Request = {r1}
    Edit = {"cancel", "update", "skip"}
    Week = 2
    Cycle = 3
    MonthDays <- Months
    Date = {1, 3}
    MaxTime = 3
    MaxDate = 3
    MaxCount = 2
    MaxCrashes = 1
    None = None
INVARIANTS
    CountedArePaid
    OncePerOccurrence
    OccurrencesInOrder
    PaidOnce
PROPERTIES
    StoppedStaysStopped
    DueIsServed
CHECK_DEADLOCK FALSE
