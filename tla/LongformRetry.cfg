\* A topic that failed once.
CONSTANTS
    Events = {e1, e2}
    Runs = {r1}
    NoEvent = NoEvent
    Week = 2
    MaxPerWeek = 2
    MaxClock = 2
    WorkerDies = FALSE
SPECIFICATION FairSpec
PROPERTIES
    RetryIsTried
CHECK_DEADLOCK FALSE
