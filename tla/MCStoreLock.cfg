CONSTANTS
    Callers = {p1, p2, p3}
    Retries = 3
    StaleAge = 2
    StealsStale = TRUE
    Prompt = FALSE
    MaxCrashes = 1
    Free = Free
SPECIFICATION FairSpec
INVARIANTS
    ExclusionUntilRobbed
PROPERTY
    DeadLockIsCleared
