SPECIFICATION FairSpec
CONSTANTS
    HEARTBEAT = 3
    Budgets <- MCBudgets
    Adjustments <- MCAdjustments
    ForkFails = TRUE
    KillFails = TRUE
    MaxBefore = 3
    MaxNow = 17
    MaxAdjusts = 2
INVARIANTS
    TypeOK
    FreedIsUnreachable
    NeverLate
PROPERTIES
    NotEarly
    WatchedEnds
CHECK_DEADLOCK FALSE
