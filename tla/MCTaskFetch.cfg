SPECIFICATION Spec
CONSTANTS
    N = 3
    MaxRetries = 1
    MaxReboots = 1
INVARIANTS
    FinishedOnce
    FetchedTree
PROPERTY
    FetchEnds
CHECK_DEADLOCK FALSE
