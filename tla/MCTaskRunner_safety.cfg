SPECIFICATION Spec
CONSTANTS
    NTasks = 2
    Packages <- MCPackages
    RhtsCompat <- MCRhtsCompat
    RECIPE_FETCH_RETRIES = 1
    TASK_FETCH_RETRIES = 1
    ROLE_REFRESH_RETRIES = 1
    Modes <- BothModes
    Refusable <- LastTask
    Unreadable <- LastTask
    MaxBoots = 1
    MaxRequests = 2
INVARIANTS
    TypeOK
    Baton
    ResultBeforeEnd
    AbortReachesLaterTasks
    FinishedLeavesNoSection
    StartedNeverRefetched
PROPERTIES
    AbortStops
    RunAfterExternalWatchdog
    EndReported
CHECK_DEADLOCK FALSE
