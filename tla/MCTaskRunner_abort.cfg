SPECIFICATION Spec
CONSTANTS
    NTasks = 2
    Packages <- MCPackages
    RhtsCompat <- MCRhtsCompat
    RECIPE_FETCH_RETRIES = 1
    TASK_FETCH_RETRIES = 1
    ROLE_REFRESH_RETRIES = 1
    Modes <- LabMode
    Refusable <- NoTask
    Unreadable <- NoTask
    MaxBoots = 0
    MaxRequests = 2
INVARIANTS
    AbortOutlivesTaskAbort
CHECK_DEADLOCK FALSE
