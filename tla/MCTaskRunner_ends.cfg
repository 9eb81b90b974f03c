SPECIFICATION FairSpec
CONSTANTS
    NTasks = 2
    Packages <- MCPackages
    RhtsCompat <- MCRhtsCompat
    RECIPE_FETCH_RETRIES = 1
    TASK_FETCH_RETRIES = 1
    ROLE_REFRESH_RETRIES = 1
    Modes <- LabMode
    Refusable <- LastTask
    Unreadable <- NoTask
    MaxBoots = 1
    MaxRequests = 1
PROPERTIES
    LedgerSpec
    RecipeEnds
CHECK_DEADLOCK FALSE
