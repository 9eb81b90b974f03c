SPECIFICATION FairSpec
CONSTANTS
    main = main
    lib = lib
    include = include
    keep = keep
    drop = drop
    numa = numa
    Tasks <- MCTasks
    Main = main
    Packages = {keep, drop, numa}
    Removals = {drop}
    Hard <- MCHard
    Soft <- MCSoft
    Graphs <- MCGraphs
INVARIANTS
    Truthful
    RepodepOrder
PROPERTIES
    DependenciesEnd
CHECK_DEADLOCK FALSE
