SPECIFICATION Spec
CONSTANTS
    a = a
    b = b
    Recipe = {a, b}
    Tasks <- MCTasks
    Results = {"PASS", "FAIL"}
    MaxRetries = 1
    MaxPipe = 1
    MaxEvents = 2
INVARIANTS
    RecipeSumsUp
    ResultsKept
    NoHiddenFailure
PROPERTY
    ClientEnds
CHECK_DEADLOCK FALSE
