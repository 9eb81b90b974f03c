SPECIFICATION Spec
CONSTANTS
    a = a
    b = b
    Recipe = {a}
    Tasks <- MCTasks
    Results = {"SKIP", "PASS"}
    MaxRetries = 1
    MaxPipe = 1
    MaxEvents = 2
INVARIANT
    HighestSeverity
CHECK_DEADLOCK FALSE
