SPECIFICATION Spec
CONSTANTS
    N = 2
    MaxRetries = 1
    MaxReboots = 1
INVARIANT
    KeepIsNoError
CHECK_DEADLOCK FALSE
