SPECIFICATION FairSpec
CONSTANTS
    m1 = m1
    m2 = m2
    m3 = m3
    Messages <- MCMessages
    FirstDelay = 2
    MaxDelay = 7
    MaxLosses = 4
INVARIANTS
    TypeOK
    OneHandler
PROPERTIES
    FifoSpec
    EveryMessageAnswered
CHECK_DEADLOCK FALSE
