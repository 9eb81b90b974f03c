SPECIFICATION FairSpec
CONSTANTS
    s1 = s1
    s2 = s2
    b1 = b1
    b2 = b2
    None = None
    Leftover = Leftover
    Setters = {s1, s2}
    Blockers = {b1, b2}
    Abortable = {b1}
    States <- MCStates
    sets <- MCSets
    wanted <- MCWanted
INVARIANTS
    NoFalseRelease
    NeverParked
    NobodyForgotten
    SweepsTheGone
PROPERTIES
    Released
CHECK_DEADLOCK FALSE
