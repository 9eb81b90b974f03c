SPECIFICATION FairSpec
CONSTANTS
    N = 2
    ChunkLength = 2
    MaxBytes = 3
    MaxLate = 1
    MaxBoots = 1
INVARIANTS
    RangesJoin
    LogBeforeEnd
    ChunksStayMapped
    UploaderComing
PROPERTIES
    LogArrives
CHECK_DEADLOCK FALSE
