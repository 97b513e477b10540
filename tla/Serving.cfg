SPECIFICATION MigrationSpec
CONSTANTS
    MaxWatches = 2
    MaxBatches = 2
    RespDepth = 1
    CancelDepth = 1
    Token = {t1, t2}
    TTL = 2
    NumKeys = 3
    PageSize = 2
    MaxSrcWrites = 1
CONSTRAINT Explored
CHECK_DEADLOCK FALSE
INVARIANTS
    ResponsesInOrder
    CancelsOwnWatch
    TokenHonoured
    MigrationComplete
    VerifiedIsThere
PROPERTIES
    StoreEndIsTold
    StreamWindsDown
    ExpiredTokenCollected
    ShutdownEnds
