SPECIFICATION FairSpec
CONSTANTS
    Clients = {k1, k2}
    Statements = {q1}
    kPing = kPing
    CacheCapacity = 1
    WaySize = 1
    CacheEnabled = TRUE
    MaxBatch = 2
    MaxForgets = 1
INVARIANTS
    TypeOK
    UnpreparedHasACause
PROPERTY
    PingNoticesLoss
