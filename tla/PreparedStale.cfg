SPECIFICATION FairSpec
CONSTANTS
    Clients = {k1}
    Statements = {q1}
    kPing = kPing
    CacheCapacity = 2
    WaySize = 2
    CacheEnabled = TRUE
    MaxBatch = 1
    MaxForgets = 2
PROPERTY
    StaleIdIsReplaced
