CONSTANTS
    PoolSize = 4
    DebugMode = FALSE
    Clients = {k1, k2}
    MaxIds = 6
SPECIFICATION PoolSpec
INVARIANTS
    TypeOK
    Exclusive
    CountMatches
    WithinPoolSize
PROPERTIES
    ImplementsAllocator
    NoIdLost
