SPECIFICATION Spec
CHECK_DEADLOCK FALSE
CONSTANTS
    Clients = {c1, c2}
    Ids = {i1, i2}
    LifeSpan = 1
    MaxSessions = 2
INVARIANTS
    TablesAgree
    OwnSessionReached
PROPERTIES
    AbandonedRemoved
    FailedRemoved
    
