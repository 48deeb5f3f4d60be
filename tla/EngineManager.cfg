SPECIFICATION Spec
CHECK_DEADLOCK FALSE
CONSTANTS
    p1 = p1
    p2 = p2
    m1 = m1
    m2 = m2
    shared = shared
    TEXT = TEXT
    Processes = {p1, p2}
    Models = {m1, m2}
    Config <- MCConfig
    Tokenizer <- MCTokenizer
    Offline = {m2}
    Timeout = 1
    Retries = 2
    MaxEngines = 3
    MaxBusy = 1
INVARIANTS
    RefsExact
    TokenizersServed
    AssertsOnlyIfShared
    HealthyStays
PROPERTIES
    SilentSwept
