SPECIFICATION Spec
CHECK_DEADLOCK FALSE
CONSTANTS
    Shapes <- MCShapes
    NativeShapes <- MCNativeShapes
    Texts = {1, 9}
    CachePrefix = {TRUE, FALSE}
    Criteria = {"NONE", "LATENCY", "TTFT"}
    MaxSeed = 3
    MaxRequests = 3
INVARIANTS
    ActivationClosed
    LayersOrdered
    GroupHasOneConsumer
PROPERTIES
    ContentIsFinal
    ActivatedBecomesReady
