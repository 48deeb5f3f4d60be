CONSTANTS
    None = None
    Jobs <- SharedJobs
    Gens <- SharedGens
    Ctx <- SharedCtx
    ParentCtx <- SharedParent
    TaskOf <- SharedTask
    FillLen <- SharedFill
    MaxGenLength <- SharedMax
    MaxBatchSize = 3
    MaxNumBatchedTokens = 3
    MaxTotalTokens = 11
    Policies = {"fifo", "fifo_v1"}
    BlockSize = 2
    NumBlocks = 6
SPECIFICATION FairSpec
CHECK_DEADLOCK FALSE
INVARIANTS
    BatchSound
    FirstTokenDefined
    MemorySound
    GenLengthBounded
PROPERTIES
    EveryJobFinishes
