CONSTANTS
    t1 = t1
    t2 = t2
    t3 = t3
    t4 = t4
    g1 = g1
    g2 = g2
    None = None
    Tasks <- FourTasks
    NumEngines = 2
    Upper <- Uppers
    Tokens <- Sizes
    Compatible <- Models
    Depth <- Depths
    Group <- Groups
    FirstVar <- Prompts
    ConstVars = {"q"}
    TasksCap = 2
    TokensCap = 2
    MaxQueueSize = 3
    Configs <- FourConfigs
    Mortal = {1}
SPECIFICATION FairSpec
CHECK_DEADLOCK FALSE
INVARIANT LoadSound
PROPERTIES
    NoOvertaking
    EventuallyScheduled
