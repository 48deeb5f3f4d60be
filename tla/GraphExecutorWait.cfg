CONSTANTS
    t1 = t1
    t2 = t2
    t3 = t3
    Tasks = {t1, t2}
    Engines = {e1}
    Mortal = {e1}
    EngineIds = {i1}
    ContextIds = {x1, x2, x3}
    None = None
    Vars <- ExecVars
    ConstVars = {}
    Chain <- WaitChain
    FuseFill = {}
SPECIFICATION FairExecSpec
CHECK_DEADLOCK FALSE
PROPERTIES
    WaitEnds
