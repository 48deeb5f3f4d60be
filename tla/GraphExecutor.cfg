CONSTANTS
    t1 = t1
    t2 = t2
    t3 = t3
    Tasks = {t1, t2, t3}
    Engines = {e1}
    Mortal = {e1}
    EngineIds = {i1}
    ContextIds = {x1, x2, x3, x4}
    None = None
    Vars <- ExecVars
    ConstVars = {"c"}
    Chain <- ExecChain
    FuseFill = {}
SPECIFICATION FairExecSpec
CHECK_DEADLOCK FALSE
INVARIANT FilledInOrder
PROPERTIES
    TaskCompletes
