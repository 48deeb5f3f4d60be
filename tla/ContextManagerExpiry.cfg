CONSTANTS
    t1 = t1
    t2 = t2
    t3 = t3
    Tasks = {t1, t2, t3}
    Engines = {e1}
    EngineIds = {i1}
    ContextIds = {x1, x2, x3, x4, x5}
    None = None
    Vars <- SharedVars
    ConstVars = {"c"}
    Chain <- SharedChain
    FuseFill = {}
SYMMETRY ContextSymmetry
SPECIFICATION Spec
CHECK_DEADLOCK FALSE
INVARIANT ExpiredConstVarHasContexts
