CONSTANTS
    t1 = t1
    t2 = t2
    t3 = t3
    Tasks = {t1, t2, t3}
    Engines = {e1, e2}
    EngineIds = {i1, i2}
    ContextIds = {x1, x2, x3, x4, x5}
    None = None
    Vars <- SharedVars
    ConstVars = {"c"}
    Chain <- SharedChain
    FuseFill = {t1}
SYMMETRY ContextSymmetry
SPECIFICATION Spec
CHECK_DEADLOCK FALSE
INVARIANTS
    HeldExactly
    PathsIntact
    BottomUp
    NeverFreedEarly
