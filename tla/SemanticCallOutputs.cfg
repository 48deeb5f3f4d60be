SPECIFICATION Spec
CONSTANTS
    Params <- MCParams
    Typ <- MCTyp
    Sampled = {"o1", "o2"}
    Unknown = "z"
    Calls <- MCCalls
    MaxBody = 4
INVARIANTS
    EveryGenHasChain
