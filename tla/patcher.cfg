CONSTANTS
    h1 = h1
    h2 = h2
    p = p
    sf = sf
    sp = sp
    m = m
    Module = {m}
    Concrete = {h1, h2}
    Pattern = {p}
    SymbolOf <- MCSymbolOf
    ModuleOf <- MCOneModule
    Configs <- MCConfigs
    MaxCalls = 3
SPECIFICATION FairSpec
CHECK_DEADLOCK FALSE
INVARIANTS
    NoneMissed
    NoneLeft
    HookedOnce
PROPERTIES
    CallsReturn
