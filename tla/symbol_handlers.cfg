CONSTANTS
    l1 = l1
    l2 = l2
    u = u
    b = b
    w = w
    r = r
    q = q
    m = m
    Module = {m}
    Symbol = {r, q}
    Handler = {l1, l2, u, b, w}
    Id <- MCId
    SymbolOf <- MCSymbolOf
    ModuleOf <- MCModuleOf
    Locked = {l1, l2}
    Broken = {b}
    Configs <- MCConfigs
    Object = {1, 2, 3, 4}
    MaxCommands = 3
SPECIFICATION FairSpec
CHECK_DEADLOCK FALSE
INVARIANTS
    RegistriesAgree
    NoneLeft
    NoneMissed
PROPERTIES
    CommandsReturn
