SPECIFICATION EngineSpec
CONSTANTS
    None = None
    Strategies = {s1}
    Threads = {t1, t2}
    MaxManagers = 2
    MaxDepth = 1
CHECK_DEADLOCK FALSE
INVARIANT
    FoundManagersExist
