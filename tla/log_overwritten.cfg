SPECIFICATION Spec
CONSTANTS
    t1 = t1
    t2 = t2
    t3 = t3
    t4 = t4
    engine = engine
    host = host
    None = None
    Turns <- ThreeTurns
    Conns <- TwoConns
    Writers <- EngineOnly
    Tid <- RestartedTids
    Life <- Lives
    Torn <- OnlyLast
    MaxLives = 2
    MaxLoads = 2
INVARIANTS
    StoredWorkKept
