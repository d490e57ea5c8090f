SPECIFICATION Spec
CONSTANTS
    t1 = t1
    t2 = t2
    t3 = t3
    t4 = t4
    engine = engine
    host = host
    None = None
    Turns <- FourTurns
    Conns <- TwoConns
    Writers <- TwoConns
    Tid <- DistinctTids
    Life <- Lives
    Torn <- FirstAndLast
    MaxLives = 2
    MaxLoads = 3
INVARIANTS StoredWorkKept RepairSticks LogIsSound
PROPERTIES ImplementsLog
