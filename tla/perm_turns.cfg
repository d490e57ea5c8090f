SPECIFICATION Spec
CONSTANTS
    c1 = c1
    c2 = c2
    c3 = c3
    NoCall = NoCall
    Calls <- CallPerTurn
    NTurns = 2
    TurnOf <- SplitTurns
    Req <- UniqueReq
    Tool <- SharedTool
    Low <- AllLow
    Modes <- AllModes
    StartMode = "Manual"
    MaxModeChanges = 1
    Decisions <- AllDecisions
    Client = "tui"
    Hasty = TRUE
INVARIANTS RunsOnlyWithConsent LiveWaitersAreServed
