SPECIFICATION FairSpec
CONSTANTS
    c1 = c1
    c2 = c2
    c3 = c3
    NoCall = NoCall
    Calls <- TwoCalls
    NTurns = 1
    TurnOf <- SameTurn
    Req <- UniqueReq
    Tool <- SharedTool
    Low <- NoneLow
    Modes <- AllModes
    StartMode = "ReviewForMe"
    MaxModeChanges = 1
    Decisions <- AllDecisions
    Client = "list"
    Hasty = FALSE
INVARIANTS AnswersAreHeeded
PROPERTIES EveryRequestSettles
