SPECIFICATION Spec
CONSTANTS
    c1 = c1
    c2 = c2
    c3 = c3
    NoCall = NoCall
    Calls <- TwoCalls
    NTurns = 1
    TurnOf <- SameTurn
    Req <- UniqueReq
    Tool <- SharedTool
    Low <- NoneLow
    Modes <- ManualOnly
    StartMode = "Manual"
    MaxModeChanges = 0
    Decisions <- YesNo
    Client = "tui"
    Hasty = FALSE
PROPERTIES
    NewRequestKeepsOld
