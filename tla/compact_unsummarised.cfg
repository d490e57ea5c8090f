CONSTANTS
    Runners = {parent, child}
    Windows = {4, 6}
    Heavy = 3
    KeepTail = 2
    MinTurns = 3
    MaxFailures = 2
    MaxLog = 4
SPECIFICATION CompactSpec
INVARIANTS NoSummaryKeepsTurns

CHECK_DEADLOCK FALSE
