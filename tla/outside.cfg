CONSTANTS
    Stdout = stdout
    Stderr = stderr
    Capacity = 1
    Longest = 2
    MaxChunks = 2
    MaxKids = 2
    Main = main
    Callers = {call1, call2}
    MaxId = 5
    MaxNoise = 1
    MaxQueries = 3
    Blocks = {1, 2}
    MaxLines = 4
    Names = {"read", "spawn_agent"}
    Delegate = "spawn_agent"
    MaxCalls = 3
    MaxPasses = 2
SPECIFICATION MCSpec
INVARIANTS OutputIsWhole AnswersAreOwn OnlyTimeoutsLeaveServers StepsAreSaid HistoryReadsBack
PROPERTIES CommandReturns CallsSettle

CHECK_DEADLOCK FALSE
