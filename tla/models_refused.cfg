CONSTANTS
    Providers = {1, 2}
    MaxFlows = 2
    MaxCmds = 2
    MaxEvents = 1
    Runners = {parent, child}
    Windows = {4, 6}
    Heavy = 3
    KeepTail = 2
    MinTurns = 3
    MaxFailures = 2
    MaxLog = 4
    Levels = {}
    Modes = {"manual"}
    Keyless = {2}
    Unwritable = TRUE
    Processes = {1, 2}
    Accounts = {1, 2}
    Secrets = {1, 2}
    MaxWeather = 2
    Fields = {1, 2}
    Values = {1, 2}
    MaxForeign = 2
    Openers = {1, 2}
    MaxFiles = 3
    Starts = {"none", "other", "tagged"}
    LoginProviders = {1}
    Models = {1, 2}
    Home <- HomeOf
    Default <- DefaultOf
    Static = {1}
    First = 1
    Advertised <- AdvertisedBy
    NoModel = 0
    Mock = 3
    MaxAsks = 1
    MaxAnswers = 2
    StaticLists <- StaticOf
    BuiltinLists <- BuiltinOf
    LiveLists <- LiveOf
    Writers = {1}
    Versions <- Releases
    FirstVersion <- FirstRelease
    RunFrom = {"exe"}
SPECIFICATION MCSpec
INVARIANTS OfferedIsAccepted
CHECK_DEADLOCK FALSE
