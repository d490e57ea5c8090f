SPECIFICATION FairSpec
CONSTANTS
    read = read
    write = write
    Spawn = Spawn
    NoSig = NoSig
    ModelCalls = 2
    ToolCalls = 3
    SubModelCalls = 1
    SubToolCalls = 3
    MaxSiblings = 2
    Sigs <- ReadWrite
    MaxCalls <- Responses
    Makes <- Readers
    MaxLateCalls = 1
    MaxAgents = 3
INVARIANTS ConversationIsSound CostIsBounded ModelHasLastWord
PROPERTIES TurnEnds
