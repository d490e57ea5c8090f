SPECIFICATION Spec
CONSTANTS
    read = read
    write = write
    Spawn = Spawn
    NoSig = NoSig
    ModelCalls = 1
    ToolCalls = 3
    SubModelCalls = 1
    SubToolCalls = 1
    MaxSiblings = 2
    Sigs <- ReadWrite
    MaxCalls <- Responses
    Makes <- Readers
    MaxLateCalls = 1
    MaxAgents = 1
INVARIANTS
    StoredTurnsAreClosed
