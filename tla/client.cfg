CONSTANTS
    Height = 3
    MaxRows = 8
    Notch = 3
    Page = 5
    MaxBatch = 4
    Window = 3
    MaxItems = 5
    MaxLines = 3
    MaxTokens = 2
    MaxViews = 1
    MaxOutputs = 1
    MaxChildren = 2
    Widths = {1, 2}
    MaxInput = 2
    MaxPrompts = 2
    CmdCap = 1
    InboxCap = 1
    EventCap = 3
    Scalars = {"mouse"}
    Values = {0, 1}
    MaxTyped = 3
SPECIFICATION MCSpec
INVARIANTS ScrollingIsFaithful RowsAreTrue PromptIsSound StatusSettles
PROPERTIES ReaderUndisturbed AnswerIsWhole DraftComesBack
CHECK_DEADLOCK FALSE
