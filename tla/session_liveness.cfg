SPECIFICATION FairSpec
CONSTANTS
    Kinds <- Undisturbed
    MaxPrompts = 3
    MaxControls = 1
    InboxCap = 1
    ReinjectCap = 4
    DoneCap = 1
PROPERTIES EveryPromptServed
