SPECIFICATION Spec
CONSTANTS
    Kinds <- PromptsAndAborts
    MaxPrompts = 2
    MaxControls = 1
    InboxCap = 1
    ReinjectCap = 4
    DoneCap = 2
INVARIANTS
    IdleServesQueue
