SPECIFICATION Spec
CONSTANTS
    Kinds <- Everything
    MaxPrompts = 3
    MaxControls = 1
    InboxCap = 1
    ReinjectCap = 1
    DoneCap = 1
INVARIANTS TurnsAreContained WedgedOnlyOverCapacity
PROPERTIES ImplementsLedger
