SPECIFICATION Spec
CONSTANTS
    Kinds <- FollowUps
    MaxPrompts = 2
    MaxControls = 0
    InboxCap = 2
    ReinjectCap = 4
    DoneCap = 2
PROPERTIES
    FollowUpsNeverInterrupt
