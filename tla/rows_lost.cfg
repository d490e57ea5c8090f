CONSTANTS
    MaxRows = 4
    MaxTokens = 2
    MaxViews = 1
    MaxOutputs = 1
    MaxChildren = 2
    Widths = {1, 2}
SPECIFICATION RowsSpec
PROPERTIES NothingIsLost
CHECK_DEADLOCK FALSE
