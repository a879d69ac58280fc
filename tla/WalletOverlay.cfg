SPECIFICATION Spec
CONSTANTS
    Commands = {"c1"}
    Environments <- MCEnvironments
    ToolSets <- MCToolSets
    Purses = {0}
    Amounts = {2}
    MaxBalance = 3
    MaxMoves = 1
    MaxEpoch = 1
    Headroom = 1
    Gas = 1
    Target = 4
    None = None
PROPERTY DocumentedOverlayIsServed
CHECK_DEADLOCK FALSE
