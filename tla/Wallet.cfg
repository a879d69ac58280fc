SPECIFICATION LiveSpec
CONSTANTS
    Commands = {"c1", "c2"}
    Environments <- MCEnvironments
    ToolSets <- MCToolSets
    Purses = {0}
    Amounts = {2, 5}
    MaxBalance = 3
    MaxMoves = 1
    MaxEpoch = 1
    Headroom = 1
    Gas = 1
    Target = 4
    None = None
INVARIANTS
    WalletInv
    ReportsAreTrue
    PlanIsOfOneReading
PROPERTIES
    WithdrawalsAreCovered
    CommandsEnd
CHECK_DEADLOCK FALSE
