SPECIFICATION LiveSpec
CONSTANTS
    PositionIds = {"yes", "no"}
    Orders = {1, 2, 3, 4}
    Threads = {"t1", "t2", "t3"}
    Processes = {"p1", "p2"}
    Home <- MCThreeThreads
    Inodes = {i1, i2, i3, i4}
    Fixtures <- MCFixtures
    Requests <- MCRequests
    MaxTasks = 3
    MaxCrashes = 1
    None = None
    Torn = Torn
INVARIANTS
    StorageInv
    IdsAreUnique
PROPERTIES
    ImplementsJournal
    OperationsEnd
CHECK_DEADLOCK FALSE
