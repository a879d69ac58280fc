SPECIFICATION Spec
CONSTANTS
    PositionIds = {"yes", "no"}
    Orders = {1, 2, 3}
    Threads = {"t1", "t3"}
    Processes = {"p1", "p2"}
    Home <- MCTwoThreads
    Inodes = {i1, i2, i3}
    Fixtures = {}
    Requests <- MCRequests
    MaxTasks = 4
    MaxCrashes = 0
    None = None
    Torn = Torn
INVARIANTS
    FileIsWhole
CHECK_DEADLOCK FALSE
