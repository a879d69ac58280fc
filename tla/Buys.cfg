SPECIFICATION LiveSpec
CONSTANTS
    Buyers = {"b1", "b2"}
    PositionIds = {"yes"}
    Id <- MCId
    Attempts = 2
    Polls = 1
    None = None
INVARIANTS
    OneOrderPerBuy
    JournalIsTrue
    ReportedIsJournalled
PROPERTIES
    BuysEnd
CHECK_DEADLOCK FALSE
