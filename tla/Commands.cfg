SPECIFICATION CommandsSpec
CONSTANTS
    None = None
    Markets = {"m1", "m2", "m3", "m4"}
    Matching = {"m1", "m3", "m4"}
    Quotes <- MCQuotes
    Rankings <- MCRankings
    Unit = 4
    PageSize = 2
    Pages = 2
    Limit = 4
    Wide = 2
    MaxMoves = 1
    Workers = 2
    Attempts = 2
    CoverPercent = 98
    MinCoverage = 85
    MaxTier = 2
    Tokens <- MCTokens
    Buys = {"b1", "b2"}
    Token <- MCToken
    Limited = {"b2"}
    Quantities = {2}
    Cost = 1
    Elsewhere <- MCElsewhere
    Inputs <- MCInputs
    Recorded <- MCRecorded
    Sources = {"summary", "call"}
    Stated = "summary"
    MaxDelay = 1
INVARIANTS
    CommandsTypeOK
    SearchIsCoherent
    ClientsAreClosed
    HedgesHold
    RankingIsReproducible
    EachPositionOnce
    ProfitIsOfTheHolding
    PassIsEarned
    
PROPERTIES
    EveryCommandEnds
CHECK_DEADLOCK FALSE
