------------------------------- MODULE Markets -------------------------------
(***************************************************************************)
(* MarketService: the ranking of the open markets is read in one request   *)
(* (get_trending) or page after page (search), then every market found is  *)
(* read by itself (_enrich_markets, get_detail).  One command is one       *)
(* process; Hedging lets it go on with what it has listed.                 *)
(*                                                                         *)
(* External: the exchange, whose ranking by volume moves between any two   *)
(* requests.  Prices are in ticks, Unit of them being a price of 1.        *)
(***************************************************************************)
EXTENDS Configuration, Integers, Sequences, FiniteSets

CONSTANTS
    Markets,
    Matching,    \* those the query is found in
    Quotes,      \* what the exchange may answer of a market
    Rankings,    \* how the markets may be ranked at first
    Unit,
    PageSize, Pages,   \* 100 and 5 in search()
    Limit, Wide,       \* --limit, and the 50 of analyze
    MaxMoves           \* bound of the runs: how often the ranking moves

Price == 0..Unit

Sides == {"YES", "NO"}

\* Best prices of the book and price of the last sale; a 404 reads as none.
Quote == [ask: Price \union {None}, bid: Price \union {None}, last: Price \union {None}]

\* How a command ends: with an answer, an error it prints or one it does not catch.
Results == {"returned", "failed", "raised"}

ASSUME MarketsAssumption ==
    /\ IsFiniteSet(Markets) /\ Matching \subseteq Markets
    /\ \A r \in Rankings : r \in Seq(Markets) /\ \A i, j \in DOMAIN r : r[i] = r[j] => i = j
    /\ Unit \in Nat \ {0} /\ Unit % 2 = 0 /\ None \notin Price /\ None \notin Results
    /\ Quotes \in [Markets -> SUBSET Quote]
    /\ PageSize \in Nat \ {0} /\ Pages \in Nat \ {0}
    /\ Limit \in Nat \ {0} /\ Wide \in Nat \ {0} /\ MaxMoves \in Nat

Kinds == {"trending", "search", "details", "scan", "scan query", "analyze"}

Summary == [market: Markets, yes: Price, volume: Nat]

VARIABLES
    ranking,          \* the open markets, by volume
    risen, fallen,    \* those that moved since the command began
    moves,
    kind, asked,      \* the command and the ids it was given
    stage,            \* where it is
    page,             \* pages read
    found,            \* ids to be read one by one
    listed,           \* what was read of them
    result            \* how it ended

market_vars == <<ranking, risen, fallen, moves, kind, asked, stage, page, found, listed, result>>

Stages == {"idle", "pages", "enrich", "details", "pair", "done"}

MarketsTypeOK ==
    /\ ranking \in Seq(Markets)
    /\ risen \subseteq Markets /\ fallen \subseteq Markets /\ moves \in 0..MaxMoves
    /\ kind \in Kinds \union {None} /\ asked \in Seq(Markets)
    /\ stage \in Stages /\ page \in 0..Pages
    /\ found \in Seq(Markets) /\ listed \in Seq(Summary)
    /\ result \in Results \union {None}

MarketsInit ==
    /\ ranking \in Rankings
    /\ risen = {} /\ fallen = {} /\ moves = 0
    /\ kind = None /\ asked = << >>
    /\ stage = "idle" /\ page = 0 /\ found = << >> /\ listed = << >> /\ result = None
-----------------------------------------------------------------------------
(* Lists *)

\* The numbers of a set, least first.
Ascending(numbers) ==
    [n \in 1..Cardinality(numbers) |->
        CHOOSE i \in numbers : Cardinality({j \in numbers : j < i}) = n - 1]

\* The elements of a list at some places.
Picked(s, places) == [n \in DOMAIN places |-> s[places[n]]]
-----------------------------------------------------------------------------
(* The exchange *)

Moves(new, up, down) ==
    /\ moves < MaxMoves /\ moves' = moves + 1
    /\ ranking' = new /\ risen' = risen \union up /\ fallen' = fallen \union down
    /\ UNCHANGED <<kind, asked, stage, page, found, listed, result>>

\* A market overtakes the one before it.
Overtakes(i) ==
    /\ i \in 2..Len(ranking)
    /\ Moves([ranking EXCEPT ![i] = ranking[i - 1], ![i - 1] = ranking[i]],
             {ranking[i]}, {ranking[i - 1]})

\* A market closes and those behind it move up.
Closes(i) ==
    /\ i \in DOMAIN ranking
    /\ Moves([j \in 1..(Len(ranking) - 1) |-> ranking[IF j < i THEN j ELSE j + 1]],
             {ranking[j] : j \in (i + 1)..Len(ranking)}, {})

\* The volume of a market, as far as the ranking tells it.
Volume(m) == Cardinality({i \in DOMAIN ranking : \E j \in 1..(i - 1) : ranking[j] = m})
-----------------------------------------------------------------------------
(* Prices *)

\* derive_mark_prices, YES; the middle of a spread is rounded to a tick.
Marks(q) ==
    IF q.ask # None /\ q.bid # None
    THEN {(q.ask + q.bid) \div 2, (q.ask + q.bid + 1) \div 2}
    ELSE IF q.last # None THEN {q.last}
    ELSE IF q.ask # None THEN {q.ask}
    ELSE IF q.bid # None THEN {q.bid}
    ELSE {Unit \div 2}

\* A price of either side.
SidePrice(summary, side) == IF side = "YES" THEN summary.yes ELSE Unit - summary.yes
-----------------------------------------------------------------------------
(* Commands *)

Paged == kind \in {"search", "scan query"}

\* from_env() and the refusal of pure vault mode stop a command before any
\* request; the markets commands do not catch that ConfigError.
Refused(k) == IF k \in {"scan", "scan query", "analyze"} THEN "failed" ELSE "raised"

StartReading(k, ids) ==
    /\ stage = "idle"
    /\ Len(ids) = (CASE k = "details" -> 1 [] k = "analyze" -> 2 [] OTHER -> 0)
    /\ kind' = k /\ asked' = ids
    /\ \/ stage' = "done" /\ result' = Refused(k) /\ UNCHANGED found
       \/ /\ stage' = (IF k = "details" THEN "details" ELSE "pages")
          /\ found' = (IF k = "details" THEN ids ELSE << >>)
          /\ UNCHANGED result
    /\ UNCHANGED <<ranking, risen, fallen, moves, page, listed>>

\* Mutant: what was found is taken for what was read.
SkipFound(pages) == Len(found)

\* Where the page after so many pages begins.
Skip(pages) == pages * PageSize

\* get_markets(first=, skip=)
Slice(first, skip) ==
    SubSeq(ranking, skip + 1, IF skip + first < Len(ranking) THEN skip + first ELSE Len(ranking))

\* get_trending: one request.
Trending ==
    /\ stage = "pages" /\ ~Paged
    /\ found' = Slice(IF kind = "analyze" THEN Wide ELSE Limit, 0)
    /\ stage' = "enrich"
    /\ UNCHANGED <<ranking, risen, fallen, moves, kind, asked, page, listed, result>>

\* search: a page, until one is empty or five have been read.
SearchPage ==
    /\ stage = "pages" /\ Paged
    /\ LET markets == Slice(PageSize, Skip(page)) IN
       /\ found' = found \o Picked(markets, Ascending({i \in DOMAIN markets : markets[i] \in Matching}))
       /\ stage' = IF markets = << >> \/ page + 1 = Pages THEN "enrich" ELSE "pages"
    /\ page' = page + 1
    /\ UNCHANGED <<ranking, risen, fallen, moves, kind, asked, listed, result>>

\* _load_market_supporting_data of the next market.
Enrich ==
    /\ stage \in {"enrich", "details"} /\ Len(listed) < Len(found)
    /\ LET m == found[Len(listed) + 1] IN
       \E q \in Quotes[m] : \E yes \in Marks(q) :
          listed' = Append(listed, [market |-> m, yes |-> yes, volume |-> Volume(m)])
    /\ UNCHANGED <<ranking, risen, fallen, moves, kind, asked, stage, page, found, result>>

\* sorted(..., key=volume, reverse=True), which is stable.
SortedByVolume(s) ==
    LET Ahead(i) == {j \in DOMAIN s : s[j].volume > s[i].volume
                                      \/ (s[j].volume = s[i].volume /\ j < i)} IN
    [n \in DOMAIN s |-> s[CHOOSE i \in DOMAIN s : Cardinality(Ahead(i)) = n - 1]]

\* What the service returns of the markets read.
Listing ==
    IF Paged THEN SubSeq(SortedByVolume(listed), 1, IF Limit < Len(listed) THEN Limit ELSE Len(listed))
    ELSE listed

AllListed == stage \in {"enrich", "details"} /\ Len(listed) = Len(found)

\* A markets command prints what it has read.
Show ==
    /\ AllListed /\ kind \in {"trending", "search", "details"}
    /\ listed' = Listing
    /\ stage' = "done" /\ result' = "returned"
    /\ UNCHANGED <<ranking, risen, fallen, moves, kind, asked, page, found>>

\* A request fails for good, or with something else than the 404 that means
\* "no such data": no caller catches that.
ReadingFails ==
    /\ stage \in {"pages", "enrich", "details"} /\ ~AllListed
    /\ stage' = "done" /\ result' = "raised"
    /\ UNCHANGED <<ranking, risen, fallen, moves, kind, asked, page, found, listed>>

Reading == Trending \/ SearchPage \/ Enrich \/ Show \/ ReadingFails

\* What others do, as long as the command reads.
Exchange ==
    /\ stage \in {"pages", "enrich", "details"}
    /\ \E i \in DOMAIN ranking : Overtakes(i) \/ Closes(i)
-----------------------------------------------------------------------------
(* Properties *)

\* However the ranking moves between two pages, a search misses no matching
\* market within its pages but one that has risen, past a page already read,
\* and lists none twice but one that has fallen (search: pages are read by
\* position, skip=page * 100).
SearchIsCoherent ==
    Paged /\ (stage \in {"enrich", "pair"} \/ result = "returned") =>
        /\ \A i \in DOMAIN ranking :
              i <= Pages * PageSize /\ ranking[i] \in Matching \ risen =>
                  \E j \in DOMAIN found : found[j] = ranking[i]
        /\ \A i, j \in DOMAIN found : found[i] = found[j] /\ i # j => found[i] \in fallen
=============================================================================
