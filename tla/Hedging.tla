------------------------------- MODULE Hedging -------------------------------
(***************************************************************************)
(* HedgeService: the markets listed are compared with the first one, each  *)
(* by a task that asks the language model what implies what; a semaphore   *)
(* lets Workers tasks ask at a time and gather() waits for all of them or  *)
(* for the first that fails.                                               *)
(*                                                                         *)
(* External: the language model, and asyncio.run(), which cancels the      *)
(* tasks that are left when the command has its answer or its error.       *)
(***************************************************************************)
EXTENDS Markets

CONSTANTS
    Workers,      \* Semaphore(3)
    Attempts,     \* LLM_MAX_RETRIES
    CoverPercent, \* NECESSARY_PROBABILITY
    MinCoverage, MaxTier   \* --min-coverage, in percent, and --tier

\* What the model may say of a pair: the first market YES is implied by the
\* other YES, implies it, or nothing that can be used.
Relations == {"implied_by", "implies", "neither"}

ASSUME HedgingAssumption ==
    /\ Workers \in Nat \ {0} /\ Attempts \in Nat \ {0}
    /\ CoverPercent \in 0..100 /\ MinCoverage \in 0..100 /\ MaxTier \in 1..4
    /\ None \notin Relations

VARIABLES
    fixture,    \* is this the test fixture, which asks no model
    keyed,      \* is there an OPENROUTER_API_KEY
    tasks,      \* by the index of the summary they compare with the first
    portfolios  \* what the command answers

hedge_vars == <<market_vars, fixture, keyed, tasks, portfolios>>

Task == [at: {"queued", "asking", "over"},
         client: {"none", "open", "closed"},
         attempts: 0..Attempts,
         end: Relations \union {"failed", "refused", "cancelled", None}]

Portfolio == [target: Markets, targetSide: Sides, cover: Markets, coverSide: Sides,
              cost: Nat, coverage: Nat, tier: 1..4]

HedgingTypeOK ==
    /\ MarketsTypeOK
    /\ fixture \in BOOLEAN /\ keyed \in BOOLEAN
    /\ DOMAIN tasks \subseteq DOMAIN listed /\ \A i \in DOMAIN tasks : tasks[i] \in Task
    /\ portfolios \in Seq(Portfolio)

NoTasks == [i \in {} |-> None]

HedgingInit ==
    /\ MarketsInit
    /\ fixture = FALSE /\ keyed = FALSE
    /\ tasks = NoTasks /\ portfolios = << >>
-----------------------------------------------------------------------------
(* coverage.py, in hundredths of a tick *)

Coverage(target) == 100 * target + CoverPercent * (Unit - target)

Tier(coverage) ==
    IF coverage >= 95 * Unit THEN 1
    ELSE IF coverage >= 90 * Unit THEN 2
    ELSE IF coverage >= 85 * Unit THEN 3
    ELSE 4

\* Mutant: the sides are those of the other implication.
SidesSwapped(relation) ==
    IF relation = "implied_by" THEN [target |-> "NO", cover |-> "YES"]
    ELSE [target |-> "YES", cover |-> "NO"]

\* _relationship_from_payload: the contrapositive or the implication itself.
SidesOf(relation) ==
    IF relation = "implied_by" THEN [target |-> "YES", cover |-> "NO"]
    ELSE [target |-> "NO", cover |-> "YES"]

\* build_portfolio, for a summary, another and the sides to buy of them.
PortfolioOf(left, right, sides) ==
    LET target == SidePrice(left, sides.target)
        cost == target + SidePrice(right, sides.cover) IN
    [target |-> left.market, targetSide |-> sides.target,
     cover |-> right.market, coverSide |-> sides.cover,
     cost |-> cost, coverage |-> Coverage(target), tier |-> Tier(Coverage(target))]

\* Whether there is one: it must cost something, and cover enough.
IsOffered(portfolio) ==
    portfolio.cost \in 1..(2 * Unit) /\ portfolio.coverage >= 85 * Unit

\* filter_portfolios_by_coverage and _by_tier; analyze has no --tier.
IsWanted(portfolio) ==
    /\ portfolio.coverage >= MinCoverage * Unit
    /\ kind = "analyze" \/ portfolio.tier <= MaxTier

\* Mutant: the cheaper portfolio goes first whatever it covers.
BetterByCost(p, q) == p.cost < q.cost

\* The key of sort_portfolios.
Better(p, q) ==
    \/ p.tier < q.tier
    \/ p.tier = q.tier /\ p.coverage > q.coverage
    \/ p.tier = q.tier /\ p.coverage = q.coverage /\ p.cost < q.cost
-----------------------------------------------------------------------------
(* scan, analyze *)

\* from_env() of a command.
StartCommand(k, ids) ==
    /\ StartReading(k, ids)
    /\ IF k \in {"scan", "scan query", "analyze"}
       THEN fixture' \in BOOLEAN /\ keyed' \in BOOLEAN
       ELSE UNCHANGED <<fixture, keyed>>
    /\ UNCHANGED <<tasks, portfolios>>

ReadMarkets == Reading /\ UNCHANGED <<fixture, keyed, tasks, portfolios>>

Others == Exchange /\ UNCHANGED <<fixture, keyed, tasks, portfolios>>

\* analyze: ids that are not both among the first markets are read one by one.
ReadPair ==
    /\ AllListed /\ kind = "analyze" /\ stage = "enrich"
    /\ \E n \in DOMAIN asked : \A i \in DOMAIN listed : listed[i].market # asked[n]
    /\ found' = asked /\ listed' = << >> /\ stage' = "details"
    /\ UNCHANGED <<ranking, risen, fallen, moves, kind, asked, page, result>>
    /\ UNCHANGED <<fixture, keyed, tasks, portfolios>>

\* The last summary of a market: {summary.id: summary for summary in left}.
SummaryOf(m) == listed[CHOOSE i \in DOMAIN listed :
                          listed[i].market = m /\ \A j \in DOMAIN listed : listed[j].market = m => j <= i]

\* A task for each market after the first; one market alone has no pair.
Pair ==
    /\ AllListed /\ kind \in {"scan", "scan query", "analyze"}
    /\ kind = "analyze" => \A n \in DOMAIN asked : \E i \in DOMAIN listed : listed[i].market = asked[n]
    /\ LET summaries == IF kind = "analyze" THEN [n \in 1..2 |-> SummaryOf(asked[n])] ELSE Listing IN
       /\ listed' = summaries
       /\ tasks' = [i \in 2..Len(summaries) |->
                       [at |-> "queued", client |-> "none", attempts |-> 0, end |-> None]]
    /\ stage' = "pair"
    /\ UNCHANGED <<ranking, risen, fallen, moves, kind, asked, page, found, result>>
    /\ UNCHANGED <<fixture, keyed, portfolios>>

Unmoved == UNCHANGED <<ranking, risen, fallen, moves, kind, asked, page, found, listed>>

\* Mutant: the semaphore is not released.
HoldersForGood == {i \in DOMAIN tasks : tasks[i].at # "queued"}

\* The tasks that hold the semaphore.
Holders == {i \in DOMAIN tasks : tasks[i].at = "asking"}

\* The semaphore is free and no task before this one waits for it.
MayBegin(i) ==
    /\ stage = "pair" /\ tasks[i].at = "queued"
    /\ Cardinality(Holders) < Workers
    /\ \A j \in DOMAIN tasks : tasks[j].at = "queued" => i <= j

Over(end) == [at |-> "over", client |-> "closed", attempts |-> 0, end |-> end]

\* _pair_portfolios begins: the fixture answers at once, a client without a
\* key refuses to ask and is closed.
Begin(i) ==
    /\ MayBegin(i)
    /\ tasks' = [tasks EXCEPT ![i] =
          IF fixture THEN [Over("implies") EXCEPT !.client = "none"]
          ELSE IF keyed THEN [@ EXCEPT !.at = "asking", !.client = "open"]
          ELSE Over("refused")]
    /\ Unmoved /\ UNCHANGED <<stage, result, fixture, keyed, portfolios>>

\* Mutant: no finally around the use of the client.
EndedOpen(end) == [Over(end) EXCEPT !.client = IF end \in Relations THEN "closed" ELSE "open"]

\* The use of the client ends, through "finally: await client.close()", and
\* the semaphore is released.
Ended(end) == Over(end)

\* Mutant: the last attempt is no exception.
NeverGivesUp(attempts) == FALSE

\* complete_json: the last attempt raises what went wrong with it.
GivesUp(attempts) == attempts = Attempts

\* The transport or the model reported an error: after a pause the task asks again.
AskedAgain(task) ==
    IF GivesUp(task.attempts + 1) THEN Ended("failed") ELSE [task EXCEPT !.attempts = @ + 1]

\* The model answers, unusably perhaps ("neither"); or the answer is not of the
\* expected form, an error no attempt repeats; or there is none.
Asked(i) ==
    /\ stage = "pair" /\ tasks[i].at = "asking"
    /\ \E task \in {Ended(end) : end \in Relations \union {"failed"}} \union {AskedAgain(tasks[i])} :
          tasks' = [tasks EXCEPT ![i] = task]
    /\ Unmoved /\ UNCHANGED <<stage, result, fixture, keyed, portfolios>>

\* What the answer of a task makes of its pair.
PortfolioFor(i) == PortfolioOf(listed[1], listed[i], SidesOf(tasks[i].end))

\* The tasks whose portfolios are offered and wanted.
Kept ==
    {i \in DOMAIN tasks :
        tasks[i].end # "neither" /\ IsOffered(PortfolioFor(i)) /\ IsWanted(PortfolioFor(i))}

\* sorted(), which keeps the order of equals.
Ahead(i) ==
    {j \in Kept : Better(PortfolioFor(j), PortfolioFor(i))
                  \/ (~Better(PortfolioFor(i), PortfolioFor(j)) /\ j < i)}

SortedPortfolios ==
    [n \in 1..Cardinality(Kept) |->
        PortfolioFor(CHOOSE i \in Kept : Cardinality(Ahead(i)) = n - 1)]

\* All tasks have returned: the command answers.
Gathered ==
    /\ stage = "pair"
    /\ \A i \in DOMAIN tasks : tasks[i].end \in Relations
    /\ portfolios' = SortedPortfolios
    /\ stage' = "done" /\ result' = "returned"
    /\ Unmoved /\ UNCHANGED <<fixture, keyed, tasks>>

\* A task being cancelled: one that waits for the semaphore never began, one
\* that uses its client closes it.
Cancelled(task) ==
    CASE task.at = "queued" -> [task EXCEPT !.at = "over", !.end = "cancelled"]
      [] task.at = "asking" -> Ended("cancelled")
      [] task.at = "over"   -> task

\* gather() raises the first error, a ConfigError is printed, and in either
\* case the loop cancels what is left before the command ends.
Raised(i) ==
    /\ stage = "pair" /\ tasks[i].end \in {"failed", "refused"}
    /\ result' = IF tasks[i].end = "refused" THEN "failed" ELSE "raised"
    /\ tasks' = [j \in DOMAIN tasks |-> Cancelled(tasks[j])]
    /\ stage' = "done"
    /\ Unmoved /\ UNCHANGED <<fixture, keyed, portfolios>>

TaskStep(i) == Begin(i) \/ Asked(i)

CommandStep ==
    \/ ReadMarkets \/ ReadPair \/ Pair \/ Gathered
    \/ \E i \in DOMAIN tasks : TaskStep(i) \/ Raised(i)

HedgingNext ==
    \/ \E k \in Kinds, ids \in UNION {[1..n -> Markets] : n \in 0..2} : StartCommand(k, ids)
    \/ Others \/ CommandStep

HedgingSpec == HedgingInit /\ [][HedgingNext]_hedge_vars
-----------------------------------------------------------------------------
(* Properties *)

\* At most Workers model clients are in use at a time, and none is left
\* unclosed when the command ends, not even one of a task that was cancelled
\* in the middle of a request (_scan_portfolios, _pair_portfolios).
ClientsAreClosed ==
    /\ Cardinality({i \in DOMAIN tasks : tasks[i].client = "open"}) <= Workers
    /\ stage = "done" => \A i \in DOMAIN tasks : tasks[i].client # "open"

\* Does the world, which gives each market its outcome, agree with what the
\* model said of the first market and another?
Agrees(world, first, other, relation) ==
    IF relation = "implies" THEN world[first] = "YES" => world[other] = "YES"
    ELSE world[other] = "YES" => world[first] = "YES"

\* In every world that agrees with what the model said of a pair one of the
\* two sides of its portfolio wins, so that a pair bought for less than 1 gains
\* (_relationship_from_payload, build_portfolio).
HedgesHold ==
    \A n \in DOMAIN portfolios : LET p == portfolios[n] IN
        \E i \in DOMAIN tasks :
            /\ listed[i].market = p.cover /\ tasks[i].end \in {"implied_by", "implies"}
            /\ \A world \in [Markets -> Sides] :
                  Agrees(world, p.target, p.cover, tasks[i].end) =>
                      world[p.target] = p.targetSide \/ world[p.cover] = p.coverSide

\* The answer has a portfolio for every pair the model found related and the
\* filters keep, best coverage first, then lowest cost, then in the order of the
\* listing (sort_portfolios; gather() returns the results in the order of the
\* tasks, so that the order they ended in plays no part).
RankingIsReproducible ==
    result = "returned" /\ DOMAIN tasks # {} =>
        /\ \A m, n \in DOMAIN portfolios : m < n =>
              LET p == portfolios[m]  q == portfolios[n] IN
              /\ p.coverage >= q.coverage
              /\ p.coverage = q.coverage => p.cost <= q.cost
              /\ p.coverage = q.coverage /\ p.cost = q.cost =>
                    \E i, j \in DOMAIN tasks :
                        i < j /\ listed[i].market = p.cover /\ listed[j].market = q.cover
        /\ \A i \in DOMAIN tasks :
              LET p == PortfolioFor(i) IN
              tasks[i].end # "neither" /\ IsOffered(p) /\ IsWanted(p) =>
                  \E n \in DOMAIN portfolios : portfolios[n] = p
=============================================================================
