------------------------------- MODULE Trading -------------------------------
(***************************************************************************)
(* TradeService.buy() over PredictApiClient: read the market, sign in,     *)
(* sign one order, post it, poll it, put the position in the journal.      *)
(* Every request goes through _request_json(), which repeats it after a    *)
(* transport error and after 429 or 5xx, the post of an order included.    *)
(*                                                                         *)
(* External: the exchange, which knows an order by its hash and answers    *)
(* what it likes, and the network, on which a request the client gave up   *)
(* can still arrive.  The journal is the one that PositionStorage          *)
(* implements for commands that do not wait for each other (Journal).      *)
(***************************************************************************)
EXTENDS Naturals, FiniteSets

CONSTANTS
    Buyers,       \* runs of the buy command
    PositionIds,
    Id,           \* the position id each buyer's market and outcome give
    Attempts,     \* retry_attempts
    Polls,        \* polls of an order: 15 in the code
    None

\* What buy() tells apart; a cancelled order counts as rejected.
Statuses == {"PENDING", "OPEN", "FILLED", "REJECTED"}

\* A signature over a fresh salt: the buyer and the number of its signing.
Hashes == Buyers \X (1..Attempts)

Order == [hash: Hashes, status: Statuses]

ASSUME TradingAssumption ==
    /\ Id \in [Buyers -> PositionIds]
    /\ Attempts \in Nat \ {0} /\ Polls \in Nat \ {0}
    /\ None \notin Hashes /\ None \notin Statuses /\ None \notin Buyers
    /\ None \notin [id: PositionIds, order: Order]

VARIABLES
    orders,   \* the exchange: status of each order it has
    late,     \* posts still on the way after the client gave up on them
    buy,      \* the buyers
    journal, history,  \* the journal, and whether writes to it overlapped
    latest    \* auxiliary: who stored each position last

vars == <<orders, late, buy, journal, history, latest>>

Calls == {"market", "book", "message", "jwt", "post", "poll"}

Reply == [kind: {"ok", "busy", "refused"}, status: Statuses \union {None}]

\* "wire" is the request under way, or the reply to it.
Buy == [at: {"idle", "ready", "waiting", "persist", "storing", "done", "error", "dead"},
        call: Calls, attempt: 0..Attempts, polls: 0..Polls,
        wire: Reply \union {None}, hash: Hashes \union {None},
        created: Statuses \union {None}, polled: Statuses \union {None}]

\* polled.status or created.status or "OPEN"
OrderStatus(polled, created) ==
    IF polled # None THEN polled ELSE IF created # None THEN created ELSE "OPEN"

\* The position buy() stores.
Position(b) ==
    [id |-> Id[b], order |-> [hash |-> buy[b].hash,
                              status |-> OrderStatus(buy[b].polled, buy[b].created)]]

\* Each buyer is a process of its own.
J == INSTANCE Journal WITH
    Orders <- Order, Writers <- Buyers, Processes <- Buyers, Home <- [b \in Buyers |-> b],
    Fixtures <- {},
    inside <- [b \in Buyers |-> IF buy[b].at = "storing" THEN Position(b) ELSE None]

TypeOK ==
    /\ orders \in [Hashes -> Statuses \union {None}]
    /\ late \in SUBSET Hashes
    /\ buy \in [Buyers -> Buy]
    /\ journal \in J!Journals /\ history \in J!Histories
    /\ latest \in [PositionIds -> Buyers \union {None}]

\* The locals of a buy that has not begun, or whose process has ended.
NoLocals(at) == [at |-> at, call |-> "market", attempt |-> 0, polls |-> 0, wire |-> None,
                 hash |-> None, created |-> None, polled |-> None]

Init ==
    /\ orders = [h \in Hashes |-> None]
    /\ late = {}
    /\ buy = [b \in Buyers |-> NoLocals("idle")]
    /\ J!Init
    /\ latest = [id \in PositionIds |-> None]

Running(b) == buy[b].at \notin {"idle", "done", "error", "dead"}
-----------------------------------------------------------------------------
(* _request_json *)

\* Mutant: an answer to the last attempt is not raised as an error.
OutcomeUnchecked(kind, attempt) ==
    CASE kind = "refused"                   -> "raise"
      [] kind = "busy" /\ attempt < Attempts -> "again"
      [] OTHER                               -> "return"

\* What becomes of a request: a lost one (transport error) and a busy answer
\* (429, 5xx) are repeated while attempts remain, another error is raised.
Outcome(kind, attempt) ==
    CASE kind \in {"lost", "busy"} /\ attempt < Attempts -> "again"
      [] kind = "ok"                                     -> "return"
      [] OTHER                                           -> "raise"

\* Mutant: every attempt signs the order again.
SignedHashPerAttempt(b, attempt) == <<b, attempt>>

\* buy() builds and signs the order once, before create_order().
SignedHash(b, attempt) == <<b, 1>>

Send(b) ==
    /\ buy[b].at = "ready"
    /\ LET attempt == buy[b].attempt + 1 IN
       buy' = [buy EXCEPT ![b] =
          [@ EXCEPT !.at = "waiting", !.attempt = attempt, !.wire = None,
                    !.hash = IF buy[b].call = "post" THEN SignedHash(b, attempt)
                             ELSE buy[b].hash]]
    /\ UNCHANGED <<orders, late, journal, history, latest>>

\* The request is repeated, or buy() ends with a PredictApiError.
Unanswered(b, kind) ==
    buy' = [buy EXCEPT ![b] =
        IF Outcome(kind, buy[b].attempt) = "again" THEN [@ EXCEPT !.at = "ready", !.wire = None]
        ELSE NoLocals("error")]

\* A post nobody has answered may still reach the exchange.
LeavesBehind(b) ==
    late' = IF buy[b].at = "waiting" /\ buy[b].call = "post" /\ buy[b].wire = None
            THEN late \union {buy[b].hash} ELSE late

\* httpx.HTTPError: a timeout, a lost connection, a lost answer.
TransportError(b) ==
    /\ buy[b].at = "waiting"
    /\ Unanswered(b, "lost")
    /\ LeavesBehind(b)
    /\ UNCHANGED <<orders, journal, history, latest>>

ErrorStatus(b) ==
    /\ buy[b].at = "waiting" /\ buy[b].wire # None
    /\ Outcome(buy[b].wire.kind, buy[b].attempt) # "return"
    /\ Unanswered(b, buy[b].wire.kind)
    /\ UNCHANGED <<orders, late, journal, history, latest>>
-----------------------------------------------------------------------------
(* buy *)

\* Configuration, amount or balance stop the buy before any request, or it
\* asks for the market.
Begin(b) ==
    /\ buy[b].at = "idle"
    /\ \E at \in {"error", "ready"} : buy' = [buy EXCEPT ![b].at = at]
    /\ UNCHANGED <<orders, late, journal, history, latest>>

\* The request that follows a successful one; a limit order needs no book,
\* and the token fetched for the post serves the polls too.
Following(call) ==
    CASE call = "market"  -> {"book", "message"}
      [] call = "book"    -> {"message"}
      [] call = "message" -> {"jwt"}
      [] call = "jwt"     -> {"post"}
      [] call = "post"    -> {"poll"}

\* Before the post every answer may also be unusable (an unknown outcome, an
\* empty book, a message that cannot be signed): buy() raises.
Returned(b) == /\ buy[b].at = "waiting" /\ buy[b].wire # None
               /\ Outcome(buy[b].wire.kind, buy[b].attempt) = "return"

Prepared(b) ==
    /\ Returned(b) /\ buy[b].call \in {"market", "book", "message", "jwt"}
    /\ \/ \E call \in Following(buy[b].call) :
             buy' = [buy EXCEPT ![b] = [@ EXCEPT !.at = "ready", !.call = call, !.attempt = 0,
                                                 !.wire = None]]
       \/ buy' = [buy EXCEPT ![b] = NoLocals("error")]
    /\ UNCHANGED <<orders, late, journal, history, latest>>

Created(b) ==
    /\ Returned(b) /\ buy[b].call = "post"
    /\ buy' = [buy EXCEPT ![b] = [@ EXCEPT
          !.at = "ready", !.call = "poll", !.attempt = 0, !.wire = None,
          !.created = buy[b].wire.status]]
    /\ UNCHANGED <<orders, late, journal, history, latest>>

\* Mutant: the order is polled until it is settled.
SettledOnly(polls, status) == status \in {"FILLED", "OPEN"}

\* The loop over get_order() ends.
Settled(polls, status) == status \in {"FILLED", "OPEN"} \/ polls = Polls

Polled(b) ==
    /\ Returned(b) /\ buy[b].call = "poll"
    /\ LET status == buy[b].wire.status
           polls == IF buy[b].polls = Polls THEN Polls ELSE buy[b].polls + 1 IN
       buy' = [buy EXCEPT ![b] = [@ EXCEPT
          !.at = IF Settled(polls, status) THEN "persist" ELSE "ready",
          !.attempt = 0, !.polls = polls, !.polled = status, !.wire = None]]
    /\ UNCHANGED <<orders, late, journal, history, latest>>

\* Mutant: only settled orders are stored.
PersistSettled(b) ==
    /\ buy[b].at = "persist"
    /\ IF buy[b].polled \in {"FILLED", "OPEN"}
       THEN buy' = [buy EXCEPT ![b].at = "storing"] /\ J!Enter(b, Position(b))
       ELSE buy' = [buy EXCEPT ![b].at = "done"] /\ UNCHANGED <<journal, history>>
    /\ UNCHANGED <<orders, late, latest>>

\* _persist_local_position() begins to store.
Persist(b) ==
    /\ buy[b].at = "persist"
    /\ buy' = [buy EXCEPT ![b].at = "storing"]
    /\ J!Enter(b, Position(b))
    /\ UNCHANGED <<orders, late, latest>>

\* upsert() returns, and buy() with the result.
Persisted(b) ==
    /\ buy[b].at = "storing"
    /\ buy' = [buy EXCEPT ![b].at = "done"]
    /\ J!Finish(b)
    /\ latest' = [latest EXCEPT ![Id[b]] = b]
    /\ UNCHANGED <<orders, late>>

\* replace() does not find the file another command moved: buy() raises.
PersistFails(b) ==
    /\ buy[b].at = "storing"
    /\ buy' = [buy EXCEPT ![b] = NoLocals("error")]
    /\ J!Fail(b)
    /\ UNCHANGED <<orders, late, latest>>

\* The command is killed.
Die(b) ==
    /\ Running(b)
    /\ buy' = [buy EXCEPT ![b] = NoLocals("dead")]
    /\ LeavesBehind(b)
    /\ J!Die(b)
    /\ UNCHANGED <<orders, latest>>
-----------------------------------------------------------------------------
(* The exchange and the network, as buy() uses them *)

\* The order with hash h is accepted; posted again it is the same order.
Accepted(h, status) == [orders EXCEPT ![h] = IF @ = None THEN status ELSE @]

Answer(b, kind, status) ==
    buy' = [buy EXCEPT ![b].wire = [kind |-> kind, status |-> status]]

\* Any request may be answered with an error, and reads with their data.
AnswerRead(b) ==
    /\ buy[b].at = "waiting" /\ buy[b].wire = None
    /\ \/ \E kind \in {"busy", "refused"} : Answer(b, kind, None)
       \/ buy[b].call \notin {"post", "poll"} /\ Answer(b, "ok", None)
       \/ /\ buy[b].call = "poll" /\ orders[buy[b].hash] # None
          /\ \E status \in {orders[buy[b].hash], None} : Answer(b, "ok", status)
    /\ UNCHANGED <<orders, late, journal, history, latest>>

\* A post is accepted; the answer may still be an error (of a gateway, or
\* because the order was there already).
AnswerPost(b) ==
    /\ buy[b].at = "waiting" /\ buy[b].wire = None /\ buy[b].call = "post"
    /\ \E status \in Statuses :
          /\ orders' = Accepted(buy[b].hash, status)
          /\ \/ \E told \in {orders'[buy[b].hash], None} : Answer(b, "ok", told)
             \/ Answer(b, "busy", None)
             \/ orders[buy[b].hash] # None /\ Answer(b, "refused", None)
    /\ UNCHANGED <<late, journal, history, latest>>

\* A post that was given up arrives, and is accepted or not.
LatePost(h) ==
    /\ h \in late
    /\ late' = late \ {h}
    /\ \/ \E status \in Statuses : orders' = Accepted(h, status)
       \/ UNCHANGED orders
    /\ UNCHANGED <<buy, journal, history, latest>>

\* An order is booked, filled, refused or cancelled.
OrderMoves(h) ==
    /\ \E status \in CASE orders[h] = "PENDING" -> {"OPEN", "FILLED", "REJECTED"}
                       [] orders[h] = "OPEN"    -> {"FILLED", "REJECTED"}
                       [] OTHER                 -> {} :
          orders' = [orders EXCEPT ![h] = status]
    /\ UNCHANGED <<late, buy, journal, history, latest>>

Client(b) ==
    \/ Send(b) \/ TransportError(b) \/ ErrorStatus(b)
    \/ Prepared(b) \/ Created(b) \/ Polled(b)
    \/ Persist(b) \/ Persisted(b) \/ PersistFails(b)

Next ==
    \/ \E b \in Buyers : Begin(b) \/ Client(b) \/ Die(b) \/ AnswerRead(b) \/ AnswerPost(b)
    \/ \E h \in Hashes : LatePost(h) \/ OrderMoves(h)

Spec == Init /\ [][Next]_vars

\* The command runs on: httpx ends a request that nobody answers.
LiveSpec == Spec /\ \A b \in Buyers : WF_vars(Client(b))
-----------------------------------------------------------------------------
\* Whatever was repeated, lost or late, a buy places one order: all its
\* posts carry one signature (create_order inside _request_json).
OneOrderPerBuy ==
    \A b \in Buyers : Cardinality({h \in Hashes : h[1] = b /\ orders[h] # None}) <= 1

\* A position in the journal stands for an order the exchange accepted: no
\* error answer lets buy() reach the journal.  One stored as filled is filled,
\* although the status was asked for earlier and defaults when the answers lack
\* it (_request_json, buy).  It is so of whatever is found there, also after
\* writes overlapped.
JournalIsTrue ==
    \A found \in J!Readable : \A i \in DOMAIN found : LET order == found[i].order IN
        /\ orders[order.hash] # None
        /\ order.status = "FILLED" => orders[order.hash] = "FILLED"

\* As long as no two commands were storing at the same time: an order that
\* buy() reported is in the journal, with the status reported, unless a later
\* buy stored the same position, and then the last of them is there: none is
\* lost to one that began earlier (_persist_local_position).  Two that store
\* at once may leave neither, and one of them may fail.
ReportedIsJournalled ==
    ~history.overlapped => \A b \in Buyers : buy[b].at = "done" =>
        \E c \in Buyers, i \in DOMAIN journal :
            c = latest[Id[b]] /\ buy[c].at = "done" /\ journal[i] = Position(c)

\* Every buy ends: attempts and polls are bounded, requests time out.
BuysEnd == \A b \in Buyers : buy[b].at # "idle" ~> buy[b].at \in {"idle", "done", "error", "dead"}
=============================================================================
