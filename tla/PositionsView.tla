---------------------------- MODULE PositionsView ----------------------------
(***************************************************************************)
(* PositionsService: "positions" and "position <id>" read the journal, then*)
(* the positions the exchange knows of, then a price for each, and show    *)
(* what belongs together as one position.  Meanwhile buys go on in other   *)
(* processes: an order fills first and is put in the journal later         *)
(* (Trading), which the listing may read in between (Journal).             *)
(*                                                                         *)
(* External: the exchange, and whoever trades there with the same account. *)
(***************************************************************************)
EXTENDS Markets

CONSTANTS
    Tokens,      \* outcomes traded; a position id stands for one of them
    Buys,        \* runs of the buy command
    Token,       \* what each of them buys
    Limited,     \* those with --limit-price
    Quantities,  \* shares it may order
    Cost,        \* what a share costs, in ticks
    Elsewhere    \* what trading elsewhere may leave of a token

Order == [quantity: Quantities, notional: Nat, filled: BOOLEAN]

ASSUME PositionsAssumption ==
    /\ Tokens \subseteq Markets \X Sides /\ Token \in [Buys -> Tokens]
    /\ Limited \subseteq Buys /\ Quantities \subseteq Nat \ {0} /\ Cost \in 0..Unit
    /\ None \notin Tokens /\ None \notin [id: Tokens, order: Order]
    /\ Elsewhere \subseteq [quantity: Nat, status: {"OPEN", "CLOSED"}] \union {None}

VARIABLES
    holdings,  \* the exchange: what the account has of each token
    buys,      \* the buys of this program
    journal, history,  \* the positions stored, and whether writes overlapped
    signed,    \* may the listing read the positions of the account?
    view,      \* the command that lists
    local, remote,  \* what it has read
    shown      \* what it makes of that

position_vars == <<holdings, buys, journal, history, signed, view, local, remote, shown>>

Holding == [quantity: Nat, status: {"OPEN", "CLOSED"}]

\* "of" is the token an answer is about, "token" the id it carries, if any.
Remote == [of: Tokens, token: Tokens \union {None}, quantity: Nat, status: {"OPEN", "CLOSED"}]

PositionView == [token: Tokens, source: {"tracked", "external"}, status: {"OPEN", "CLOSED"},
                 quantity: Nat, remote: Nat \union {None}, mark: Price, profit: Int \union {None}]

Buy == [at: {"idle", "posted", "storing", "stored", "stored late", "dead"},
        order: Order \union {None}]

Position(b) == [id |-> Token[b], order |-> buys[b].order]

\* Each buy is a process of its own.
J == INSTANCE Journal WITH
    PositionIds <- Tokens, Orders <- Order,
    Writers <- Buys, Processes <- Buys, Home <- [b \in Buys |-> b], Fixtures <- {},
    inside <- [b \in Buys |-> IF buys[b].at = "storing" THEN Position(b) ELSE None]

PositionsTypeOK ==
    /\ holdings \in [Tokens -> Holding \union {None}]
    /\ buys \in [Buys -> Buy] /\ journal \in J!Journals /\ history \in J!Histories
    /\ signed \in BOOLEAN
    /\ view \in [kind: {"list", "all", "show"} \union {None},
                 at: {"idle", "remote", "merge", "done"}, result: Results \union {None}]
    /\ local \in J!Journals /\ remote \in Seq(Remote) /\ shown \in Seq(PositionView)

PositionsInit ==
    /\ holdings = [t \in Tokens |-> None]
    /\ buys = [b \in Buys |-> [at |-> "idle", order |-> None]]
    /\ J!Init /\ signed = FALSE
    /\ view = [kind |-> None, at |-> "idle", result |-> None]
    /\ local = << >> /\ remote = << >> /\ shown = << >>
-----------------------------------------------------------------------------
(* What goes on meanwhile, until the listing has read all it compares *)

Meanwhile == view.at \in {"idle", "remote"} /\ UNCHANGED <<signed, view, local, remote, shown>>

\* An order is posted and bought as far as it can be at once.  The amount of the
\* command is stored as paid: of a limit order it is the number of shares.
Post(b, quantity, fill) ==
    /\ Meanwhile /\ buys[b].at = "idle"
    /\ buys' = [buys EXCEPT ![b] = [at |-> "posted",
          order |-> [quantity |-> quantity,
                     notional |-> quantity * IF b \in Limited THEN Unit ELSE Cost,
                     filled |-> fill = quantity]]]
    /\ LET t == Token[b]
           had == IF holdings[t] = None THEN 0 ELSE holdings[t].quantity IN
       holdings' = IF fill = 0 THEN holdings
                   ELSE [holdings EXCEPT ![t] = [quantity |-> had + fill, status |-> "OPEN"]]
    /\ UNCHANGED <<journal, history>>

\* _persist_local_position: the order is stored whatever became of it.
Store(b) ==
    /\ Meanwhile /\ buys[b].at = "posted"
    /\ buys' = [buys EXCEPT ![b].at = "storing"]
    /\ J!Enter(b, Position(b))
    /\ UNCHANGED holdings

Stored(b) ==
    /\ Meanwhile /\ buys[b].at = "storing"
    /\ buys' = [buys EXCEPT ![b].at = IF view.at = "idle" THEN "stored" ELSE "stored late"]
    /\ J!Finish(b)
    /\ UNCHANGED holdings

\* replace() does not find the file another buy moved.
StoreFails(b) ==
    /\ Meanwhile /\ buys[b].at = "storing"
    /\ buys' = [buys EXCEPT ![b].at = "dead"]
    /\ J!Fail(b)
    /\ UNCHANGED holdings

\* The buy fails or is killed.
Lose(b) ==
    /\ Meanwhile /\ buys[b].at \in {"posted", "storing"}
    /\ buys' = [buys EXCEPT ![b].at = "dead"]
    /\ J!Die(b)
    /\ UNCHANGED holdings

\* The market closes, or the holding is sold or bought elsewhere.
TradedElsewhere(t) ==
    /\ Meanwhile
    /\ \E left \in Elsewhere : holdings' = [holdings EXCEPT ![t] = left]
    /\ UNCHANGED <<buys, journal, history>>
-----------------------------------------------------------------------------
(* The listing *)

Unaffected == UNCHANGED <<holdings, buys, journal, history, signed>>

\* What storage.list_positions() may find.
Snapshot == J!Readable

\* from_env() or the refusal of pure vault mode ends the command, or it reads
\* the journal.
StartView(k) ==
    /\ view.at = "idle"
    /\ \/ view' = [kind |-> k, at |-> "done", result |-> "failed"] /\ UNCHANGED <<local, signed>>
       \/ /\ view' = [kind |-> k, at |-> "remote", result |-> None]
          /\ local' \in Snapshot /\ signed' \in BOOLEAN
    /\ UNCHANGED <<holdings, buys, journal, history, remote, shown>>

Held == {t \in Tokens : holdings[t] # None}

\* The answer of the exchange for what is held, in some order: some with the id
\* of their token, some without.
Answer(order, named) ==
    [i \in DOMAIN order |->
        [of |-> order[i], token |-> IF order[i] \in named THEN order[i] ELSE None,
         quantity |-> holdings[order[i]].quantity, status |-> holdings[order[i]].status]]

Answers ==
    LET orders == {o \in [1..Cardinality(Held) -> Held] : \A i, j \in DOMAIN o : o[i] = o[j] => i = j} IN
    {Answer(o, named) : o \in orders, named \in SUBSET Held}

\* _fetch_remote_positions: nothing without a signer.
ReadRemote ==
    /\ view.at = "remote"
    /\ IF signed THEN remote' \in Answers ELSE remote' = << >>
    /\ view' = [view EXCEPT !.at = "merge"]
    /\ Unaffected /\ UNCHANGED <<local, shown>>

\* _get_market_detail: a side of the book that is missing counts as a half.
\* (derive_mark_prices in Markets does it differently.)
MarksOfBook(q) ==
    LET ask == IF q.ask # None THEN q.ask ELSE Unit \div 2
        bid == IF q.bid # None THEN q.bid ELSE Unit \div 2 IN
    {(ask + bid) \div 2, (ask + bid + 1) \div 2}

\* _current_mark_price
MarksOf(t) == {IF t[2] = "YES" THEN yes ELSE Unit - yes :
                  yes \in UNION {MarksOfBook(q) : q \in Quotes[t[1]]}}

\* compute_pnl
Profit(quantity, mark, notional) == quantity * mark - notional

\* Mutant: a position is looked for by its market.
ByMarket(t) == {i \in DOMAIN remote : remote[i].token # None /\ remote[i].token[1] = t[1]}

\* remote_by_token
ByToken(t) == {i \in DOMAIN remote : remote[i].token = t}

\* The row of a stored position, at a price.
Tracked(position, mark) ==
    LET t == position.id
        known == ByToken(t)
        r == remote[CHOOSE i \in known : \A j \in known : j <= i]
        quantity == IF known # {} THEN r.quantity ELSE position.order.quantity IN
    [token |-> t, source |-> "tracked", status |-> IF known # {} THEN r.status ELSE "OPEN",
     quantity |-> position.order.quantity, remote |-> IF known # {} THEN r.quantity ELSE None,
     mark |-> mark, profit |-> Profit(quantity, mark, position.order.notional)]

\* The row of another position the exchange knows of.
External(r, mark) ==
    [token |-> r.of, source |-> "external", status |-> r.status, quantity |-> r.quantity,
     remote |-> r.quantity, mark |-> mark, profit |-> None]

\* Mutant: a remote position is external if no stored one was bought with it.
NotTrackedByQuantity(r) ==
    \A i \in DOMAIN local : local[i].id # r.token \/ local[i].order.quantity # r.quantity

\* remote.tokenId not in tracked_tokens
NotTracked(r) == \A i \in DOMAIN local : local[i].id # r.token

\* The remote positions that get a row of their own.
NewRows == Picked(remote, Ascending({i \in DOMAIN remote : NotTracked(remote[i])}))

AllMerged == Len(shown) = Len(local) + Len(NewRows)

\* _merge_positions: the next row, with the price of its market.
Merge ==
    /\ view.at = "merge" /\ ~AllMerged
    /\ LET n == Len(shown) + 1 IN
       IF n <= Len(local)
       THEN \E mark \in MarksOf(local[n].id) : shown' = Append(shown, Tracked(local[n], mark))
       ELSE LET r == NewRows[n - Len(local)] IN
            \E mark \in MarksOf(r.of) : shown' = Append(shown, External(r, mark))
    /\ Unaffected /\ UNCHANGED <<view, local, remote>>

\* list_positions, get_position (for an id that is there, or is not).
Present ==
    /\ view.at = "merge" /\ AllMerged
    /\ CASE view.kind = "all"  -> shown' = shown /\ view' = [view EXCEPT !.at = "done", !.result = "returned"]
         [] view.kind = "list" ->
               /\ shown' = Picked(shown, Ascending({n \in DOMAIN shown :
                               shown[n].source # "external" /\ shown[n].status = "OPEN"}))
               /\ view' = [view EXCEPT !.at = "done", !.result = "returned"]
         [] view.kind = "show" -> \E rows \in {<<shown[i]>> : i \in DOMAIN shown} \union {<< >>} :
               /\ shown' = rows
               /\ view' = [view EXCEPT !.at = "done",
                                       !.result = IF rows = << >> THEN "failed" ELSE "returned"]
    /\ Unaffected /\ UNCHANGED <<local, remote>>

\* A request fails; the journal cannot be read.
ViewFails ==
    /\ view.at \in {"remote", "merge"} /\ ~(view.at = "merge" /\ AllMerged)
    /\ view' = [view EXCEPT !.at = "done", !.result = "raised"]
    /\ Unaffected /\ UNCHANGED <<local, remote, shown>>

ViewStep == ReadRemote \/ Merge \/ Present \/ ViewFails

OtherBuys ==
    \/ \E b \in Buys : \/ \E q \in Quantities : \E fill \in 0..q : Post(b, q, fill)
                       \/ Store(b) \/ Stored(b) \/ StoreFails(b) \/ Lose(b)
    \/ \E t \in Tokens : TradedElsewhere(t)

PositionsNext == OtherBuys \/ (\E k \in {"list", "all", "show"} : StartView(k)) \/ ViewStep

PositionsSpec == PositionsInit /\ [][PositionsNext]_position_vars
-----------------------------------------------------------------------------
(* Properties *)

Returned == view.result = "returned"

\* Nothing is listed twice, once as stored and once as the exchange has it, as
\* long as the exchange names its token (_merge_positions: tracked_tokens),
\* whatever the journal holds; and nothing is lost between the two readings: as
\* long as no two buys were storing at the same time (storing is not atomic
\* between processes: PositionStorage), a buy that was stored before the listing
\* began is listed as a tracked position, whatever was bought, stored, sold or
\* closed since, unless the exchange says that the market is closed
\* (list_positions).
EachPositionOnce ==
    /\ \A m, n \in DOMAIN shown : shown[m].token = shown[n].token /\ m # n =>
        \E i \in DOMAIN remote : remote[i].of = shown[m].token /\ remote[i].token = None
    /\ Returned /\ view.kind # "show" /\ ~history.overlapped =>
        \A b \in Buys : buys[b].at = "stored" =>
           \/ \E n \in DOMAIN shown : shown[n].token = Token[b] /\ shown[n].source = "tracked"
           \/ view.kind = "list" /\ holdings[Token[b]] # None
              /\ holdings[Token[b]].status = "CLOSED"

\* The profit of a position the exchange knows of, if it was bought once and
\* the order was filled: for a market order what the account holds is worth,
\* less what was paid; for a limit order never more than that, as the number
\* of its shares is stored as the amount, 1 USDT for each (buy: notional_usdt).
\* (compute_pnl takes the quantity of the exchange and the amount of the last
\* buy that was stored: after a second buy, or a partial one, they differ.)
ProfitIsOfTheHolding ==
    \A n \in DOMAIN shown, b \in Buys :
        /\ shown[n].source = "tracked" /\ shown[n].remote # None
        /\ Token[b] = shown[n].token /\ buys[b].at # "idle" /\ buys[b].order.filled
        /\ \A c \in Buys \ {b} : Token[c] = Token[b] => buys[c].at = "idle"
        => LET gain == holdings[Token[b]].quantity * shown[n].mark - buys[b].order.quantity * Cost
           IN  IF b \in Limited THEN shown[n].profit <= gain ELSE shown[n].profit = gain
=============================================================================
