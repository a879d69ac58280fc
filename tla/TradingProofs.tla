---------------------------- MODULE TradingProofs ----------------------------
(***************************************************************************)
(* One order per buy, and a journal that tells the truth, for any number   *)
(* of buyers, attempts and polls.  What carries the proof is that a buy    *)
(* signs once: every order and every late post has the first signature of  *)
(* its buyer, and the exchange forgets no order and undoes no fill.        *)
(***************************************************************************)
EXTENDS Trading, SequenceTheorems, FiniteSetTheorems, WellFoundedInduction, TLAPS

Signature(b) == <<b, 1>>

FirstSigned == {h \in Hashes : h[2] = 1}

\* A buyer was told that its order is filled.
ToldFilled(w) ==
    \/ w.created = "FILLED" \/ w.polled = "FILLED"
    \/ w.wire # None /\ w.wire.status = "FILLED"

\* What buyer b holds and believes is so at the exchange.
Truthful(b) ==
    /\ buy[b].at \in {"idle", "ready"} => buy[b].attempt < Attempts
    /\ buy[b].hash \in {None, Signature(b)}
    /\ buy[b].at = "waiting" /\ buy[b].call = "post" =>
          /\ buy[b].hash = Signature(b)
          /\ buy[b].wire # None /\ buy[b].wire.kind = "ok" => orders[Signature(b)] # None
    /\ buy[b].call = "poll" \/ buy[b].at \in {"persist", "storing", "done"} =>
          buy[b].hash = Signature(b) /\ orders[Signature(b)] # None
    /\ ToldFilled(buy[b]) => orders[Signature(b)] = "FILLED"

\* What a position says of its order is so.
SaysTheTruth(position) ==
    /\ orders[position.order.hash] # None
    /\ position.order.status = "FILLED" => orders[position.order.hash] = "FILLED"

\* What is handed to the journal is true, and the journal holds nothing else.
HandedIsTrue ==
    /\ \A position \in history.handed : SaysTheTruth(position)
    /\ \A i \in DOMAIN journal : journal[i] \in history.handed
    /\ \A b \in Buyers : buy[b].at = "storing" => Position(b) \in history.handed

\* The buyer that stored a position last stored that one.
LatestStoredIt == \A id \in PositionIds : latest[id] # None => Id[latest[id]] = id

TradingInv ==
    /\ TypeOK
    /\ late \subseteq FirstSigned
    /\ \A h \in Hashes : orders[h] # None => h \in FirstSigned
    /\ \A b \in Buyers : Truthful(b)
    /\ HandedIsTrue /\ LatestStoredIt /\ ReportedIsJournalled
-----------------------------------------------------------------------------
(* The data *)

\* Values of different kinds are told apart by their names.
LEMMA Signatures ==
    ASSUME NEW b \in Buyers
    PROVE  /\ Signature(b) \in Hashes /\ Signature(b) \in FirstSigned
           /\ Signature(b) # None
           /\ \A h \in FirstSigned : h[1] = b => h = Signature(b)
BY TradingAssumption DEF Signature, Hashes, FirstSigned

LEMMA NoneIsNoStatus == \A s \in Statuses : s # None
BY TradingAssumption

\* What upsert() leaves in a journal (upsert).
LEMMA UpsertedKeeps ==
    ASSUME NEW j \in J!Journals, NEW p \in J!LocalPosition
    PROVE  /\ J!Upserted(j, p) \in J!Journals
           /\ \E i \in DOMAIN J!Upserted(j, p) : J!Upserted(j, p)[i] = p
           /\ \A i \in DOMAIN J!Upserted(j, p) :
                J!Upserted(j, p)[i] = p \/ (i \in DOMAIN j /\ J!Upserted(j, p)[i] = j[i])
           /\ \A i \in DOMAIN j : j[i].id # p.id =>
                i \in DOMAIN J!Upserted(j, p) /\ J!Upserted(j, p)[i] = j[i]
<1>0. j \in Seq(J!LocalPosition) /\ DOMAIN j = 1..Len(j) /\ Len(j) \in Nat
  BY DEF J!Journals
<1>1. CASE J!Holds(j, p.id)
  <2> DEFINE T == {i \in DOMAIN j : j[i].id = p.id}
  <2> DEFINE first == J!FirstIndex(j, p.id)
  <2>1. T \subseteq Nat /\ T # {}
    BY <1>0, <1>1 DEF J!Holds
  <2>2. PICK x \in T : \A y \in T : x <= y
    <3>1. PICK x \in T : \A y \in T : ~(<<y, x>> \in OpToRel(<, Nat))
      BY <2>1, NatLessThanWellFounded, WFMin
    <3>2. ASSUME NEW y \in T PROVE x <= y
      <4>1. x \in Nat /\ y \in Nat /\ ~(<<y, x>> \in OpToRel(<, Nat))
        BY <2>1, <3>1
      <4> QED BY <4>1 DEF OpToRel
    <3> QED BY <3>2
  <2>3. first \in DOMAIN j /\ j[first].id = p.id
    BY <2>2 DEF J!FirstIndex
  <2>4. J!Upserted(j, p) = [j EXCEPT ![first] = p]
    BY <1>1 DEF J!Upserted
  <2> HIDE DEF first
  <2>5. [j EXCEPT ![first] = p] \in Seq(J!LocalPosition)
    BY <1>0, <2>3, ExceptSeq
  <2> QED BY <2>3, <2>4, <2>5 DEF J!Journals
<1>2. CASE ~J!Holds(j, p.id)
  <2>1. J!Upserted(j, p) = Append(j, p)
    BY <1>2 DEF J!Upserted
  <2>2. /\ Append(j, p) \in Seq(J!LocalPosition) /\ Len(Append(j, p)) = Len(j) + 1
        /\ Append(j, p)[Len(j) + 1] = p
        /\ \A i \in 1..Len(j) : Append(j, p)[i] = j[i]
    BY <1>0, AppendProperties
  <2>3. DOMAIN Append(j, p) = 1..(Len(j) + 1)
    BY <2>2
  <2> QED BY <1>0, <2>1, <2>2, <2>3 DEF J!Journals
<1> QED BY <1>1, <1>2
-----------------------------------------------------------------------------
(* A step *)

\* No order is forgotten, no fill undone.
Remembers ==
    /\ orders' \in [Hashes -> Statuses \union {None}]
    /\ \A h \in Hashes :
          /\ orders[h] # None => orders'[h] # None
          /\ orders[h] = "FILLED" => orders'[h] = "FILLED"
          /\ orders'[h] # None => orders[h] # None \/ h \in FirstSigned

LEMMA RememberedOrder ==
    ASSUME Remembers, NEW h \in Hashes
    PROVE  /\ orders[h] # None => orders'[h] # None
           /\ orders[h] = "FILLED" => orders'[h] = "FILLED"
           /\ orders'[h] # None => orders[h] # None \/ h \in FirstSigned
BY DEF Remembers

\* The orders of no step but one of the exchange change.
LEMMA SameOrdersRemembered ==
    ASSUME TypeOK, orders' = orders
    PROVE  Remembers
BY DEF TypeOK, Remembers

\* An accepted order is there, as what it was or as what it was taken for.
LEMMA AcceptedIsRemembered ==
    ASSUME TypeOK, NEW h \in FirstSigned, NEW status \in Statuses, orders' = Accepted(h, status)
    PROVE  Remembers /\ orders'[h] \in Statuses
<1>1. h \in Hashes /\ orders \in [Hashes -> Statuses \union {None}]
  BY DEF FirstSigned, TypeOK
<1>2. orders' = [orders EXCEPT ![h] = IF orders[h] = None THEN status ELSE orders[h]]
  BY DEF Accepted
<1>3. orders'[h] \in Statuses /\ \A g \in Hashes \ {h} : orders'[g] = orders[g]
  BY <1>1, <1>2
<1>4. orders[h] # None => orders'[h] = orders[h]
  BY <1>1, <1>2
<1>5. orders' \in [Hashes -> Statuses \union {None}]
  BY <1>1, <1>2
<1>6. ASSUME NEW g \in Hashes
      PROVE  /\ orders[g] # None => orders'[g] # None
             /\ orders[g] = "FILLED" => orders'[g] = "FILLED"
             /\ orders'[g] # None => orders[g] # None \/ g \in FirstSigned
  <2>1. "FILLED" # None
    BY NoneIsNoStatus DEF Statuses
  <2>2. CASE g = h
    BY <1>3, <1>4, <2>1, <2>2, NoneIsNoStatus
  <2>3. CASE g # h
    BY <1>3, <2>3
  <2> QED BY <2>2, <2>3
<1> QED BY <1>3, <1>5, <1>6 DEF Remembers

LEMMA MovesAreRemembered ==
    ASSUME TypeOK, NEW h \in Hashes, OrderMoves(h)
    PROVE  Remembers
<1>1. PICK status : /\ status \in CASE orders[h] = "PENDING" -> {"OPEN", "FILLED", "REJECTED"}
                                    [] orders[h] = "OPEN"    -> {"FILLED", "REJECTED"}
                                    [] OTHER                 -> {}
                    /\ orders' = [orders EXCEPT ![h] = status]
  BY DEF OrderMoves
<1>2. orders[h] \in {"PENDING", "OPEN"} /\ status \in {"OPEN", "FILLED", "REJECTED"}
  BY <1>1
<1>3. "PENDING" \in Statuses /\ "OPEN" \in Statuses /\ status \in Statuses
  BY <1>2 DEF Statuses
<1> QED BY <1>1, <1>2, <1>3, NoneIsNoStatus DEF Remembers, TypeOK

\* Buyer b takes a step that does not report: it becomes w, the others stay.
Becomes(b, w) ==
    /\ w \in Buy
    /\ buy' = [buy EXCEPT ![b] = w]
    /\ buy[b].at # "done" /\ w.at \notin {"storing", "done"}
    /\ UNCHANGED <<journal, history, latest>>
    /\ late' \subseteq FirstSigned
    /\ Remembers

LEMMA OthersStayTruthful ==
    ASSUME TradingInv, Remembers, NEW b \in Buyers, buy'[b] = buy[b]
    PROVE  Truthful(b)'
<1>1. Truthful(b) /\ Signature(b) \in Hashes
  BY Signatures DEF TradingInv
<1>2. /\ orders[Signature(b)] # None => orders'[Signature(b)] # None
      /\ orders[Signature(b)] = "FILLED" => orders'[Signature(b)] = "FILLED"
  BY <1>1, RememberedOrder
<1>3. Signature(b)' = Signature(b)
  BY DEF Signature
<1> QED BY <1>1, <1>2, <1>3 DEF Truthful, ToldFilled

\* What was true stays true.
LEMMA StaysTrue ==
    ASSUME TypeOK, Remembers, NEW position \in J!LocalPosition, SaysTheTruth(position)
    PROVE  SaysTheTruth(position)'
<1>1. position.order.hash \in Hashes
  BY DEF J!LocalPosition, Order
<1> QED BY <1>1, RememberedOrder DEF SaysTheTruth

LEMMA HandedStaysTrue ==
    ASSUME TradingInv, Remembers, NEW position \in history.handed
    PROVE  position \in J!LocalPosition /\ SaysTheTruth(position) /\ SaysTheTruth(position)'
<1>1. position \in J!LocalPosition
  BY DEF TradingInv, TypeOK, J!Histories
<1> QED BY <1>1, StaysTrue DEF TradingInv, HandedIsTrue

\* What was reported stays so while nobody reports.
LEMMA QuietReports ==
    ASSUME ReportedIsJournalled, UNCHANGED <<journal, history, latest>>,
           \A c \in Buyers : buy[c].at = "done" \/ buy'[c].at = "done" => buy'[c] = buy[c]
    PROVE  ReportedIsJournalled'
<1> SUFFICES ASSUME ~history.overlapped, NEW b \in Buyers, buy'[b].at = "done"
             PROVE  \E c \in Buyers, i \in DOMAIN journal :
                       c = latest[Id[b]] /\ buy'[c].at = "done" /\ journal[i] = Position(c)'
  BY DEF ReportedIsJournalled
<1>1. PICK c \in Buyers, i \in DOMAIN journal :
          c = latest[Id[b]] /\ buy[c].at = "done" /\ journal[i] = Position(c)
  BY DEF ReportedIsJournalled
<1> QED BY <1>1 DEF Position

LEMMA QuietKeepsInv ==
    ASSUME TradingInv, NEW b \in Buyers, NEW w, Becomes(b, w), Truthful(b)'
    PROVE  TradingInv'
<1>1. /\ buy \in [Buyers -> Buy] /\ buy' \in [Buyers -> Buy] /\ buy'[b] = w
      /\ \A c \in Buyers \ {b} : buy'[c] = buy[c]
  BY DEF TradingInv, TypeOK, Becomes
<1>2. TypeOK'
  BY <1>1 DEF TradingInv, TypeOK, Becomes, Remembers, FirstSigned
<1>3. \A c \in Buyers : Truthful(c)'
  BY <1>1, OthersStayTruthful DEF Becomes
<1>4. HandedIsTrue'
  BY <1>1, HandedStaysTrue DEF TradingInv, HandedIsTrue, Becomes, Position
<1>5. LatestStoredIt' /\ ReportedIsJournalled'
  BY <1>1, QuietReports DEF TradingInv, LatestStoredIt, Becomes
<1>6. late' \subseteq FirstSigned /\ \A h \in Hashes : orders'[h] # None => h \in FirstSigned
  BY RememberedOrder DEF TradingInv, Becomes
<1> QED BY <1>2, <1>3, <1>4, <1>5, <1>6 DEF TradingInv
-----------------------------------------------------------------------------
(* The buyers *)

\* The fields of a buyer.
LEMMA BuyFields ==
    ASSUME TypeOK, NEW b \in Buyers
    PROVE  /\ buy[b] \in Buy /\ buy \in [Buyers -> Buy]
           /\ buy[b].attempt \in 0..Attempts /\ buy[b].polls \in 0..Polls
           /\ buy[b].wire \in Reply \union {None}
           /\ buy[b].wire # None => buy[b].wire.status \in Statuses \union {None}
           /\ buy[b].created \in Statuses \union {None}
           /\ buy[b].polled \in Statuses \union {None}
<1>1. buy[b] \in Buy /\ buy \in [Buyers -> Buy]
  BY DEF TypeOK
<1>2. /\ buy[b].attempt \in 0..Attempts /\ buy[b].polls \in 0..Polls
      /\ buy[b].wire \in Reply \union {None}
      /\ buy[b].created \in Statuses \union {None}
      /\ buy[b].polled \in Statuses \union {None}
  BY <1>1 DEF Buy
<1>3. buy[b].wire # None => buy[b].wire.status \in Statuses \union {None}
  BY <1>2 DEF Reply
<1> QED BY <1>1, <1>2, <1>3

LEMMA NoAttempts == 0 < Attempts /\ 0 \in 0..Attempts
BY TradingAssumption

\* A buyer without locals, or with nothing on the wire, has nothing to prove.
LEMMA NoLocalsIsBuy ==
    ASSUME NEW at \in {"error", "dead"}
    PROVE  /\ NoLocals(at) \in Buy
           /\ NoLocals(at).at = at /\ NoLocals(at).call = "market" /\ NoLocals(at).hash = None
           /\ NoLocals(at).wire = None /\ NoLocals(at).created = None
           /\ NoLocals(at).polled = None
<1>1. 0 \in 0..Attempts /\ 0 \in 0..Polls
  BY TradingAssumption
<1> QED BY <1>1 DEF NoLocals, Buy, Calls

LEMMA NoLocalsIsTruthful ==
    ASSUME TypeOK, NEW b \in Buyers, NEW at \in {"error", "dead"},
           buy' = [buy EXCEPT ![b] = NoLocals(at)]
    PROVE  Truthful(b)'
<1>1. buy'[b] = NoLocals(at)
  BY DEF TypeOK
<1>2. None # "FILLED"
  BY NoneIsNoStatus DEF Statuses
<1> QED BY <1>1, <1>2, NoLocalsIsBuy DEF Truthful, ToldFilled

\* What is left behind has the buyer's only signature.
LEMMA LeftBehind ==
    ASSUME TradingInv, NEW b \in Buyers, LeavesBehind(b)
    PROVE  late' \subseteq FirstSigned
<1>1. late \subseteq FirstSigned /\ Truthful(b)
  BY DEF TradingInv
<1>2. CASE buy[b].at = "waiting" /\ buy[b].call = "post" /\ buy[b].wire = None
  <2>1. late' = late \union {Signature(b)}
    BY <1>1, <1>2 DEF LeavesBehind, Truthful
  <2> QED BY <1>1, <2>1, Signatures
<1>3. CASE ~(buy[b].at = "waiting" /\ buy[b].call = "post" /\ buy[b].wire = None)
  BY <1>1, <1>3 DEF LeavesBehind
<1> QED BY <1>2, <1>3

\* The request is repeated or the buy ends.
LEMMA UnansweredKeepsInv ==
    ASSUME TradingInv, NEW b \in Buyers, NEW kind, Unanswered(b, kind), buy[b].at = "waiting",
           late' \subseteq FirstSigned, UNCHANGED <<orders, journal, history, latest>>
    PROVE  TradingInv'
<1>0. TypeOK /\ Truthful(b) /\ Remembers
  BY SameOrdersRemembered DEF TradingInv
<1>1. CASE Outcome(kind, buy[b].attempt) = "again"
  <2> DEFINE w == [buy[b] EXCEPT !.at = "ready", !.wire = None]
  <2>1. buy' = [buy EXCEPT ![b] = w]
    BY <1>1 DEF Unanswered
  <2>2. /\ w \in Buy /\ w.at = "ready" /\ w.wire = None /\ w.hash = buy[b].hash
        /\ w.call = buy[b].call /\ w.created = buy[b].created /\ w.polled = buy[b].polled
        /\ w.attempt = buy[b].attempt
    BY <1>0, BuyFields DEF Buy
  <2>3. buy'[b] = w
    BY <1>0, <2>1, BuyFields
  <2> HIDE DEF w
  <2>4. buy[b].attempt < Attempts
    BY <1>1 DEF Outcome
  <2>5. Truthful(b)'
    BY <1>0, <2>2, <2>3, <2>4 DEF Truthful, ToldFilled, Signature
  <2>6. Becomes(b, w)
    BY <1>0, <2>1, <2>2 DEF Becomes
  <2> QED BY <2>5, <2>6, QuietKeepsInv
<1>2. CASE Outcome(kind, buy[b].attempt) # "again"
  <2>1. buy' = [buy EXCEPT ![b] = NoLocals("error")]
    BY <1>2 DEF Unanswered
  <2>2. Becomes(b, NoLocals("error")) /\ Truthful(b)'
    BY <1>0, <2>1, NoLocalsIsBuy, NoLocalsIsTruthful DEF Becomes
  <2> QED BY <2>2, QuietKeepsInv
<1> QED BY <1>1, <1>2

\* What a buyer that changes to w has to show.
LEMMA ChangedKeepsInv ==
    ASSUME TradingInv, NEW b \in Buyers, NEW w \in Buy, buy' = [buy EXCEPT ![b] = w],
           buy[b].at # "done", w.at \notin {"storing", "done"}, w.at = "persist" => w.call = "poll",
           w.at = "ready" => w.attempt < Attempts, w.at # "idle",
           UNCHANGED <<journal, history, latest>>, late' \subseteq FirstSigned, Remembers,
           w.hash \in {None, Signature(b)},
           w.at = "waiting" /\ w.call = "post" =>
              /\ w.hash = Signature(b)
              /\ w.wire # None /\ w.wire.kind = "ok" => orders'[Signature(b)] # None,
           w.call = "poll" => w.hash = Signature(b) /\ orders'[Signature(b)] # None,
           ToldFilled(w) => orders'[Signature(b)] = "FILLED"
    PROVE  TradingInv'
<1>1. buy'[b] = w
  BY DEF TradingInv, TypeOK
<1>2. Becomes(b, w)
  BY DEF Becomes
<1>3. Truthful(b)'
  BY <1>1 DEF Truthful, ToldFilled, Signature
<1> QED BY <1>2, <1>3, QuietKeepsInv

LEMMA BeginKeepsInv ==
    ASSUME TradingInv, NEW b \in Buyers, Begin(b)
    PROVE  TradingInv'
<1>0. TypeOK /\ Truthful(b) /\ Remembers /\ late' \subseteq FirstSigned /\ buy[b].at = "idle"
  BY SameOrdersRemembered DEF TradingInv, Begin
<1>1. PICK at \in {"error", "ready"} : buy' = [buy EXCEPT ![b].at = at]
  BY DEF Begin
<1> DEFINE w == [buy[b] EXCEPT !.at = at]
<1>2. buy' = [buy EXCEPT ![b] = w]
  BY <1>0, <1>1, BuyFields
<1>3. /\ w \in Buy /\ w.at = at /\ w.hash = buy[b].hash /\ w.wire = buy[b].wire
      /\ w.call = buy[b].call /\ w.created = buy[b].created /\ w.polled = buy[b].polled
      /\ w.attempt = buy[b].attempt
  BY <1>0, BuyFields DEF Buy
<1>4. UNCHANGED <<journal, history, latest, orders>>
  BY DEF Begin
<1> HIDE DEF w
<1> QED BY <1>0, <1>2, <1>3, <1>4, ChangedKeepsInv DEF Truthful, ToldFilled

LEMMA SendKeepsInv ==
    ASSUME TradingInv, NEW b \in Buyers, Send(b)
    PROVE  TradingInv'
<1>0. TypeOK /\ Truthful(b) /\ Remembers /\ late' \subseteq FirstSigned /\ buy[b].at = "ready"
  BY SameOrdersRemembered DEF TradingInv, Send
<1> DEFINE w == [buy[b] EXCEPT !.at = "waiting", !.attempt = buy[b].attempt + 1, !.wire = None,
                               !.hash = IF buy[b].call = "post"
                                        THEN SignedHash(b, buy[b].attempt + 1)
                                        ELSE buy[b].hash]
<1>1. buy' = [buy EXCEPT ![b] = w]
  BY DEF Send
<1>2. SignedHash(b, buy[b].attempt + 1) = Signature(b)
  BY DEF SignedHash, Signature
<1>3. buy[b].attempt + 1 \in 0..Attempts
  BY <1>0, BuyFields, TradingAssumption DEF Truthful
<1>4. /\ w \in Buy /\ w.at = "waiting" /\ w.wire = None /\ w.call = buy[b].call
      /\ w.created = buy[b].created /\ w.polled = buy[b].polled
      /\ w.call = "post" => w.hash = Signature(b)
      /\ w.call # "post" => w.hash = buy[b].hash
  BY <1>0, <1>2, <1>3, BuyFields, Signatures DEF Buy
<1>5. UNCHANGED <<journal, history, latest, orders>>
  BY DEF Send
<1> HIDE DEF w
<1> QED BY <1>0, <1>1, <1>4, <1>5, ChangedKeepsInv DEF Truthful, ToldFilled

LEMMA PreparedKeepsInv ==
    ASSUME TradingInv, NEW b \in Buyers, Prepared(b)
    PROVE  TradingInv'
<1>0. TypeOK /\ Truthful(b) /\ Remembers /\ late' \subseteq FirstSigned /\ buy[b].at = "waiting"
  BY SameOrdersRemembered DEF TradingInv, Prepared, Returned
<1>1. UNCHANGED <<journal, history, latest, orders>>
      /\ buy[b].call \in {"market", "book", "message", "jwt"}
  BY DEF Prepared
<1>2. ASSUME NEW call \in Following(buy[b].call),
             buy' = [buy EXCEPT ![b] = [buy[b] EXCEPT !.at = "ready", !.call = call,
                                                      !.attempt = 0, !.wire = None]]
      PROVE  TradingInv'
  <2> DEFINE w == [buy[b] EXCEPT !.at = "ready", !.call = call, !.attempt = 0, !.wire = None]
  <2>1. call \in Calls /\ call # "poll"
    BY <1>1 DEF Following, Calls
  <2>2. /\ w \in Buy /\ w.at = "ready" /\ w.wire = None /\ w.call = call /\ w.attempt = 0
        /\ w.created = buy[b].created /\ w.polled = buy[b].polled /\ w.hash = buy[b].hash
    BY <1>0, <2>1, BuyFields, NoAttempts DEF Buy
  <2>3. buy' = [buy EXCEPT ![b] = w] /\ 0 < Attempts
    BY <1>2, NoAttempts
  <2> HIDE DEF w
  <2> QED BY <1>0, <1>1, <2>1, <2>2, <2>3, ChangedKeepsInv DEF Truthful, ToldFilled
<1>3. ASSUME buy' = [buy EXCEPT ![b] = NoLocals("error")]
      PROVE  TradingInv'
  BY <1>0, <1>1, <1>3, NoLocalsIsBuy, NoLocalsIsTruthful, QuietKeepsInv DEF Becomes
<1> QED BY <1>2, <1>3 DEF Prepared

LEMMA OnlyOkReturns ==
    ASSUME NEW kind, NEW attempt, Outcome(kind, attempt) = "return"
    PROVE  kind = "ok"
BY DEF Outcome

LEMMA CreatedKeepsInv ==
    ASSUME TradingInv, NEW b \in Buyers, Created(b)
    PROVE  TradingInv'
<1>0. TypeOK /\ Truthful(b) /\ Remembers /\ late' \subseteq FirstSigned
      /\ buy[b].at = "waiting" /\ buy[b].call = "post" /\ buy[b].wire # None
      /\ buy[b].wire.kind = "ok"
  BY SameOrdersRemembered, OnlyOkReturns DEF TradingInv, Created, Returned
<1> DEFINE w == [buy[b] EXCEPT !.at = "ready", !.call = "poll", !.attempt = 0, !.wire = None,
                               !.created = buy[b].wire.status]
<1>1. UNCHANGED <<journal, history, latest, orders>> /\ buy' = [buy EXCEPT ![b] = w]
  BY DEF Created
<1>2. /\ w \in Buy /\ w.at = "ready" /\ w.wire = None /\ w.call = "poll" /\ w.attempt = 0
      /\ w.created = buy[b].wire.status /\ w.polled = buy[b].polled /\ w.hash = buy[b].hash
  BY <1>0, BuyFields, NoAttempts DEF Buy, Calls
<1>3. 0 < Attempts
  BY NoAttempts
<1> HIDE DEF w
<1> QED BY <1>0, <1>1, <1>2, <1>3, ChangedKeepsInv DEF Truthful, ToldFilled

LEMMA PolledKeepsInv ==
    ASSUME TradingInv, NEW b \in Buyers, Polled(b)
    PROVE  TradingInv'
<1>0. TypeOK /\ Truthful(b) /\ Remembers /\ late' \subseteq FirstSigned
      /\ buy[b].at = "waiting" /\ buy[b].call = "poll" /\ buy[b].wire # None
  BY SameOrdersRemembered DEF TradingInv, Polled, Returned
<1> DEFINE status == buy[b].wire.status
<1> DEFINE polls == IF buy[b].polls = Polls THEN Polls ELSE buy[b].polls + 1
<1> DEFINE at == IF Settled(polls, status) THEN "persist" ELSE "ready"
<1>1. polls \in 0..Polls /\ at \in {"persist", "ready"} /\ 0 < Attempts /\ 0 \in 0..Attempts
      /\ status \in Statuses \union {None}
  BY <1>0, BuyFields, TradingAssumption
<1> DEFINE w == [buy[b] EXCEPT !.at = at, !.attempt = 0, !.polls = polls, !.polled = status,
                               !.wire = None]
<1>2. UNCHANGED <<journal, history, latest, orders>> /\ buy' = [buy EXCEPT ![b] = w]
  BY DEF Polled
<1> HIDE DEF status, polls, at
<1>3. /\ w \in Buy /\ w.at = at /\ w.wire = None /\ w.call = "poll" /\ w.attempt = 0
      /\ w.created = buy[b].created /\ w.polled = status /\ w.hash = buy[b].hash
  BY <1>0, <1>1, BuyFields DEF Buy
<1> HIDE DEF w
<1> QED BY <1>0, <1>1, <1>2, <1>3, ChangedKeepsInv DEF Truthful, ToldFilled, status

LEMMA DieKeepsInv ==
    ASSUME TradingInv, NEW b \in Buyers, Die(b)
    PROVE  TradingInv'
<1>0. TypeOK /\ Remembers /\ late' \subseteq FirstSigned /\ buy[b].at # "done"
  BY SameOrdersRemembered, LeftBehind DEF TradingInv, Die, Running
<1>1. UNCHANGED <<journal, history, latest>> /\ buy' = [buy EXCEPT ![b] = NoLocals("dead")]
  BY DEF Die, J!Die
<1> QED BY <1>0, <1>1, NoLocalsIsBuy, NoLocalsIsTruthful, QuietKeepsInv DEF Becomes

\* What a buyer that polled its order stores is true.
LEMMA PositionIsTrue ==
    ASSUME TradingInv, NEW b \in Buyers, buy[b].at \in {"persist", "storing", "done"}
    PROVE  /\ Position(b) \in J!LocalPosition /\ Position(b).id = Id[b]
           /\ SaysTheTruth(Position(b))
<1>0. /\ TypeOK /\ Truthful(b)
      /\ buy[b].hash = Signature(b) /\ orders[Signature(b)] # None
  BY DEF TradingInv, Truthful
<1> DEFINE status == OrderStatus(buy[b].polled, buy[b].created)
<1>1. /\ status \in Statuses
      /\ status = "FILLED" => buy[b].polled = "FILLED" \/ buy[b].created = "FILLED"
  BY <1>0, BuyFields DEF OrderStatus, Statuses
<1>2. Position(b) = [id |-> Id[b], order |-> [hash |-> Signature(b), status |-> status]]
  BY <1>0 DEF Position
<1> HIDE DEF status
<1>3. Id[b] \in PositionIds /\ Signature(b) \in Hashes
  BY Signatures, TradingAssumption
<1>4. /\ Position(b).id = Id[b] /\ Position(b).order = [hash |-> Signature(b), status |-> status]
      /\ Position(b).order.hash = Signature(b) /\ Position(b).order.status = status
  BY <1>2
<1>5. [hash |-> Signature(b), status |-> status] \in Order
  BY <1>1, <1>3 DEF Order
<1>6. Position(b) \in J!LocalPosition
  BY <1>2, <1>3, <1>5 DEF J!LocalPosition
<1> QED BY <1>0, <1>1, <1>4, <1>6 DEF Truthful, ToldFilled, SaysTheTruth

\* The buyer only goes on to the next line: what it holds is as true as before.
LEMMA OnwardKeepsTruth ==
    ASSUME TradingInv, NEW b \in Buyers, NEW at \in {"storing", "done"},
           buy[b].at \in {"persist", "storing"}, buy' = [buy EXCEPT ![b].at = at],
           UNCHANGED <<orders, late>>
    PROVE  /\ buy' \in [Buyers -> Buy] /\ \A c \in Buyers : Position(c)' = Position(c)
           /\ buy'[b].at = at /\ \A c \in Buyers \ {b} : buy'[c] = buy[c]
           /\ \A c \in Buyers : Truthful(c)'
           /\ late' \subseteq FirstSigned /\ \A h \in Hashes : orders'[h] # None => h \in FirstSigned
<1>0. TypeOK /\ Truthful(b) /\ Remembers
      /\ buy[b].hash = Signature(b) /\ orders[Signature(b)] # None
  BY SameOrdersRemembered DEF TradingInv, Truthful
<1> DEFINE w == [buy[b] EXCEPT !.at = at]
<1>1. buy' = [buy EXCEPT ![b] = w]
  BY <1>0, BuyFields
<1>2. /\ w \in Buy /\ w.at = at /\ w.wire = buy[b].wire /\ w.call = buy[b].call
      /\ w.created = buy[b].created /\ w.polled = buy[b].polled /\ w.hash = buy[b].hash
  BY <1>0, BuyFields DEF Buy
<1> HIDE DEF w
<1>3. /\ buy' \in [Buyers -> Buy] /\ buy'[b] = w
      /\ \A c \in Buyers \ {b} : buy'[c] = buy[c]
  BY <1>0, <1>1, <1>2, BuyFields
<1>4. \A c \in Buyers : Position(c)' = Position(c)
  BY <1>2, <1>3 DEF Position
<1>5. Truthful(b)'
  BY <1>0, <1>2, <1>3 DEF Truthful, ToldFilled, Signature
<1>6. \A c \in Buyers : Truthful(c)'
  BY <1>0, <1>3, <1>5, OthersStayTruthful
<1> QED BY <1>2, <1>3, <1>4, <1>6 DEF TradingInv

\* A true position is handed in.
LEMMA PersistKeepsInv ==
    ASSUME TradingInv, NEW b \in Buyers, Persist(b)
    PROVE  TradingInv'
<1>0. /\ TypeOK /\ Remembers /\ buy[b].at = "persist" /\ buy' = [buy EXCEPT ![b].at = "storing"]
      /\ UNCHANGED <<orders, late, latest>>
  BY SameOrdersRemembered DEF TradingInv, Persist
<1>1. /\ history' = [handed |-> history.handed \union {Position(b)},
                     overlapped |-> history'.overlapped]
      /\ history'.overlapped \in BOOLEAN /\ (~history'.overlapped => ~history.overlapped)
      /\ journal' = IF history'.overlapped THEN << >> ELSE journal
  BY <1>0 DEF Persist, J!Enter, J!Handed, TypeOK, J!Histories
<1>2. /\ buy' \in [Buyers -> Buy] /\ \A c \in Buyers : Position(c)' = Position(c)
      /\ buy'[b].at = "storing" /\ \A c \in Buyers \ {b} : buy'[c] = buy[c]
      /\ \A c \in Buyers : Truthful(c)'
      /\ late' \subseteq FirstSigned /\ \A h \in Hashes : orders'[h] # None => h \in FirstSigned
  BY <1>0, OnwardKeepsTruth
<1>3. Position(b) \in J!LocalPosition /\ SaysTheTruth(Position(b))
  BY <1>0, PositionIsTrue
<1>4. TypeOK'
  <2>1. journal' \in J!Journals
    BY <1>0, <1>1 DEF TypeOK, J!Journals
  <2>2. history' \in J!Histories
    BY <1>0, <1>1, <1>3 DEF TypeOK, J!Histories
  <2> QED BY <1>0, <1>2, <2>1, <2>2 DEF TypeOK
<1>5. HandedIsTrue'
  <2>1. history'.handed = history.handed \union {Position(b)}
    BY <1>1
  <2>2. \A position \in history'.handed : SaysTheTruth(position)'
    BY <1>0, <1>3, <2>1, HandedStaysTrue, StaysTrue
  <2>3. \A i \in DOMAIN journal' : journal'[i] \in history'.handed
    BY <1>1, <2>1 DEF TradingInv, HandedIsTrue
  <2>4. \A c \in Buyers : buy'[c].at = "storing" => Position(c)' \in history'.handed
    BY <1>2, <2>1 DEF TradingInv, HandedIsTrue
  <2> QED BY <2>2, <2>3, <2>4 DEF HandedIsTrue
<1>6. LatestStoredIt'
  BY <1>0 DEF TradingInv, LatestStoredIt
<1>7. ReportedIsJournalled'
  <2> SUFFICES ASSUME ~history'.overlapped, NEW d \in Buyers, buy'[d].at = "done"
               PROVE  \E c \in Buyers, i \in DOMAIN journal' :
                         c = latest'[Id[d]] /\ buy'[c].at = "done" /\ journal'[i] = Position(c)'
    BY DEF ReportedIsJournalled
  <2>1. buy[d].at = "done" /\ journal' = journal /\ ~history.overlapped
    BY <1>1, <1>2
  <2>2. PICK c \in Buyers, i \in DOMAIN journal :
            c = latest[Id[d]] /\ buy[c].at = "done" /\ journal[i] = Position(c)
    BY <2>1 DEF TradingInv, ReportedIsJournalled
  <2>3. c # b
    BY <1>0, <2>2
  <2> QED BY <1>0, <1>2, <2>1, <2>2, <2>3
<1> QED BY <1>2, <1>4, <1>5, <1>6, <1>7 DEF TradingInv

\* It is in the journal when the buyer reports it.
LEMMA PersistedKeepsInv ==
    ASSUME TradingInv, NEW b \in Buyers, Persisted(b)
    PROVE  TradingInv'
<1>0. /\ TypeOK /\ Remembers /\ buy[b].at = "storing" /\ buy' = [buy EXCEPT ![b].at = "done"]
      /\ UNCHANGED <<orders, late, history>> /\ latest' = [latest EXCEPT ![Id[b]] = b]
  BY SameOrdersRemembered DEF TradingInv, Persisted, J!Finish
<1>1. IF history.overlapped THEN journal' = journal ELSE journal' = J!Upserted(journal, Position(b))
  BY <1>0 DEF Persisted, J!Finish, J!Stored
<1>2. /\ buy' \in [Buyers -> Buy] /\ \A c \in Buyers : Position(c)' = Position(c)
      /\ buy'[b].at = "done" /\ \A c \in Buyers \ {b} : buy'[c] = buy[c]
      /\ \A c \in Buyers : Truthful(c)'
      /\ late' \subseteq FirstSigned /\ \A h \in Hashes : orders'[h] # None => h \in FirstSigned
  BY <1>0, OnwardKeepsTruth
<1>3. /\ Position(b) \in J!LocalPosition /\ Position(b).id = Id[b]
      /\ Position(b) \in history.handed /\ Id[b] \in PositionIds /\ b # None
  BY <1>0, PositionIsTrue, TradingAssumption DEF TradingInv, HandedIsTrue
<1>4. /\ journal' \in J!Journals
      /\ \A i \in DOMAIN journal' :
           journal'[i] = Position(b) \/ (i \in DOMAIN journal /\ journal'[i] = journal[i])
      /\ ~history.overlapped =>
           /\ \E i \in DOMAIN journal' : journal'[i] = Position(b)
           /\ \A i \in DOMAIN journal : journal[i].id # Position(b).id =>
                i \in DOMAIN journal' /\ journal'[i] = journal[i]
  <2>1. journal \in J!Journals
    BY <1>0 DEF TypeOK
  <2> QED BY <1>1, <1>3, <2>1, UpsertedKeeps
<1>5. TypeOK'
  BY <1>0, <1>2, <1>4 DEF TypeOK
<1>6. HandedIsTrue'
  <2>1. \A position \in history'.handed : SaysTheTruth(position)'
    BY <1>0, HandedStaysTrue
  <2>2. \A i \in DOMAIN journal' : journal'[i] \in history'.handed
    BY <1>0, <1>3, <1>4 DEF TradingInv, HandedIsTrue
  <2>3. \A c \in Buyers : buy'[c].at = "storing" => Position(c)' \in history'.handed
    BY <1>0, <1>2 DEF TradingInv, HandedIsTrue
  <2> QED BY <2>1, <2>2, <2>3 DEF HandedIsTrue
<1>7. LatestStoredIt'
  BY <1>0, <1>3 DEF TradingInv, LatestStoredIt, TypeOK
<1>8. ReportedIsJournalled'
  <2> SUFFICES ASSUME ~history.overlapped, NEW d \in Buyers, buy'[d].at = "done"
               PROVE  \E c \in Buyers, i \in DOMAIN journal' :
                         c = latest'[Id[d]] /\ buy'[c].at = "done" /\ journal'[i] = Position(c)'
    BY <1>0 DEF ReportedIsJournalled
  <2>1. CASE Id[d] = Id[b]
    BY <1>0, <1>2, <1>3, <1>4, <2>1 DEF TypeOK
  <2>2. CASE Id[d] # Id[b]
    <3>1. buy[d].at = "done" /\ Id[d] \in PositionIds
      BY <1>2, <2>2, TradingAssumption
    <3>2. PICK c \in Buyers, i \in DOMAIN journal :
              c = latest[Id[d]] /\ buy[c].at = "done" /\ journal[i] = Position(c)
      BY <3>1 DEF TradingInv, ReportedIsJournalled
    <3>3. c # b /\ c # None /\ latest'[Id[d]] = c
      BY <1>0, <1>3, <2>2, <3>1, <3>2, TradingAssumption DEF TypeOK
    <3>4. journal[i].id = Id[d]
      BY <3>1, <3>2, <3>3 DEF TradingInv, LatestStoredIt, Position
    <3>5. i \in DOMAIN journal' /\ journal'[i] = journal[i]
      BY <1>3, <1>4, <2>2, <3>2, <3>4
    <3> QED BY <1>2, <3>2, <3>3, <3>5
  <2> QED BY <2>1, <2>2
<1> QED BY <1>2, <1>5, <1>6, <1>7, <1>8 DEF TradingInv

LEMMA PersistFailsKeepsInv ==
    ASSUME TradingInv, NEW b \in Buyers, PersistFails(b)
    PROVE  TradingInv'
<1>0. TypeOK /\ Remembers /\ late' \subseteq FirstSigned /\ buy[b].at # "done"
  BY SameOrdersRemembered DEF TradingInv, PersistFails
<1>1. UNCHANGED <<journal, history, latest>> /\ buy' = [buy EXCEPT ![b] = NoLocals("error")]
  BY DEF PersistFails, J!Fail
<1> QED BY <1>0, <1>1, NoLocalsIsBuy, NoLocalsIsTruthful, QuietKeepsInv DEF Becomes
-----------------------------------------------------------------------------
(* The exchange and the network *)

\* An answer is put on the wire of a waiting buyer.
LEMMA AnswerKeepsInv ==
    ASSUME TradingInv, NEW b \in Buyers, NEW kind \in {"ok", "busy", "refused"},
           NEW status \in Statuses \union {None}, Answer(b, kind, status),
           buy[b].at = "waiting", UNCHANGED <<late, journal, history, latest>>, Remembers,
           buy[b].call = "post" /\ kind = "ok" => orders'[Signature(b)] # None,
           status = "FILLED" => orders'[Signature(b)] = "FILLED"
    PROVE  TradingInv'
<1>0. TypeOK /\ Truthful(b) /\ late' \subseteq FirstSigned /\ Signature(b) \in Hashes
  BY Signatures DEF TradingInv
<1> DEFINE reply == [kind |-> kind, status |-> status]
<1> DEFINE w == [buy[b] EXCEPT !.wire = reply]
<1>1. buy' = [buy EXCEPT ![b] = w]
  BY <1>0, BuyFields DEF Answer
<1>2. reply \in Reply /\ reply.kind = kind /\ reply.status = status
  BY DEF Reply
<1> HIDE DEF reply
<1>3. /\ w \in Buy /\ w.at = "waiting" /\ w.wire = reply /\ w.call = buy[b].call
      /\ w.created = buy[b].created /\ w.polled = buy[b].polled /\ w.hash = buy[b].hash
  BY <1>0, <1>2, BuyFields DEF Buy
<1> HIDE DEF w
<1>4. /\ orders[Signature(b)] # None => orders'[Signature(b)] # None
      /\ orders[Signature(b)] = "FILLED" => orders'[Signature(b)] = "FILLED"
  BY <1>0, RememberedOrder
<1> QED BY <1>0, <1>1, <1>2, <1>3, <1>4, ChangedKeepsInv DEF Truthful, ToldFilled

LEMMA AnswerReadKeepsInv ==
    ASSUME TradingInv, NEW b \in Buyers, AnswerRead(b)
    PROVE  TradingInv'
<1>0. TypeOK /\ Truthful(b) /\ Remembers /\ buy[b].at = "waiting" /\ UNCHANGED <<orders, late, journal, history, latest>>
      /\ None # "FILLED"
  BY SameOrdersRemembered, NoneIsNoStatus DEF TradingInv, AnswerRead, Statuses
<1>1. ASSUME NEW kind \in {"busy", "refused"}, Answer(b, kind, None)
      PROVE  TradingInv'
  BY <1>0, <1>1, AnswerKeepsInv
<1>2. ASSUME buy[b].call \notin {"post", "poll"}, Answer(b, "ok", None)
      PROVE  TradingInv'
  BY <1>0, <1>2, AnswerKeepsInv
<1>3. ASSUME buy[b].call = "poll",
             NEW status \in {orders[buy[b].hash], None}, Answer(b, "ok", status)
      PROVE  TradingInv'
  <2>1. buy[b].hash = Signature(b) /\ Signature(b) \in Hashes
    BY <1>0, <1>3, Signatures DEF Truthful
  <2>2. status \in Statuses \union {None}
    BY <1>0, <2>1 DEF TypeOK
  <2>3. status = "FILLED" => orders'[Signature(b)] = "FILLED"
    BY <1>0, <2>1
  <2> QED BY <1>0, <1>3, <2>2, <2>3, AnswerKeepsInv
<1> QED BY <1>1, <1>2, <1>3 DEF AnswerRead

LEMMA AnswerPostKeepsInv ==
    ASSUME TradingInv, NEW b \in Buyers, AnswerPost(b)
    PROVE  TradingInv'
<1>0. TypeOK /\ Truthful(b) /\ buy[b].at = "waiting" /\ UNCHANGED <<late, journal, history, latest>>
      /\ None # "FILLED" /\ buy[b].hash = Signature(b) /\ Signature(b) \in FirstSigned
  BY NoneIsNoStatus, Signatures DEF TradingInv, AnswerPost, Statuses, Truthful
<1>1. PICK status \in Statuses :
          /\ orders' = Accepted(buy[b].hash, status)
          /\ \/ \E told \in {orders'[buy[b].hash], None} : Answer(b, "ok", told)
             \/ Answer(b, "busy", None)
             \/ orders[buy[b].hash] # None /\ Answer(b, "refused", None)
  BY DEF AnswerPost
<1>2. Remembers /\ orders'[Signature(b)] \in Statuses
  BY <1>0, <1>1, AcceptedIsRemembered
<1>3. orders'[Signature(b)] # None
  BY <1>2, NoneIsNoStatus
<1>4. ASSUME NEW told \in {orders'[Signature(b)], None}, Answer(b, "ok", told)
      PROVE  TradingInv'
  <2>1. told \in Statuses \union {None} /\ (told = "FILLED" => orders'[Signature(b)] = "FILLED")
    BY <1>0, <1>2, <1>4
  <2> QED BY <1>0, <1>2, <1>3, <1>4, <2>1, AnswerKeepsInv
<1>5. ASSUME NEW kind \in {"busy", "refused"}, Answer(b, kind, None)
      PROVE  TradingInv'
  BY <1>0, <1>2, <1>5, AnswerKeepsInv
<1> QED BY <1>0, <1>1, <1>4, <1>5

\* Orders move on their own, late posts arrive.
LEMMA ExchangeKeepsInv ==
    ASSUME TradingInv, NEW h \in Hashes, LatePost(h) \/ OrderMoves(h)
    PROVE  TradingInv'
<1>0. TypeOK /\ UNCHANGED <<buy, journal, history, latest>>
  BY DEF TradingInv, LatePost, OrderMoves
<1>1. Remembers /\ late' \subseteq FirstSigned
  <2>1. CASE LatePost(h)
    <3>1. h \in FirstSigned /\ late' \subseteq FirstSigned
      BY <2>1 DEF LatePost, TradingInv
    <3>2. \/ \E status \in Statuses : orders' = Accepted(h, status)
          \/ orders' = orders
      BY <2>1 DEF LatePost
    <3> QED BY <1>0, <3>1, <3>2, AcceptedIsRemembered, SameOrdersRemembered
  <2>2. CASE OrderMoves(h)
    BY <1>0, <2>2, MovesAreRemembered DEF OrderMoves, TradingInv
  <2> QED BY <2>1, <2>2
<1>2. TypeOK'
  BY <1>0, <1>1 DEF TypeOK, Remembers, FirstSigned
<1>3. \A b \in Buyers : Truthful(b)'
  BY <1>0, <1>1, OthersStayTruthful
<1>4. HandedIsTrue' /\ LatestStoredIt' /\ ReportedIsJournalled'
  BY <1>0, <1>1, HandedStaysTrue, QuietReports
     DEF TradingInv, HandedIsTrue, LatestStoredIt, Position
<1>5. \A g \in Hashes : orders'[g] # None => g \in FirstSigned
  BY <1>1, RememberedOrder DEF TradingInv
<1> QED BY <1>1, <1>2, <1>3, <1>4, <1>5 DEF TradingInv
-----------------------------------------------------------------------------
(* Theorems *)

LEMMA InitKeepsInv == Init => TradingInv
<1> SUFFICES ASSUME Init PROVE TradingInv
  OBVIOUS
<1>1. /\ orders = [h \in Hashes |-> None] /\ late = {} /\ journal = << >>
      /\ history = [handed |-> {}, overlapped |-> FALSE] /\ latest = [id \in PositionIds |-> None]
      /\ buy = [b \in Buyers |-> NoLocals("idle")]
  BY DEF Init, J!Init, J!NothingHanded
<1>2. /\ NoLocals("idle") \in Buy /\ NoLocals("idle").at = "idle"
      /\ NoLocals("idle").call = "market" /\ NoLocals("idle").attempt = 0
      /\ NoLocals("idle").hash = None /\ NoLocals("idle").wire = None
      /\ NoLocals("idle").created = None /\ NoLocals("idle").polled = None
  <2>1. 0 \in 0..Attempts /\ 0 \in 0..Polls
    BY TradingAssumption
  <2> QED BY <2>1 DEF NoLocals, Buy, Calls
<1>3. << >> \in J!Journals /\ DOMAIN journal = {} /\ history \in J!Histories
  BY <1>1 DEF J!Journals, J!Histories
<1>4. TypeOK
  BY <1>1, <1>2, <1>3 DEF TypeOK
<1>5. \A b \in Buyers : Truthful(b)
  <2>1. None # "FILLED"
    BY NoneIsNoStatus DEF Statuses
  <2> QED BY <1>1, <1>2, <2>1, NoAttempts DEF Truthful, ToldFilled
<1>6. HandedIsTrue /\ LatestStoredIt /\ ReportedIsJournalled
  BY <1>1, <1>2, <1>3 DEF HandedIsTrue, LatestStoredIt, ReportedIsJournalled
<1> QED BY <1>1, <1>4, <1>5, <1>6 DEF TradingInv

\* TradingInv holds in every reachable state.
THEOREM TradingInvariant == Spec => []TradingInv
<1>1. TradingInv /\ [Next]_vars => TradingInv'
  <2> SUFFICES ASSUME TradingInv, [Next]_vars PROVE TradingInv'
    OBVIOUS
  <2>1. CASE UNCHANGED vars
    BY <2>1 DEF vars, TradingInv, TypeOK, Truthful, ToldFilled, HandedIsTrue, SaysTheTruth,
                LatestStoredIt, ReportedIsJournalled, Position
  <2>2. ASSUME NEW b \in Buyers, Client(b) PROVE TradingInv'
    <3>1. CASE TransportError(b)
      <4>1. late' \subseteq FirstSigned
        BY <3>1, LeftBehind DEF TransportError
      <4> QED BY <3>1, <4>1, UnansweredKeepsInv DEF TransportError
    <3>2. CASE ErrorStatus(b)
      <4>1. late' \subseteq FirstSigned
        BY <3>2 DEF ErrorStatus, TradingInv
      <4> QED BY <3>2, <4>1, UnansweredKeepsInv DEF ErrorStatus
    <3> QED BY <2>2, <3>1, <3>2, SendKeepsInv, PreparedKeepsInv, CreatedKeepsInv,
               PolledKeepsInv, PersistKeepsInv, PersistedKeepsInv, PersistFailsKeepsInv
               DEF Client
  <2> QED BY <2>1, <2>2, BeginKeepsInv, DieKeepsInv, AnswerReadKeepsInv, AnswerPostKeepsInv,
             ExchangeKeepsInv DEF Next
<1> QED BY InitKeepsInv, <1>1, PTL DEF Spec

\* However often its post is repeated, a buy places one order
\* (create_order, _request_json).
THEOREM OneOrder == Spec => []OneOrderPerBuy
<1>1. TradingInv => OneOrderPerBuy
  <2> SUFFICES ASSUME TradingInv, NEW b \in Buyers
               PROVE  Cardinality({h \in Hashes : h[1] = b /\ orders[h] # None}) <= 1
    BY DEF OneOrderPerBuy
  <2> DEFINE placed == {h \in Hashes : h[1] = b /\ orders[h] # None}
  <2>1. placed \subseteq {Signature(b)}
    BY Signatures DEF TradingInv
  <2>2. /\ IsFiniteSet({Signature(b)}) /\ Cardinality({Signature(b)}) = 1
        /\ IsFiniteSet(placed) /\ Cardinality(placed) \in Nat
        /\ Cardinality(placed) <= Cardinality({Signature(b)})
    BY <2>1, FS_Singleton, FS_Subset, FS_CardinalityType
  <2> QED BY <2>2
<1> QED BY TradingInvariant, <1>1, PTL

\* What is found in the journal of an order is so, also after writes
\* overlapped (_persist_local_position).
THEOREM JournalHolds == Spec => []JournalIsTrue
<1>1. TradingInv => JournalIsTrue
  <2> SUFFICES ASSUME TradingInv, NEW found \in J!Readable, NEW i \in DOMAIN found
               PROVE  SaysTheTruth(found[i])
    BY DEF JournalIsTrue, SaysTheTruth
  <2>1. found[i] \in history.handed
    <3>1. CASE history.overlapped
      BY <3>1 DEF J!Readable, J!Remnants
    <3>2. CASE ~history.overlapped
      BY <3>2 DEF J!Readable, TradingInv, HandedIsTrue
    <3> QED BY <3>1, <3>2
  <2> QED BY <2>1 DEF TradingInv, HandedIsTrue
<1> QED BY TradingInvariant, <1>1, PTL

\* As long as no two commands were storing at once: of the buys of a position
\* that reported an order, the one that stored last finds it in the journal as
\* reported (buy, _persist_local_position).
THEOREM ReportsReachTheJournal == Spec => []ReportedIsJournalled
<1>1. TradingInv => ReportedIsJournalled
  BY DEF TradingInv
<1> QED BY TradingInvariant, <1>1, PTL
-----------------------------------------------------------------------------
(* The buyers as writers of the journal *)

\* A buyer that neither begins nor ends to store leaves the journal alone.
LEMMA QuietForTheJournal ==
    ASSUME TypeOK, NEW b \in Buyers, NEW w, buy' = [buy EXCEPT ![b] = w],
           buy[b].at # "storing", w.at # "storing", UNCHANGED <<journal, history>>
    PROVE  UNCHANGED J!journal_vars
<1>1. buy'[b] = w /\ \A c \in Buyers \ {b} : buy'[c] = buy[c]
  BY DEF TypeOK
<1>2. [c \in Buyers |-> IF buy'[c].at = "storing" THEN Position(c)' ELSE None]
        = [c \in Buyers |-> IF buy[c].at = "storing" THEN Position(c) ELSE None]
  BY <1>1 DEF Position
<1> QED BY <1>2 DEF J!journal_vars

LEMMA BeginIsQuiet ==
    ASSUME TypeOK, NEW b \in Buyers, Begin(b)
    PROVE  UNCHANGED J!journal_vars
<1>1. PICK at \in {"error", "ready"} : buy' = [buy EXCEPT ![b].at = at]
  BY DEF Begin
<1>2. buy' = [buy EXCEPT ![b] = [buy[b] EXCEPT !.at = at]] /\ [buy[b] EXCEPT !.at = at].at = at
  BY <1>1, BuyFields DEF Buy
<1> QED BY <1>2, QuietForTheJournal DEF Begin

LEMMA AnswersAreQuiet ==
    ASSUME TypeOK, NEW b \in Buyers, AnswerRead(b) \/ AnswerPost(b)
    PROVE  UNCHANGED J!journal_vars
<1>1. PICK kind, status : Answer(b, kind, status)
  BY DEF AnswerRead, AnswerPost
<1> DEFINE w == [buy[b] EXCEPT !.wire = [kind |-> kind, status |-> status]]
<1>2. buy' = [buy EXCEPT ![b] = w] /\ w.at = buy[b].at
  BY <1>1, BuyFields DEF Answer, Buy
<1>3. buy[b].at = "waiting" /\ UNCHANGED <<journal, history>>
  BY DEF AnswerRead, AnswerPost
<1> HIDE DEF w
<1> QED BY <1>2, <1>3, QuietForTheJournal

\* A request, or what follows from its answer.
LEMMA RequestsAreQuiet ==
    ASSUME TypeOK, NEW b \in Buyers,
           Send(b) \/ TransportError(b) \/ ErrorStatus(b) \/ Prepared(b) \/ Created(b) \/ Polled(b)
    PROVE  UNCHANGED J!journal_vars
<1>1. \E w : buy' = [buy EXCEPT ![b] = w] /\ w.at # "storing"
  <2>1. buy[b] \in Buy
    BY BuyFields
  <2>2. NoLocals("error").at # "storing"
    BY NoLocalsIsBuy
  <2>3. CASE Send(b)
    <3> DEFINE w == [buy[b] EXCEPT !.at = "waiting", !.attempt = buy[b].attempt + 1, !.wire = None,
                                   !.hash = IF buy[b].call = "post"
                                            THEN SignedHash(b, buy[b].attempt + 1)
                                            ELSE buy[b].hash]
    <3>1. buy' = [buy EXCEPT ![b] = w] /\ w.at = "waiting"
      BY <2>1, <2>3 DEF Send, Buy
    <3> QED BY <3>1
  <2>4. ASSUME NEW kind, Unanswered(b, kind)
        PROVE  \E w : buy' = [buy EXCEPT ![b] = w] /\ w.at # "storing"
    <3> DEFINE w == [buy[b] EXCEPT !.at = "ready", !.wire = None]
    <3>1. w.at = "ready"
      BY <2>1 DEF Buy
    <3>2. buy' = [buy EXCEPT ![b] = w] \/ buy' = [buy EXCEPT ![b] = NoLocals("error")]
      BY <2>4 DEF Unanswered
    <3> QED BY <2>2, <3>1, <3>2
  <2>5. CASE TransportError(b) \/ ErrorStatus(b)
    BY <2>4, <2>5 DEF TransportError, ErrorStatus
  <2>6. CASE Prepared(b)
    <3>1. ASSUME NEW call,
                 buy' = [buy EXCEPT ![b] = [buy[b] EXCEPT !.at = "ready", !.call = call,
                                                          !.attempt = 0, !.wire = None]]
          PROVE  \E w : buy' = [buy EXCEPT ![b] = w] /\ w.at # "storing"
      <4> DEFINE w == [buy[b] EXCEPT !.at = "ready", !.call = call, !.attempt = 0, !.wire = None]
      <4>1. w.at = "ready"
        BY <2>1 DEF Buy
      <4> QED BY <3>1, <4>1
    <3> QED BY <2>2, <2>6, <3>1 DEF Prepared
  <2>7. CASE Created(b)
    <3> DEFINE w == [buy[b] EXCEPT !.at = "ready", !.call = "poll", !.attempt = 0, !.wire = None,
                                   !.created = buy[b].wire.status]
    <3>1. buy' = [buy EXCEPT ![b] = w] /\ w.at = "ready"
      BY <2>1, <2>7 DEF Created, Buy
    <3> QED BY <3>1
  <2>8. CASE Polled(b)
    <3> DEFINE polls == IF buy[b].polls = Polls THEN Polls ELSE buy[b].polls + 1
    <3> DEFINE at == IF Settled(polls, buy[b].wire.status) THEN "persist" ELSE "ready"
    <3> DEFINE w == [buy[b] EXCEPT !.at = at, !.attempt = 0, !.polls = polls,
                                   !.polled = buy[b].wire.status, !.wire = None]
    <3>1. buy' = [buy EXCEPT ![b] = w]
      BY <2>8 DEF Polled
    <3>2. w.at \in {"persist", "ready"}
      BY <2>1 DEF Buy
    <3> QED BY <3>1, <3>2
  <2> QED BY <2>3, <2>5, <2>6, <2>7, <2>8
<1>2. buy[b].at # "storing" /\ UNCHANGED <<journal, history>>
  BY DEF Send, TransportError, ErrorStatus, Prepared, Created, Polled, Returned
<1> QED BY <1>1, <1>2, QuietForTheJournal

\* Buys use the journal as writers of processes of their own, and nothing else
\* changes it: what PositionStorage is shown to implement is what they rely on
\* (StorageImplementsJournal, _persist_local_position).
THEOREM BuysUseTheJournal == Spec => J!Spec
<1>1. Init => J!Init
  BY DEF Init
<1>2. TradingInv /\ [Next]_vars => [J!Next]_(J!journal_vars)
  <2> SUFFICES ASSUME TradingInv, [Next]_vars PROVE J!Next \/ UNCHANGED J!journal_vars
    OBVIOUS
  <2>0. TypeOK
    BY DEF TradingInv
  <2>1. CASE UNCHANGED vars
    BY <2>1 DEF vars, J!journal_vars, Position
  <2>2. ASSUME NEW b \in Buyers, Client(b) PROVE J!Next \/ UNCHANGED J!journal_vars
    <3>1. CASE Persist(b)
      <4>1. Position(b) \in J!LocalPosition /\ J!Enter(b, Position(b))
        BY <3>1, PositionIsTrue DEF Persist
      <4>2. PICK position \in J!LocalPosition : position = Position(b)
        BY <4>1
      <4>3. J!Enter(b, position)
        BY <4>1, <4>2 DEF J!Enter
      <4> QED BY <4>3 DEF J!Next
    <3>2. CASE Persisted(b)
      BY <3>2 DEF Persisted, J!Next
    <3>3. CASE PersistFails(b)
      BY <3>3 DEF PersistFails, J!Next
    <3> QED BY <2>0, <2>2, <3>1, <3>2, <3>3, RequestsAreQuiet DEF Client
  <2>3. ASSUME NEW b \in Buyers, Die(b) PROVE J!Next
    BY <2>3 DEF Die, J!Next
  <2>4. ASSUME NEW h \in Hashes, LatePost(h) \/ OrderMoves(h) PROVE UNCHANGED J!journal_vars
    BY <2>4 DEF LatePost, OrderMoves, J!journal_vars, Position
  <2> QED BY <2>0, <2>1, <2>2, <2>3, <2>4, BeginIsQuiet, AnswersAreQuiet DEF Next
<1> QED BY <1>1, <1>2, TradingInvariant, PTL DEF Spec, J!Spec
=============================================================================
