---------------------------- MODULE McpBridgeProofs ----------------------------
(***************************************************************************)
(* BridgeInv is inductive, and the safety properties of McpBridge follow   *)
(* from it, for every set of tools and every bound.                        *)
(***************************************************************************)
EXTENDS McpBridge, SequenceTheorems, TLAPS

\* What is in a queue after its first element was taken was in it before.
LEMMA TailKeeps ==
    ASSUME NEW S, NEW s \in Seq(S), s # << >>
    PROVE  /\ Tail(s) \in Seq(S)
           /\ Head(s) \in S
           /\ 1 \in DOMAIN s /\ Head(s) = s[1]
           /\ \A i \in DOMAIN Tail(s) : i + 1 \in DOMAIN s /\ Tail(s)[i] = s[i + 1]
OBVIOUS

\* What is in a queue after an element was added is that element or was there.
LEMMA AppendKeeps ==
    ASSUME NEW S, NEW s \in Seq(S), NEW e \in S
    PROVE  /\ Append(s, e) \in Seq(S)
           /\ \A i \in DOMAIN Append(s, e) :
                 \/ Append(s, e)[i] = e
                 \/ i \in DOMAIN s /\ Append(s, e)[i] = s[i]
OBVIOUS

\* A system that has not begun satisfies the invariant.
LEMMA InitEstablishesInv == ASSUME Init PROVE BridgeInv
<1> USE BridgeAssumption
<1>1. TypeOK
  BY DEF Init, TypeOK, NotClosing
<1>2. Control
  BY DEF Init, Control, Asking, NotClosing
<1>3. IdsTell
  BY DEF Init, IdsTell, Known
<1>4. ServerOwned /\ ToolsListed /\ AnswersMatch
  BY DEF Init, ServerOwned, ToolsListed, AnswersMatch, Asking, NotClosing
<1> QED BY <1>1, <1>2, <1>3, <1>4 DEF BridgeInv

\* The types of what a new request is made of.
LEMMA AskTypes ==
    ASSUME TypeOK, client.id <= counts.requests,
           NEW what \in {"initialize", "notify", "list"} \union Tools,
           Ask(what, NextId(client.id))
    PROVE  /\ request' = [id |-> client.id + 1, what |-> what, serial |-> counts.requests + 1]
           /\ request' \in Request /\ request' # None
           /\ client' = [process |-> TRUE, id |-> client.id + 1]
           /\ client' \in [process: BOOLEAN, id: 0..MaxRequests]
           /\ counts'.requests = counts.requests + 1
           /\ counts' \in [servers: 0..MaxServers, requests: 0..MaxRequests, noise: 0..MaxNoise]
<1> USE BridgeAssumption
<1>1. /\ client \in [process: BOOLEAN, id: 0..MaxRequests]
      /\ counts \in [servers: 0..MaxServers, requests: 0..MaxRequests, noise: 0..MaxNoise]
  BY DEF TypeOK
<1>2. /\ counts.requests < MaxRequests
      /\ counts' = [counts EXCEPT !.requests = @ + 1]
      /\ request' = [id |-> client.id + 1, what |-> what, serial |-> counts.requests + 1]
      /\ client' = [process |-> TRUE, id |-> client.id + 1]
  BY DEF Ask, NextId
<1>3. client.id + 1 \in 0..MaxRequests /\ counts.requests + 1 \in 0..MaxRequests
  BY <1>1, <1>2
<1>4. request' \in Request
  BY <1>2, <1>3 DEF Request
<1>5. counts'.requests = counts.requests + 1
  BY <1>1, <1>2
<1> QED BY <1>1, <1>2, <1>3, <1>4, <1>5

\* Taking a line from the pipe leaves the server knowing nothing new.
LEMMA ReadingKeeps ==
    ASSUME TypeOK, Reading
    PROVE  /\ server' \in [life: {"none", "running", "ended"}, offers: SUBSET Tools,
                           inbox: SUBSET Request, out: Seq(Message),
                           stderr: {"drained", "lost", "full"}]
           /\ server'.life = server.life /\ server'.offers = server.offers
           /\ \A r : Known(r)' => Known(r)
           /\ FirstLine \in Message /\ Known(FirstLine.re)
<1>1. server \in [life: {"none", "running", "ended"}, offers: SUBSET Tools,
                   inbox: SUBSET Request, out: Seq(Message),
                   stderr: {"drained", "lost", "full"}]
  BY DEF TypeOK
<1>2. server.out # << >> /\ server' = [server EXCEPT !.out = Tail(@)]
  BY DEF Reading
<1>3. /\ Tail(server.out) \in Seq(Message)
      /\ FirstLine \in Message
      /\ 1 \in DOMAIN server.out /\ FirstLine = server.out[1]
      /\ \A i \in DOMAIN Tail(server.out) :
            i + 1 \in DOMAIN server.out /\ Tail(server.out)[i] = server.out[i + 1]
  BY <1>1, <1>2, TailKeeps DEF FirstLine
<1>4. server'.out = Tail(server.out) /\ server'.inbox = server.inbox
  BY <1>1, <1>2
<1>5. \A r : Known(r)' => Known(r)
  BY <1>3, <1>4 DEF Known
<1>6. Known(FirstLine.re)
  BY <1>3 DEF Known
<1> QED BY <1>1, <1>2, <1>3, <1>5, <1>6

\* A request that raises, whatever the reason: the client is closed, or it
\* stays with the bridge.
LEMMA RaiseKeepsInv ==
    ASSUME BridgeInv, Asking, Raise(request.what),
           UNCHANGED <<bridge, delivered, counts>>,
           server' \in [life: {"none", "running", "ended"}, offers: SUBSET Tools,
                        inbox: SUBSET Request, out: Seq(Message),
                        stderr: {"drained", "lost", "full"}],
           server'.life = server.life, server'.offers = server.offers,
           \A r : Known(r)' => Known(r)
    PROVE  BridgeInv'
<1> USE BridgeAssumption
<1> DEFINE what == request.what
<1>1. /\ TypeOK /\ Control /\ IdsTell /\ ServerOwned /\ ToolsListed /\ AnswersMatch
      /\ client \in [process: BOOLEAN, id: 0..MaxRequests]
      /\ request \in Request
      /\ what \in {"initialize", "notify", "list"} \union Tools
  BY DEF BridgeInv, TypeOK, Control, Request
<1>2. /\ client.process /\ (bridge.client <=> what \in {"list"} \union Tools)
      /\ closing = NotClosing /\ client.id <= counts.requests
  BY <1>1 DEF Control, Asking
<1>3. /\ request' = None
      /\ \/ /\ what \in Tools /\ at' = "idle" /\ UNCHANGED <<closing, client>>
         \/ /\ what \notin Tools /\ at' = "closing"
            /\ closing' = [phase |-> "eof", after |-> IF what = "list" THEN "list" ELSE "start"]
            /\ client' = [client EXCEPT !.process = FALSE]
  BY DEF Raise
<1>4. client' \in [process: BOOLEAN, id: 0..MaxRequests] /\ client'.id = client.id
  BY <1>1, <1>3
<1>5. TypeOK'
  BY <1>1, <1>3, <1>4 DEF TypeOK
<1>6. CASE what \in Tools
  <2>1. Control'
    BY <1>1, <1>2, <1>3, <1>6 DEF Control, Asking, NotClosing
  <2>2. IdsTell'
    BY <1>1, <1>3, <1>4, <1>6 DEF IdsTell
  <2>3. ServerOwned' /\ ToolsListed' /\ AnswersMatch'
    BY <1>1, <1>2, <1>3, <1>6 DEF ServerOwned, ToolsListed, AnswersMatch, Asking, NotClosing
  <2> QED BY <1>5, <2>1, <2>2, <2>3 DEF BridgeInv
<1>7. CASE what \notin Tools
  <2>1. /\ at' = "closing" /\ client'.process = FALSE
        /\ closing'.phase = "eof" /\ closing'.after # "none"
        /\ (closing'.after = "list") <=> (what = "list")
    BY <1>1, <1>3, <1>7
  <2>2. Control'
    BY <1>2, <1>3, <1>4, <1>7, <2>1 DEF Control, Asking
  <2>3. IdsTell'
    BY <1>1, <1>4, <2>1 DEF IdsTell
  <2>4. bridge.tools = {}
    BY <1>1, <1>2, <1>7 DEF ToolsListed
  <2>5. ServerOwned' /\ ToolsListed' /\ AnswersMatch'
    BY <1>1, <2>1, <2>4 DEF ServerOwned, ToolsListed, AnswersMatch, Asking
  <2> QED BY <1>5, <2>2, <2>3, <2>5 DEF BridgeInv
<1> QED BY <1>6, <1>7

LEMMA WriteFailsKeepsInv == ASSUME BridgeInv, WriteFails PROVE BridgeInv'
<1>1. Asking /\ Raise(request.what) /\ UNCHANGED <<bridge, server, delivered, counts>>
  BY DEF WriteFails, Asking
<1>2. TypeOK /\ \A r : Known(r)' => Known(r)
  BY <1>1 DEF BridgeInv, Known
<1> QED BY <1>1, <1>2, RaiseKeepsInv DEF TypeOK

LEMMA EndOfFileKeepsInv == ASSUME BridgeInv, EndOfFile PROVE BridgeInv'
<1>1. Asking /\ Raise(request.what) /\ UNCHANGED <<bridge, server, delivered, counts>>
  BY DEF EndOfFile, Asking
<1>2. TypeOK /\ \A r : Known(r)' => Known(r)
  BY <1>1 DEF BridgeInv, Known
<1> QED BY <1>1, <1>2, RaiseKeepsInv DEF TypeOK

LEMMA ReadFailsKeepsInv == ASSUME BridgeInv, ReadFails PROVE BridgeInv'
<1>1. Asking /\ Reading /\ Raise(request.what) /\ UNCHANGED <<bridge, delivered, counts>>
  BY DEF ReadFails, Reading, Asking
<1>2. TypeOK
  BY DEF BridgeInv
<1> QED BY <1>1, <1>2, ReadingKeeps, RaiseKeepsInv

LEMMA SkipKeepsInv == ASSUME BridgeInv, Skip PROVE BridgeInv'
<1>1. /\ Reading
      /\ UNCHANGED <<bridge, client, at, request, closing, delivered, counts>>
  BY DEF Skip
<1>2. TypeOK /\ Control /\ IdsTell /\ ServerOwned /\ ToolsListed /\ AnswersMatch
  BY DEF BridgeInv
<1>3. TypeOK'
  BY <1>1, <1>2, ReadingKeeps DEF TypeOK
<1>4. Control'
  BY <1>1, <1>2 DEF Control, Asking
<1>5. IdsTell'
  BY <1>1, <1>2, ReadingKeeps DEF IdsTell
<1>6. ServerOwned' /\ ToolsListed' /\ AnswersMatch'
  BY <1>1, <1>2, ReadingKeeps DEF ServerOwned, ToolsListed, AnswersMatch, Asking
<1> QED BY <1>3, <1>4, <1>5, <1>6 DEF BridgeInv

LEMMA ReturnKeepsInv == ASSUME BridgeInv, Return PROVE BridgeInv'
<1> USE BridgeAssumption
<1>1. /\ Reading /\ at = "waiting"
      /\ FirstLine.re # None /\ FirstLine.re.id = request.id
      /\ delivered' = [asked |-> request, got |-> FirstLine]
      /\ UNCHANGED <<client, closing, counts>>
      /\ \/ /\ request.what = "initialize"
            /\ request' = [request EXCEPT !.what = "notify"]
            /\ at' = "writing" /\ UNCHANGED bridge
         \/ /\ request.what # "initialize"
            /\ bridge' = IF request.what = "list"
                         THEN [bridge EXCEPT !.tools = server.offers] ELSE bridge
            /\ request' = None /\ at' = "idle"
  BY DEF Return, Reading, Answers
<1>2. TypeOK /\ Control /\ IdsTell /\ ServerOwned /\ ToolsListed /\ AnswersMatch
  BY DEF BridgeInv
<1>3. /\ FirstLine \in Message /\ Known(FirstLine.re)
      /\ request \in Request
  BY <1>1, <1>2, ReadingKeeps DEF Control, Asking, TypeOK
<1>4. FirstLine.re = request
  BY <1>1, <1>2, <1>3 DEF IdsTell, Message
<1>5. AnswersMatch' /\ delivered' \in [asked: Request, got: Message]
  BY <1>1, <1>3, <1>4 DEF AnswersMatch
<1>6. server'.life = server.life /\ server'.offers = server.offers /\ (\A r : Known(r)' => Known(r))
  BY <1>1, <1>2, ReadingKeeps
<1>7. /\ client.process /\ closing = NotClosing
      /\ bridge.client <=> request.what \in {"list"} \union Tools
      /\ request.what # "notify" /\ request.id = client.id
      /\ client.id <= counts.requests
  BY <1>1, <1>2 DEF Control, Asking
<1>8. CASE request.what = "initialize"
  <2>1. /\ request' \in Request /\ request' # None
        /\ request'.what = "notify" /\ request'.id = request.id
    BY <1>1, <1>3, <1>8 DEF Request
  <2>2. TypeOK'
    BY <1>1, <1>2, <1>5, <1>8, <2>1, ReadingKeeps DEF TypeOK
  <2>3. Control'
    BY <1>1, <1>7, <1>8, <2>1 DEF Control, Asking, NotClosing
  <2>4. IdsTell'
    BY <1>1, <1>2, <1>6, <1>8, <2>1 DEF IdsTell
  <2>5. ServerOwned' /\ ToolsListed'
    BY <1>1, <1>2, <1>6, <1>7, <1>8, <2>1 DEF ServerOwned, ToolsListed, Asking, NotClosing
  <2> QED BY <1>5, <2>2, <2>3, <2>4, <2>5 DEF BridgeInv
<1>9. CASE request.what # "initialize"
  <2>1. /\ bridge \in [client: BOOLEAN, tools: SUBSET Tools] /\ server.offers \subseteq Tools
        /\ request.what \in {"list"} \union Tools
    BY <1>2, <1>3, <1>7, <1>9 DEF TypeOK, Request
  <2>2. bridge' \in [client: BOOLEAN, tools: SUBSET Tools] /\ bridge'.client /\ bridge.client
    BY <1>1, <1>7, <1>9, <2>1
  <2>3. TypeOK'
    BY <1>1, <1>2, <1>5, <1>9, <2>2, ReadingKeeps DEF TypeOK
  <2>4. Control'
    BY <1>1, <1>7, <1>9, <2>2 DEF Control, Asking, NotClosing
  <2>5. IdsTell'
    BY <1>1, <1>2, <1>6, <1>9 DEF IdsTell
  <2>6. bridge'.tools \subseteq server.offers
    BY <1>1, <1>2, <1>9, <2>1 DEF ToolsListed
  <2>7. ServerOwned' /\ ToolsListed'
    BY <1>1, <1>2, <1>6, <1>7, <1>9, <2>2, <2>6 DEF ServerOwned, ToolsListed, Asking, NotClosing
  <2> QED BY <1>5, <2>3, <2>4, <2>5, <2>7 DEF BridgeInv
<1> QED BY <1>8, <1>9

\* A request gets a new id, above every id the server knows.
LEMMA AskKeepsIds ==
    ASSUME BridgeInv, NEW what \in {"list"} \union Tools,
           Ask(what, NextId(client.id)), UNCHANGED server
    PROVE  IdsTell'
<1>1. /\ TypeOK /\ client.id <= counts.requests
      /\ client \in [process: BOOLEAN, id: 0..MaxRequests]
      /\ \A r \in Request : Known(r) => r.id <= client.id
  BY DEF BridgeInv, TypeOK, Control, IdsTell
<1>2. /\ at' = "writing" /\ client'.id = client.id + 1 /\ request'.id = client.id + 1
  BY <1>1, AskTypes DEF Ask
<1>3. \A r \in Request : r.id \in Nat
  BY BridgeAssumption DEF Request
<1>4. client.id \in Nat
  BY <1>1, BridgeAssumption
<1>5. \A r \in Request : Known(r)' => Known(r)
  BY DEF Known
<1> QED BY <1>1, <1>2, <1>3, <1>4, <1>5 DEF IdsTell

LEMMA WriteKeepsInv == ASSUME BridgeInv, Write PROVE BridgeInv'
<1> USE BridgeAssumption
<1>1. TypeOK /\ Control /\ IdsTell /\ ServerOwned /\ ToolsListed /\ AnswersMatch
  BY DEF BridgeInv
<1>2. /\ at = "writing" /\ UNCHANGED <<closing, delivered>>
      /\ client.process /\ closing = NotClosing /\ client.id <= counts.requests
      /\ request \in Request /\ request.id = client.id
      /\ bridge.client <=> request.what \in {"list"} \union Tools
  BY <1>1 DEF Write, Control, Asking, TypeOK
<1>3. CASE request.what = "notify"
  <2>1. /\ bridge' = [bridge EXCEPT !.client = TRUE]
        /\ Ask("list", NextId(client.id)) /\ UNCHANGED server
    BY <1>3 DEF Write
  <2>2. /\ request' \in Request /\ request' # None
        /\ request'.what = "list" /\ request'.id = client'.id
        /\ client'.process /\ client' \in [process: BOOLEAN, id: 0..MaxRequests]
        /\ client'.id <= counts'.requests /\ at' = "writing"
        /\ counts' \in [servers: 0..MaxServers, requests: 0..MaxRequests, noise: 0..MaxNoise]
    <3>1. client.id \in Nat /\ counts.requests \in Nat
      BY <1>1 DEF TypeOK
    <3>2. at' = "writing"
      BY <2>1 DEF Ask
    <3> QED BY <1>1, <1>2, <2>1, <3>1, <3>2, AskTypes
  <2>3. bridge' \in [client: BOOLEAN, tools: SUBSET Tools] /\ bridge'.client /\ bridge'.tools = bridge.tools
    BY <1>1, <2>1 DEF TypeOK
  <2>4. bridge.tools = {} /\ ~bridge.client
    BY <1>1, <1>2, <1>3 DEF ToolsListed
  <2>5. TypeOK'
    BY <1>1, <1>2, <2>1, <2>2, <2>3 DEF TypeOK
  <2>6. Control'
    BY <1>2, <2>2, <2>3 DEF Control, Asking, NotClosing
  <2>7. IdsTell'
    BY <2>1, AskKeepsIds
  <2>8. ServerOwned' /\ ToolsListed' /\ AnswersMatch'
    BY <1>1, <1>2, <2>1, <2>2, <2>3, <2>4 DEF ServerOwned, ToolsListed, AnswersMatch, Asking, NotClosing
  <2> QED BY <2>5, <2>6, <2>7, <2>8 DEF BridgeInv
<1>4. CASE request.what # "notify"
  <2>1. /\ at' = "waiting" /\ UNCHANGED <<bridge, client, request, counts>>
        /\ server' = IF server.life = "running"
                     THEN [server EXCEPT !.inbox = @ \union {request}] ELSE server
    BY <1>4 DEF Write
  <2>2. server \in [life: {"none", "running", "ended"}, offers: SUBSET Tools,
                     inbox: SUBSET Request, out: Seq(Message),
                     stderr: {"drained", "lost", "full"}]
    BY <1>1 DEF TypeOK
  <2>3. /\ server' \in [life: {"none", "running", "ended"}, offers: SUBSET Tools,
                        inbox: SUBSET Request, out: Seq(Message),
                        stderr: {"drained", "lost", "full"}]
        /\ server'.life = server.life /\ server'.offers = server.offers
        /\ server'.out = server.out /\ server'.inbox \subseteq server.inbox \union {request}
    BY <1>2, <2>1, <2>2
  <2>4. TypeOK'
    BY <1>1, <1>2, <2>1, <2>3 DEF TypeOK
  <2>5. Control'
    BY <1>1, <1>2, <1>4, <2>1 DEF Control, Asking
  <2>6. \A r : Known(r)' => Known(r) \/ r = request
    BY <2>3 DEF Known
  <2>7. \A r \in Request : r.id \in Nat
    BY DEF Request
  <2>8. IdsTell'
    BY <1>1, <1>2, <1>4, <2>1, <2>6, <2>7 DEF IdsTell
  <2>9. ServerOwned' /\ ToolsListed' /\ AnswersMatch'
    BY <1>1, <1>2, <2>1, <2>3 DEF ServerOwned, ToolsListed, AnswersMatch, Asking
  <2> QED BY <2>4, <2>5, <2>8, <2>9 DEF BridgeInv
<1> QED BY <1>3, <1>4

LEMMA ConnectKeepsInv == ASSUME BridgeInv, Connect PROVE BridgeInv'
<1> USE BridgeAssumption
<1>1. TypeOK /\ Control /\ ToolsListed /\ AnswersMatch
  BY DEF BridgeInv
<1>2. /\ at = "idle" /\ ~bridge.client
      /\ counts.servers < MaxServers /\ counts.requests + 1 < MaxRequests
      /\ counts' = [counts EXCEPT !.servers = @ + 1, !.requests = @ + 1]
      /\ request' = [id |-> 1, what |-> "initialize", serial |-> counts.requests + 1]
      /\ client' = [process |-> TRUE, id |-> 1]
      /\ at' = "writing"
      /\ UNCHANGED <<bridge, closing, delivered>>
  BY DEF Connect
<1>3. PICK offers \in SUBSET Tools :
        server' = [life |-> "running", offers |-> offers, inbox |-> {}, out |-> << >>,
                   stderr |-> "drained"]
  BY DEF Connect
<1>4. counts \in [servers: 0..MaxServers, requests: 0..MaxRequests, noise: 0..MaxNoise]
  BY <1>1 DEF TypeOK
<1>5. /\ counts' \in [servers: 0..MaxServers, requests: 0..MaxRequests, noise: 0..MaxNoise]
      /\ counts'.requests >= 1
      /\ 1 \in 0..MaxRequests /\ counts.requests + 1 \in 0..MaxRequests
  <2>1. /\ counts.servers + 1 \in 0..MaxServers /\ counts.requests + 1 \in 0..MaxRequests
        /\ counts.requests \in Nat /\ 1 \in 0..MaxRequests
    BY <1>2, <1>4
  <2>2. counts' = [servers |-> counts.servers + 1, requests |-> counts.requests + 1,
                   noise |-> counts.noise]
    BY <1>2, <1>4
  <2> QED BY <1>4, <2>1, <2>2
<1>6. request' \in Request /\ request' # None
  BY <1>2, <1>5 DEF Request
<1>7. TypeOK'
  <2>1. server' \in [life: {"none", "running", "ended"}, offers: SUBSET Tools,
                     inbox: SUBSET Request, out: Seq(Message),
                     stderr: {"drained", "lost", "full"}]
    BY <1>3
  <2>2. client' \in [process: BOOLEAN, id: 0..MaxRequests]
    BY <1>2, <1>5
  <2> QED BY <1>1, <1>2, <1>5, <1>6, <2>1, <2>2 DEF TypeOK
<1>8. bridge.tools = {} /\ closing = NotClosing
  BY <1>1, <1>2 DEF ToolsListed, Control
<1>9. Control'
  BY <1>2, <1>5, <1>6, <1>8 DEF Control, Asking, NotClosing
<1>10. IdsTell'
  BY <1>3 DEF IdsTell, Known
<1>11. ServerOwned' /\ ToolsListed' /\ AnswersMatch'
  BY <1>1, <1>2, <1>8 DEF ServerOwned, ToolsListed, AnswersMatch, Asking, NotClosing
<1> QED BY <1>7, <1>9, <1>10, <1>11 DEF BridgeInv

LEMMA CallToolKeepsInv ==
    ASSUME BridgeInv, NEW tool \in Tools, CallTool(tool) PROVE BridgeInv'
<1> USE BridgeAssumption
<1>1. TypeOK /\ Control /\ IdsTell /\ ServerOwned /\ ToolsListed /\ AnswersMatch
  BY DEF BridgeInv
<1>2. /\ at = "idle" /\ bridge.client /\ client.process
      /\ tool \in bridge.tools
      /\ tool \in Preparing => RuntimeReady(bridge.tools)
      /\ Ask(tool, NextId(client.id))
      /\ UNCHANGED <<bridge, closing, server, delivered>>
      /\ at' = "writing"
  BY DEF CallTool, AssertToolAvailable, Ask
<1>3. client.id <= counts.requests /\ closing = NotClosing
  BY <1>1, <1>2 DEF Control
<1>4. client.id \in Nat /\ counts.requests \in Nat
  BY <1>1 DEF TypeOK
<1>5. /\ request' \in Request /\ request' # None
      /\ request'.what = tool /\ request'.id = client'.id
      /\ client'.process /\ client' \in [process: BOOLEAN, id: 0..MaxRequests]
      /\ client'.id <= counts'.requests
      /\ counts' \in [servers: 0..MaxServers, requests: 0..MaxRequests, noise: 0..MaxNoise]
  <2>1. tool \in {"initialize", "notify", "list"} \union Tools
    OBVIOUS
  <2>2. /\ request' = [id |-> client.id + 1, what |-> tool, serial |-> counts.requests + 1]
        /\ request' \in Request /\ request' # None
        /\ client' = [process |-> TRUE, id |-> client.id + 1]
        /\ client' \in [process: BOOLEAN, id: 0..MaxRequests]
        /\ counts'.requests = counts.requests + 1
        /\ counts' \in [servers: 0..MaxServers, requests: 0..MaxRequests, noise: 0..MaxNoise]
    BY <1>1, <1>2, <1>3, <2>1, AskTypes
  <2> QED BY <1>3, <1>4, <2>2
<1>6. TypeOK'
  BY <1>1, <1>2, <1>5 DEF TypeOK
<1>7. Control'
  BY <1>2, <1>3, <1>5 DEF Control, Asking, NotClosing
<1>8. IdsTell'
  BY <1>2, AskKeepsIds
<1>9. /\ tool \in server.offers
      /\ tool \in Preparing => RuntimeReady(server.offers)
  BY <1>1, <1>2 DEF ToolsListed, RuntimeReady
<1>10. ServerOwned' /\ ToolsListed' /\ AnswersMatch'
  BY <1>1, <1>2, <1>3, <1>5, <1>9 DEF ServerOwned, ToolsListed, AnswersMatch, Asking, NotClosing
<1> QED BY <1>6, <1>7, <1>8, <1>10 DEF BridgeInv

LEMMA CloseKeepsInv == ASSUME BridgeInv, Close PROVE BridgeInv'
<1> USE BridgeAssumption
<1>1. TypeOK /\ Control /\ IdsTell /\ ServerOwned /\ ToolsListed /\ AnswersMatch
  BY DEF BridgeInv
<1>2. /\ at = "idle" /\ bridge.client
      /\ bridge' = [client |-> FALSE, tools |-> {}]
      /\ UNCHANGED <<request, server, delivered, counts>>
      /\ \/ /\ client.process /\ at' = "closing"
            /\ closing' = [phase |-> "eof", after |-> "caller"]
            /\ client' = [client EXCEPT !.process = FALSE]
         \/ ~client.process /\ UNCHANGED <<at, closing, client>>
  BY DEF Close
<1>3. /\ client \in [process: BOOLEAN, id: 0..MaxRequests]
      /\ request = None /\ closing = NotClosing
  BY <1>1, <1>2 DEF Control, TypeOK, Asking
<1>4. client' \in [process: BOOLEAN, id: 0..MaxRequests] /\ client'.id = client.id /\ ~client'.process
  BY <1>2, <1>3
<1>5. TypeOK'
  BY <1>1, <1>2, <1>4 DEF TypeOK
<1>6. Control'
  BY <1>1, <1>2, <1>3, <1>4 DEF Control, Asking, NotClosing
<1>7. IdsTell'
  BY <1>1, <1>2, <1>4 DEF IdsTell, Known
<1>8. ServerOwned' /\ ToolsListed' /\ AnswersMatch'
  BY <1>1, <1>2, <1>3, <1>4 DEF ServerOwned, ToolsListed, AnswersMatch, Asking, NotClosing
<1> QED BY <1>5, <1>6, <1>7, <1>8 DEF BridgeInv

\* The three steps of closing a client.
LEMMA ClosingKeepsInv ==
    ASSUME BridgeInv, \/ WaitTimesOut
                      \/ Exited
                      \/ Reap
    PROVE  BridgeInv'
<1> USE BridgeAssumption
<1>1. TypeOK /\ Control /\ IdsTell /\ ServerOwned /\ ToolsListed /\ AnswersMatch
  BY DEF BridgeInv
<1>2. closing \in [phase: {"none", "eof", "terminate", "kill", "reap"},
                   after: {"none", "caller", "start", "list"}]
  BY <1>1 DEF TypeOK
<1>3. server \in [life: {"none", "running", "ended"}, offers: SUBSET Tools,
                  inbox: SUBSET Request, out: Seq(Message),
                  stderr: {"drained", "lost", "full"}]
  BY <1>1 DEF TypeOK
<1>4. at = "closing" /\ UNCHANGED <<client, request, delivered, counts>>
  BY DEF WaitTimesOut, Exited, Reap
<1>5. request = None /\ ~client.process /\ (bridge.client <=> closing.after = "list")
  BY <1>1, <1>4 DEF Control, Asking
<1>6. CASE WaitTimesOut
  <2>1. /\ UNCHANGED <<at, bridge, server>>
        /\ closing.phase \in {"eof", "terminate"}
        /\ closing' = [closing EXCEPT !.phase = Escalate(@)]
    BY <1>6 DEF WaitTimesOut
  <2>2. Escalate(closing.phase) \in {"terminate", "kill"}
    BY <2>1 DEF Escalate
  <2>3. /\ closing' \in [phase: {"none", "eof", "terminate", "kill", "reap"},
                         after: {"none", "caller", "start", "list"}]
        /\ closing'.phase \in {"terminate", "kill"} /\ closing'.after = closing.after
    BY <1>2, <2>1, <2>2
  <2>4. TypeOK' /\ Control'
    BY <1>1, <1>4, <1>5, <2>1, <2>3 DEF TypeOK, Control, Asking
  <2>5. IdsTell'
    BY <1>1, <1>4, <2>1 DEF IdsTell, Known
  <2>6. ServerOwned' /\ ToolsListed' /\ AnswersMatch'
    BY <1>1, <1>4, <2>1, <2>3 DEF ServerOwned, ToolsListed, AnswersMatch, Asking
  <2> QED BY <2>4, <2>5, <2>6 DEF BridgeInv
<1>7. CASE Exited
  <2>1. /\ UNCHANGED <<at, bridge>>
        /\ server' = [server EXCEPT !.life = "ended"]
        /\ closing' = [closing EXCEPT !.phase = "reap"]
    BY <1>7 DEF Exited
  <2>2. /\ closing' \in [phase: {"none", "eof", "terminate", "kill", "reap"},
                         after: {"none", "caller", "start", "list"}]
        /\ closing'.phase = "reap" /\ closing'.after = closing.after
    BY <1>2, <2>1
  <2>3. /\ server' \in [life: {"none", "running", "ended"}, offers: SUBSET Tools,
                        inbox: SUBSET Request, out: Seq(Message),
                        stderr: {"drained", "lost", "full"}]
        /\ server'.life = "ended" /\ server'.offers = server.offers
        /\ server'.inbox = server.inbox /\ server'.out = server.out
    BY <1>3, <2>1
  <2>4. TypeOK' /\ Control'
    BY <1>1, <1>4, <1>5, <2>1, <2>2, <2>3 DEF TypeOK, Control, Asking
  <2>5. IdsTell'
    BY <1>1, <1>4, <2>1, <2>3 DEF IdsTell, Known
  <2>6. ServerOwned' /\ ToolsListed' /\ AnswersMatch'
    BY <1>1, <1>4, <2>1, <2>2, <2>3 DEF ServerOwned, ToolsListed, AnswersMatch, Asking
  <2> QED BY <2>4, <2>5, <2>6 DEF BridgeInv
<1>8. CASE Reap
  <2>1. /\ closing.phase = "reap" /\ at' = "idle" /\ closing' = NotClosing
        /\ UNCHANGED server
        /\ bridge' = [client |-> FALSE, tools |-> {}] \/ bridge' = bridge
    BY <1>8 DEF Reap
  <2>2. bridge.tools = {} /\ server.life = "ended"
    BY <1>1, <1>5, <2>1 DEF ToolsListed, ServerOwned
  <2>3. bridge' \in [client: BOOLEAN, tools: SUBSET Tools] /\ bridge'.tools = {}
    <3>1. FALSE \in BOOLEAN /\ {} \in SUBSET Tools
      OBVIOUS
    <3>2. [client |-> FALSE, tools |-> {}] \in [client: BOOLEAN, tools: SUBSET Tools]
      BY <3>1
    <3>3. bridge \in [client: BOOLEAN, tools: SUBSET Tools]
      BY <1>1 DEF TypeOK
    <3>4. CASE bridge' = bridge
      BY <2>2, <3>3, <3>4
    <3>5. CASE bridge' = [client |-> FALSE, tools |-> {}]
      BY <3>2, <3>5
    <3> QED BY <2>1, <3>4, <3>5
  <2>4. TypeOK' /\ Control'
    BY <1>1, <1>4, <1>5, <2>1, <2>3 DEF TypeOK, Control, Asking, NotClosing
  <2>5. IdsTell'
    BY <1>1, <1>4, <2>1 DEF IdsTell, Known
  <2>6. ServerOwned' /\ ToolsListed' /\ AnswersMatch'
    BY <1>1, <1>4, <1>5, <2>1, <2>2, <2>3 DEF ServerOwned, ToolsListed, AnswersMatch, Asking, NotClosing
  <2> QED BY <2>4, <2>5, <2>6 DEF BridgeInv
<1> QED BY <1>6, <1>7, <1>8

\* Whatever the server does, it learns of no request and comes to no life.
LEMMA ServerKeepsInv ==
    ASSUME BridgeInv, UNCHANGED <<bridge, client, at, request, closing, delivered>>,
           counts' \in [servers: 0..MaxServers, requests: 0..MaxRequests, noise: 0..MaxNoise],
           counts'.requests = counts.requests,
           server' \in [life: {"none", "running", "ended"}, offers: SUBSET Tools,
                        inbox: SUBSET Request, out: Seq(Message),
                        stderr: {"drained", "lost", "full"}],
           server'.life \in {server.life, "ended"}, server'.offers = server.offers,
           \A r \in Request : Known(r)' => Known(r)
    PROVE  BridgeInv'
<1>1. TypeOK /\ Control /\ IdsTell /\ ServerOwned /\ ToolsListed /\ AnswersMatch
  BY DEF BridgeInv
<1>2. TypeOK' /\ Control'
  BY <1>1 DEF TypeOK, Control, Asking
<1>3. IdsTell'
  BY <1>1 DEF IdsTell
<1>4. ServerOwned' /\ ToolsListed' /\ AnswersMatch'
  BY <1>1 DEF ServerOwned, ToolsListed, AnswersMatch, Asking
<1> QED BY <1>2, <1>3, <1>4 DEF BridgeInv

LEMMA AnswerKeepsInv ==
    ASSUME BridgeInv, NEW r \in server.inbox, Answer(r) PROVE BridgeInv'
<1>1. /\ server \in [life: {"none", "running", "ended"}, offers: SUBSET Tools,
                     inbox: SUBSET Request, out: Seq(Message),
                     stderr: {"drained", "lost", "full"}]
      /\ counts \in [servers: 0..MaxServers, requests: 0..MaxRequests, noise: 0..MaxNoise]
  BY DEF BridgeInv, TypeOK
<1>2. /\ UNCHANGED <<bridge, client, at, request, closing, delivered, counts>>
      /\ \E kind \in {"result", "unusable", "error"} :
            server' = [server EXCEPT !.inbox = @ \ {r},
                                     !.out = Append(@, [kind |-> kind, re |-> r])]
  BY DEF Answer
<1>3. PICK kind \in {"result", "unusable", "error"} :
        server' = [server EXCEPT !.inbox = @ \ {r},
                                 !.out = Append(@, [kind |-> kind, re |-> r])]
  BY <1>2
<1> DEFINE m == [kind |-> kind, re |-> r]
<1>4. m \in Message /\ m.re = r
  BY <1>1 DEF Message
<1>5. /\ server.out \in Seq(Message)
      /\ server'.inbox = server.inbox \ {r} /\ server'.out = Append(server.out, m)
      /\ server'.life = server.life /\ server'.offers = server.offers
      /\ server'.stderr = server.stderr
  BY <1>1, <1>3
<1> HIDE DEF m
<1>6. /\ Append(server.out, m) \in Seq(Message)
      /\ \A i \in DOMAIN Append(server.out, m) :
            \/ Append(server.out, m)[i] = m
            \/ i \in DOMAIN server.out /\ Append(server.out, m)[i] = server.out[i]
  BY <1>4, <1>5, AppendKeeps
<1>7. server' \in [life: {"none", "running", "ended"}, offers: SUBSET Tools,
                  inbox: SUBSET Request, out: Seq(Message),
                  stderr: {"drained", "lost", "full"}]
  <2>1. server.inbox \ {r} \in SUBSET Request
    BY <1>1
  <2> QED BY <1>1, <1>3, <1>6, <2>1 DEF m
<1>8. \A q \in Request : Known(q)' => Known(q)
  BY <1>4, <1>5, <1>6 DEF Known
<1> QED BY <1>1, <1>2, <1>5, <1>7, <1>8, ServerKeepsInv

LEMMA UnaskedKeepsInv == ASSUME BridgeInv, Unasked PROVE BridgeInv'
<1> USE BridgeAssumption
<1>1. /\ server \in [life: {"none", "running", "ended"}, offers: SUBSET Tools,
                     inbox: SUBSET Request, out: Seq(Message),
                     stderr: {"drained", "lost", "full"}]
      /\ counts \in [servers: 0..MaxServers, requests: 0..MaxRequests, noise: 0..MaxNoise]
  BY DEF BridgeInv, TypeOK
<1>2. /\ UNCHANGED <<bridge, client, at, request, closing, delivered>>
      /\ counts.noise < MaxNoise /\ counts' = [counts EXCEPT !.noise = @ + 1]
  BY DEF Unasked
<1>3. PICK kind \in {"note", "garbage"} :
        server' = [server EXCEPT !.out = Append(@, [kind |-> kind, re |-> None])]
  BY DEF Unasked
<1> DEFINE m == [kind |-> kind, re |-> None]
<1>4. m \in Message /\ m.re \notin Request
  BY DEF Message
<1>5. /\ server.out \in Seq(Message)
      /\ server'.inbox = server.inbox /\ server'.out = Append(server.out, m)
      /\ server'.life = server.life /\ server'.offers = server.offers
  BY <1>1, <1>3
<1> HIDE DEF m
<1>6. /\ Append(server.out, m) \in Seq(Message)
      /\ \A i \in DOMAIN Append(server.out, m) :
            \/ Append(server.out, m)[i] = m
            \/ i \in DOMAIN server.out /\ Append(server.out, m)[i] = server.out[i]
  BY <1>4, <1>5, AppendKeeps
<1>7. server' \in [life: {"none", "running", "ended"}, offers: SUBSET Tools,
                  inbox: SUBSET Request, out: Seq(Message),
                  stderr: {"drained", "lost", "full"}]
  BY <1>1, <1>3, <1>6 DEF m
<1>8. \A q \in Request : Known(q)' => Known(q)
  BY <1>4, <1>5, <1>6 DEF Known
<1>9. /\ counts' \in [servers: 0..MaxServers, requests: 0..MaxRequests, noise: 0..MaxNoise]
      /\ counts'.requests = counts.requests
  <2>1. counts.noise + 1 \in 0..MaxNoise
    BY <1>1, <1>2
  <2> QED BY <1>1, <1>2, <2>1
<1> QED BY <1>2, <1>5, <1>7, <1>8, <1>9, ServerKeepsInv

LEMMA DecayKeepsInv == ASSUME BridgeInv, StderrOverruns \/ Exit PROVE BridgeInv'
<1>1. /\ server \in [life: {"none", "running", "ended"}, offers: SUBSET Tools,
                     inbox: SUBSET Request, out: Seq(Message),
                     stderr: {"drained", "lost", "full"}]
      /\ counts \in [servers: 0..MaxServers, requests: 0..MaxRequests, noise: 0..MaxNoise]
  BY DEF BridgeInv, TypeOK
<1>2. /\ UNCHANGED <<bridge, client, at, request, closing, delivered, counts>>
      /\ \/ server' = [server EXCEPT !.stderr = IF @ = "drained" THEN "lost" ELSE "full"]
         \/ server' = [server EXCEPT !.life = "ended"]
  BY DEF StderrOverruns, Exit
<1>3. /\ server' \in [life: {"none", "running", "ended"}, offers: SUBSET Tools,
                      inbox: SUBSET Request, out: Seq(Message),
                      stderr: {"drained", "lost", "full"}]
      /\ server'.life \in {server.life, "ended"} /\ server'.offers = server.offers
      /\ server'.inbox = server.inbox /\ server'.out = server.out
  BY <1>1, <1>2
<1>4. \A q \in Request : Known(q)' => Known(q)
  BY <1>3 DEF Known
<1> QED BY <1>1, <1>2, <1>3, <1>4, ServerKeepsInv

\* Every step keeps the invariant.
LEMMA StepKeepsInv == ASSUME BridgeInv, [Next]_vars PROVE BridgeInv'
<1>1. CASE UNCHANGED vars
  BY <1>1 DEF vars, BridgeInv, TypeOK, Control, IdsTell, ServerOwned, ToolsListed,
     AnswersMatch, Asking, Known
<1>2. CASE Connect \/ Close
  BY <1>2, ConnectKeepsInv, CloseKeepsInv
<1>3. CASE \E tool \in Tools : CallTool(tool)
  BY <1>3, CallToolKeepsInv
<1>4. CASE Client
  BY <1>4, WriteKeepsInv, WriteFailsKeepsInv, SkipKeepsInv, ReadFailsKeepsInv,
     EndOfFileKeepsInv, ReturnKeepsInv, ClosingKeepsInv DEF Client
<1>5. CASE \E r \in server.inbox : Answer(r)
  BY <1>5, AnswerKeepsInv
<1>6. CASE Unasked \/ StderrOverruns \/ Exit
  BY <1>6, UnaskedKeepsInv, DecayKeepsInv
<1> QED BY <1>1, <1>2, <1>3, <1>4, <1>5, <1>6 DEF Next

\* The inductive invariant: types, and how the coroutine, the ids, the process
\* and the tools belong together (all handlers of the bridge and its client).
THEOREM BridgeInvariant == Spec => []BridgeInv
<1>1. Init => BridgeInv
  BY InitEstablishesInv
<1>2. BridgeInv /\ [Next]_vars => BridgeInv'
  BY StepKeepsInv
<1> QED BY <1>1, <1>2, PTL DEF Spec

\* What a call returns is the answer to that call, however late earlier answers
\* of the same client arrive (request() and its ids).
THEOREM AnswersReachTheirCall == Spec => []AnswersMatch
<1>1. BridgeInv => AnswersMatch
  BY DEF BridgeInv
<1> QED BY <1>1, BridgeInvariant, PTL

\* Whatever fails during connect() or close(), a bridge without a client has no
\* server running, and one left with a dead client has no tools.
THEOREM IdleBridgeIsClean == Spec => []IdleIsClean
<1>1. BridgeInv => IdleIsClean
  BY DEF BridgeInv, IdleIsClean, Control, ServerOwned, ToolsListed
<1> QED BY <1>1, BridgeInvariant, PTL

\* A tool call reaches only a server that listed it, and the preparation of a
\* transaction only one with the required set (_assert_tool_available).
THEOREM CallsFailClosed == Spec => CallsAreOffered
<1>1. BridgeInv /\ [Next]_vars =>
        [\A r \in server'.inbox \ server.inbox : r.what \in Tools =>
            /\ r.what \in server.offers
            /\ r.what \in Preparing => RuntimeReady(server.offers)]_vars
  <2> SUFFICES ASSUME BridgeInv, [Next]_vars,
                      NEW r \in server'.inbox \ server.inbox, r.what \in Tools
               PROVE  /\ r.what \in server.offers
                      /\ r.what \in Preparing => RuntimeReady(server.offers)
    OBVIOUS
  <2>1. server \in [life: {"none", "running", "ended"}, offers: SUBSET Tools,
                    inbox: SUBSET Request, out: Seq(Message),
                    stderr: {"drained", "lost", "full"}]
    BY DEF BridgeInv, TypeOK
  <2>2. CASE Write
    <3>1. r = request /\ Asking
      BY <2>1, <2>2 DEF Write, Asking
    <3> QED BY <3>1 DEF BridgeInv, ToolsListed
  <2>3. CASE Connect
    BY <2>3 DEF Connect
  <2>4. CASE Close \/ \E tool \in Tools : CallTool(tool)
    BY <2>4 DEF Close, CallTool
  <2>5. CASE Client /\ ~Write
    BY <2>1, <2>5 DEF Client, WriteFails, Skip, ReadFails, EndOfFile, Return, Reading,
       WaitTimesOut, Exited, Reap
  <2>6. CASE \E q \in server.inbox : Answer(q)
    BY <2>1, <2>6 DEF Answer
  <2>7. CASE Unasked \/ StderrOverruns \/ Exit
    BY <2>1, <2>7 DEF Unasked, StderrOverruns, Exit
  <2>8. CASE UNCHANGED vars
    BY <2>8 DEF vars
  <2> QED BY <2>2, <2>3, <2>4, <2>5, <2>6, <2>7, <2>8 DEF Next, Client
<1> QED BY <1>1, BridgeInvariant, PTL DEF Spec, CallsAreOffered
=============================================================================
