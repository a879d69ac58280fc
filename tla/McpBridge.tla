------------------------------ MODULE McpBridge ------------------------------
(***************************************************************************)
(* MandatedVaultMcpBridge and the _SubprocessMcpClient below it: one       *)
(* caller, one server at a time in a child process, requests written to    *)
(* its stdin and messages read from its stdout until one carries the id    *)
(* that was asked for.                                                     *)
(*                                                                         *)
(* External: the server, which answers in any order, late, unusably or     *)
(* never, prints what it likes and ends when it likes; and the caller,     *)
(* which goes on with the bridge after any error.                          *)
(***************************************************************************)
EXTENDS Naturals, Sequences

CONSTANTS
    Tools,         \* names of tools
    Required,      \* MANDATED_V1_REQUIRED_TOOLS
    Bootstrap,     \* MANDATED_BOOTSTRAP_REQUIRED_TOOLS
    Preparing,     \* tools called with tx_preparation
    MaxServers, MaxRequests, MaxNoise,   \* bounds of the runs
    None

VARIABLES
    bridge,    \* the bridge: has it a _client, and _available_tools
    client,    \* the client: has it a _process, and _request_id
    at,        \* where the coroutine is
    request,   \* the request under way
    closing,   \* how far close() is, and for whom
    server,    \* the child process and its pipes
    delivered, \* observer: the last request that returned, and its answer
    counts     \* servers, requests and unasked messages so far

vars == <<bridge, client, at, request, closing, server, delivered, counts>>

\* "serial" tells requests of different clients apart; the code has "id" only.
Request == [id: 0..MaxRequests, what: {"initialize", "notify", "list"} \union Tools,
            serial: 0..MaxRequests]

ASSUME BridgeAssumption ==
    /\ Required \subseteq Tools /\ Bootstrap \subseteq Tools /\ Preparing \subseteq Tools
    /\ {"initialize", "notify", "list"} \intersect Tools = {}
    /\ MaxServers \in Nat /\ MaxRequests \in Nat /\ MaxNoise \in Nat
    /\ None \notin Request

Message == [kind: {"result", "unusable", "error", "note", "garbage"},
            re: Request \union {None}]

TypeOK ==
    /\ bridge \in [client: BOOLEAN, tools: SUBSET Tools]
    /\ client \in [process: BOOLEAN, id: 0..MaxRequests]
    /\ at \in {"idle", "writing", "waiting", "closing"}
    /\ request \in Request \union {None}
    /\ closing \in [phase: {"none", "eof", "terminate", "kill", "reap"},
                    after: {"none", "caller", "start", "list"}]
    /\ server \in [life: {"none", "running", "ended"}, offers: SUBSET Tools,
                   inbox: SUBSET Request, out: Seq(Message),
                   stderr: {"drained", "lost", "full"}]
    /\ delivered \in [asked: Request, got: Message] \union {None}
    /\ counts \in [servers: 0..MaxServers, requests: 0..MaxRequests, noise: 0..MaxNoise]

NotClosing == [phase |-> "none", after |-> "none"]

Init ==
    /\ bridge = [client |-> FALSE, tools |-> {}]
    /\ client = [process |-> FALSE, id |-> 0]
    /\ at = "idle"
    /\ request = None
    /\ closing = NotClosing
    /\ server = [life |-> "none", offers |-> {}, inbox |-> {}, out |-> << >>,
                 stderr |-> "drained"]
    /\ delivered = None
    /\ counts = [servers |-> 0, requests |-> 0, noise |-> 0]
-----------------------------------------------------------------------------
(* Requests *)

\* Mutant: the id is not incremented.
NextIdStays(id) == 1

NextId(id) == id + 1

\* The top of request(): the next id, and the message about to be written.
Ask(what, id) ==
    /\ counts.requests < MaxRequests
    /\ counts' = [counts EXCEPT !.requests = @ + 1]
    /\ request' = [id |-> id, what |-> what, serial |-> counts.requests + 1]
    /\ client' = [process |-> TRUE, id |-> id]
    /\ at' = "writing"

\* Mutant: start() does not clean up behind a failed handshake.
RaiseLeavingProcess(what) ==
    /\ request' = None
    /\ IF what = "list"
       THEN /\ at' = "closing"
            /\ closing' = [phase |-> "eof", after |-> "list"]
            /\ client' = [client EXCEPT !.process = FALSE]
       ELSE at' = "idle" /\ UNCHANGED <<closing, client>>

\* request() or notify() raises: start() and connect() close the client they
\* began with, a tool call raises to the caller and leaves the client open.
Raise(what) ==
    /\ request' = None
    /\ IF what \in Tools
       THEN at' = "idle" /\ UNCHANGED <<closing, client>>
       ELSE /\ at' = "closing"
            /\ closing' = [phase |-> "eof", after |-> IF what = "list" THEN "list" ELSE "start"]
            /\ client' = [client EXCEPT !.process = FALSE]

\* The line is in the pipe.  The notification that ends the handshake has no
\* answer: the bridge has its client and asks for the tools.
Write ==
    /\ at = "writing"
    /\ IF request.what = "notify"
       THEN /\ bridge' = [bridge EXCEPT !.client = TRUE]
            /\ Ask("list", NextId(client.id))
            /\ UNCHANGED server
       ELSE /\ at' = "waiting"
            /\ server' = IF server.life = "running"
                         THEN [server EXCEPT !.inbox = @ \union {request}] ELSE server
            /\ UNCHANGED <<bridge, client, request, counts>>
    /\ UNCHANGED <<closing, delivered>>

\* drain() finds the pipe broken.
WriteFails ==
    /\ at = "writing" /\ server.life = "ended"
    /\ Raise(request.what)
    /\ UNCHANGED <<bridge, server, delivered, counts>>

FirstLine == Head(server.out)

\* _read_message() in the loop of request().
Reading ==
    /\ at = "waiting" /\ server.out # << >>
    /\ server' = [server EXCEPT !.out = Tail(@)]

Answers(m) == m.re # None /\ m.re.id = request.id

\* A message with another id, or none, is skipped.
Skip ==
    /\ Reading
    /\ FirstLine.kind # "garbage" /\ ~Answers(FirstLine)
    /\ UNCHANGED <<bridge, client, at, request, closing, delivered, counts>>

\* Not JSON, not an object, headers that announce nothing; an error or an
\* unusable result under the right id.
ReadFails ==
    /\ Reading
    /\ \/ FirstLine.kind = "garbage"
       \/ Answers(FirstLine) /\ FirstLine.kind \in {"error", "unusable"}
    /\ Raise(request.what)
    /\ UNCHANGED <<bridge, delivered, counts>>

\* Mutant: an empty read is taken for an empty line and read again.
EndOfFileReadAgain ==
    /\ at = "waiting" /\ server.out = << >> /\ server.life = "ended"
    /\ UNCHANGED vars

\* End of file: the process exited before completing the request.
EndOfFile ==
    /\ at = "waiting" /\ server.out = << >> /\ server.life = "ended"
    /\ Raise(request.what)
    /\ UNCHANGED <<bridge, server, delivered, counts>>

\* The awaited answer: the handshake goes on, the tools are known, or a tool
\* call returns.
Return ==
    /\ Reading
    /\ FirstLine.kind = "result" /\ Answers(FirstLine)
    /\ delivered' = [asked |-> request, got |-> FirstLine]
    /\ IF request.what = "initialize"
       THEN /\ request' = [request EXCEPT !.what = "notify"]
            /\ at' = "writing"
            /\ UNCHANGED bridge
       ELSE /\ bridge' = IF request.what = "list"
                         THEN [bridge EXCEPT !.tools = server.offers] ELSE bridge
            /\ request' = None
            /\ at' = "idle"
    /\ UNCHANGED <<client, closing, counts>>
-----------------------------------------------------------------------------
(* The bridge *)

\* connect(), also at the top of every tool call: a new client and a new
\* process.  An existing client, and a command that cannot be started, change
\* nothing.
Connect ==
    /\ at = "idle" /\ ~bridge.client
    /\ counts.servers < MaxServers /\ counts.requests + 1 < MaxRequests
    /\ \E offers \in SUBSET Tools :
        server' = [life |-> "running", offers |-> offers, inbox |-> {}, out |-> << >>,
                   stderr |-> "drained"]
    /\ counts' = [counts EXCEPT !.servers = @ + 1, !.requests = @ + 1]
    /\ request' = [id |-> 1, what |-> "initialize", serial |-> counts.requests + 1]
    /\ client' = [process |-> TRUE, id |-> 1]
    /\ at' = "writing"
    /\ UNCHANGED <<bridge, closing, delivered>>

RuntimeReady(tools) == Bootstrap \subseteq tools \/ Required \subseteq tools

\* Mutant: the tool is there, so it may be called.
AssertToolListed(tool) == tool \in bridge.tools

AssertToolAvailable(tool) ==
    /\ tool \in bridge.tools
    /\ tool = "vault_bootstrap" => Bootstrap \subseteq bridge.tools
    /\ tool \in Preparing => RuntimeReady(bridge.tools)

\* _call_tool() on a connected bridge; refused, it raises and changes nothing.
CallTool(tool) ==
    /\ at = "idle" /\ bridge.client
    /\ AssertToolAvailable(tool)
    /\ client.process
    /\ Ask(tool, NextId(client.id))
    /\ UNCHANGED <<bridge, closing, server, delivered>>

\* close(): the bridge forgets its client, which closes the server's stdin.
Close ==
    /\ at = "idle" /\ bridge.client
    /\ bridge' = [client |-> FALSE, tools |-> {}]
    /\ IF client.process
       THEN /\ at' = "closing"
            /\ closing' = [phase |-> "eof", after |-> "caller"]
            /\ client' = [client EXCEPT !.process = FALSE]
       ELSE UNCHANGED <<at, closing, client>>
    /\ UNCHANGED <<request, server, delivered, counts>>

\* A second without an exit: terminate(), then kill().
Escalate(phase) == CASE phase = "eof" -> "terminate" [] phase = "terminate" -> "kill"

WaitTimesOut ==
    /\ at = "closing" /\ closing.phase \in {"eof", "terminate"}
    /\ server.life = "running"
    /\ closing' = [closing EXCEPT !.phase = Escalate(@)]
    /\ UNCHANGED <<bridge, client, at, request, server, delivered, counts>>

\* wait() returns: the process ended, or it is killed, which nothing survives.
Exited ==
    /\ at = "closing" /\ closing.phase \in {"eof", "terminate", "kill"}
    /\ server.life = "ended" \/ closing.phase = "kill"
    /\ server' = [server EXCEPT !.life = "ended"]
    /\ closing' = [closing EXCEPT !.phase = "reap"]
    /\ UNCHANGED <<bridge, client, at, request, delivered, counts>>

\* The reader of stderr is cancelled and awaited.  If a line was too long for
\* it, its ValueError comes out of close() here, and a connect() that was
\* cleaning up never drops its client.
Reap ==
    /\ at = "closing" /\ closing.phase = "reap"
    /\ bridge' = IF closing.after = "list" /\ server.stderr = "drained"
                 THEN [client |-> FALSE, tools |-> {}] ELSE bridge
    /\ at' = "idle"
    /\ closing' = NotClosing
    /\ UNCHANGED <<client, request, server, delivered, counts>>

Client ==
    \/ Write \/ WriteFails
    \/ Skip \/ ReadFails \/ EndOfFile \/ Return
    \/ WaitTimesOut \/ Exited \/ Reap
-----------------------------------------------------------------------------
(* The server *)

Answer(r) ==
    /\ server.life = "running" /\ server.stderr # "full"
    /\ \E kind \in {"result", "unusable", "error"} :
        server' = [server EXCEPT !.inbox = @ \ {r},
                                 !.out = Append(@, [kind |-> kind, re |-> r])]
    /\ UNCHANGED <<bridge, client, at, request, closing, delivered, counts>>

\* A notification, or a line that is no message at all.
Unasked ==
    /\ server.life = "running" /\ server.stderr # "full"
    /\ counts.noise < MaxNoise
    /\ counts' = [counts EXCEPT !.noise = @ + 1]
    /\ \E kind \in {"note", "garbage"} :
        server' = [server EXCEPT !.out = Append(@, [kind |-> kind, re |-> None])]
    /\ UNCHANGED <<bridge, client, at, request, closing, delivered>>

\* A line longer than the limit of the reader ends _capture_stderr(); what is
\* written to stderr afterwards fills the pipe and blocks the server.
StderrOverruns ==
    /\ server.life = "running"
    /\ server' = [server EXCEPT !.stderr = IF @ = "drained" THEN "lost" ELSE "full"]
    /\ UNCHANGED <<bridge, client, at, request, closing, delivered, counts>>

Exit ==
    /\ server.life = "running"
    /\ server' = [server EXCEPT !.life = "ended"]
    /\ UNCHANGED <<bridge, client, at, request, closing, delivered, counts>>

Next ==
    \/ Connect \/ Close
    \/ \E tool \in Tools : CallTool(tool)
    \/ Client
    \/ \E r \in server.inbox : Answer(r)
    \/ Unasked \/ StderrOverruns \/ Exit

Spec == Init /\ [][Next]_vars

\* The event loop runs the coroutine; nothing is asked of the server.
ClientSpec == Spec /\ WF_vars(Client)
-----------------------------------------------------------------------------
(* The inductive invariant *)

Asking == at \in {"writing", "waiting"}

\* The requests the server holds or has answered.
Known(r) ==
    \/ r \in server.inbox
    \/ \E i \in DOMAIN server.out : server.out[i].re = r

\* Where the coroutine is, and what it holds there.
Control ==
    /\ Asking <=> request # None
    /\ client.id <= counts.requests
    /\ Asking => client.process /\ request.id = client.id
    /\ Asking => (bridge.client <=> request.what \in {"list"} \union Tools)
    /\ at = "waiting" => request.what # "notify"
    /\ at = "closing" => ~client.process /\ closing.phase # "none" /\ closing.after # "none"
    /\ at # "closing" => closing = NotClosing
    /\ at = "closing" => (bridge.client <=> closing.after = "list")
    /\ at = "idle" /\ client.process => bridge.client

\* Ids grow, so the pending id belongs to the pending request alone.
IdsTell ==
    \A r \in Request : Known(r) =>
        /\ r.id <= client.id
        /\ at = "waiting" /\ r.id = request.id => r = request
        /\ at = "writing" /\ request.what # "notify" => r.id < request.id

\* A running server is the client's, or about to be closed.
ServerOwned ==
    /\ server.life = "running" => client.process \/ at = "closing"
    /\ closing.phase = "reap" => server.life = "ended"

\* The tools of the bridge are those its server listed.
ToolsListed ==
    /\ ~bridge.client \/ closing.after = "list" \/ ~client.process => bridge.tools = {}
    /\ Asking /\ request.what = "list" => bridge.tools = {}
    /\ bridge.tools \subseteq server.offers
    /\ Asking /\ request.what \in Tools =>
          /\ request.what \in server.offers
          /\ request.what \in Preparing => RuntimeReady(server.offers)

\* What a call returns is the server's answer to that very call, also when an
\* earlier call of the client failed and its answer came later (the ids of
\* request()).
AnswersMatch == delivered # None => delivered.got.re = delivered.asked

\* Inductive: types, control, ids, ownership of the process and the tools
\* (every handler of the client and the bridge keeps all of them).
BridgeInv == TypeOK /\ Control /\ IdsTell /\ ServerOwned /\ ToolsListed /\ AnswersMatch
-----------------------------------------------------------------------------
(* Properties *)

\* A bridge at rest without a client has left no server running, whichever step
\* of the handshake failed; one that kept a client whose process is gone refuses
\* every call, as it offers no tools of an earlier server (the except clauses of
\* start() and connect(), _available_tools in close()).
IdleIsClean ==
    at = "idle" =>
        /\ ~bridge.client => server.life # "running"
        /\ bridge.client /\ ~client.process => bridge.tools = {}

\* A tool call reaches only a server that listed the tool, and one that
\* prepares a transaction only a server with the whole required set: the
\* bridge fails closed (_assert_tool_available), whatever an earlier server had.
CallsAreOffered ==
    [][\A r \in server'.inbox \ server.inbox : r.what \in Tools =>
          /\ r.what \in server.offers
          /\ r.what \in Preparing => RuntimeReady(server.offers)]_vars

\* close() ends, also for a server that ignores the end of its input and the
\* signal to terminate.  A request ends if the server answers in the end what it
\* read, or is blocked on a stderr nobody reads any more; request() itself has no
\* timeout.
CallsEnd ==
    /\ (at = "closing") ~> (at = "idle")
    /\ WF_vars(\E r \in server.inbox : Answer(r))
         => ((at = "waiting") ~> (at # "waiting" \/ server.stderr = "full"))
=============================================================================
