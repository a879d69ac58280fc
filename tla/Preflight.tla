------------------------------ MODULE Preflight ------------------------------
(***************************************************************************)
(* The preflight probes, scripts/poc_*.py: each decides from its inputs and*)
(* from a dialogue with the MCP runtime whether autonomous funding may be  *)
(* switched on, and leaves its verdict in a file, its artifact.  Only      *)
(* "crediting" has no dialogue: it judges recorded evidence.               *)
(*                                                                         *)
(* Reasons are abstracted to what caused them.  External: what the runtime *)
(* answers, which may be wrong in every way the probes look for.           *)
(***************************************************************************)
EXTENDS Configuration, Integers, Sequences, FiniteSets

CONSTANTS
    Inputs, Recorded,  \* what the probes may be given
    Sources, Stated,   \* the parts of a plan that name the same thing; one of them
    MaxDelay           \* from the transfer to the credit

Probes == {"session", "follow-up", "single-key", "crediting"}

\* What a runtime may lack without a call failing for it ("ready" is
\* runtime_ready), and the tools of the session probe.
Tools == {"ready", "transfer", "event", "next", "follow-up result"}

\* What recorded evidence has to prove, besides the amounts and the delay.
Demands(p) ==
    CASE p = "crediting" -> {"hash", "success", "ready", "references", "recipient", "token"}
      [] p = "follow-up" -> {"source", "hash", "ready", "references", "recipient", "token",
                             "owner", "signer", "refresh"}
      [] OTHER           -> {}

\* Besides the environment: is any other input missing or not an address, is a
\* number, root or proof malformed, whose key is the executor's.
Input == [env: Environment, given: {"all", "missing", "invalid"}, wellFormed: BOOLEAN,
          executor: {"same", "another"}]

Evidence(p) ==
    CASE p = "crediting" -> [lacks: SUBSET Demands(p), before: Int, after: Int,
                             expected: Int, delay: Int]
      [] p = "follow-up" -> [lacks: SUBSET Demands(p)]
      [] OTHER           -> {}

ASSUME PreflightAssumption ==
    /\ Inputs \subseteq Input
    /\ DOMAIN Recorded = Probes
    /\ \A p \in Probes : \A e \in Recorded[p] : e \in Evidence(p)
    /\ IsFiniteSet(Sources) /\ Stated \in Sources /\ MaxDelay \in Int

\* The runtime's replies: what they name is what was asked for or another.
Named == {"asked", "other"}

Steps == {"funding", "follow-up"}

FundingPlan == [digest: BOOLEAN, values: [Sources -> Named \union {None}]]

OrderPlan == [order: BOOLEAN, deferred: BOOLEAN, token: BOOLEAN]

Replies(p, call) ==
    CASE call = "plan" -> (CASE p = "session"   -> FundingPlan
                             [] p = "follow-up" -> OrderPlan
                             [] OTHER           -> Named)
      [] call \in {"health", "context"} -> IF p = "single-key" THEN Named ELSE {"asked"}
      [] call = "policy"   -> {"asked"}
      [] call = "session"  -> Steps
      [] call = "transfer" -> [confirmed: BOOLEAN, of: Named]
      [] call = "event"    -> [at: Steps, same: BOOLEAN]
      [] call = "next"     -> Steps
      [] call = "simulate" -> BOOLEAN
      [] call = "prepare"  -> [from: Named, vault: BOOLEAN]

\* What a probe asks the runtime, in this order.
Calls(p) ==
    CASE p = "session"    -> <<"context", "policy", "plan", "session", "transfer", "event", "next">>
      [] p = "follow-up"  -> <<"health", "context", "policy", "plan", "session", "next">>
      [] p = "single-key" -> <<"health", "context", "policy", "plan", "simulate", "prepare">>
      [] p = "crediting"  -> << >>

VARIABLES
    probe, input, evidence,
    offered,     \* what the runtime offers
    phase,
    bridge,      \* the probe's bridge to it
    heard,       \* its answers
    reasons,
    verdict,
    artifact,    \* the file
    status       \* exit status of the probe

preflight_vars ==
    <<probe, input, evidence, offered, phase, bridge, heard, reasons, verdict, artifact, status>>

Verdicts == {"PASS", "NO-GO"}

Phases == {"idle", "connect", "ask", "close", "judge", "write", "fail safe", "report", "done"}

Reasons == {"mode", "missing", "invalid", "configuration", "input", "tool", "failed", "plan",
            "gap", "evidence"}

PreflightTypeOK ==
    /\ probe \in Probes \union {None} /\ input \in Inputs \union {None}
    /\ evidence \in (UNION {Recorded[p] : p \in Probes}) \union {None} /\ offered \subseteq Tools
    /\ phase \in Phases /\ bridge \in {"none", "open", "closed"}
    /\ phase = "idle" => heard = << >>
    /\ phase # "idle" => /\ probe \in Probes /\ Len(heard) <= Len(Calls(probe))
                         /\ \A n \in DOMAIN heard :
                               heard[n] \in Replies(probe, Calls(probe)[n]) \union {None}
    /\ reasons \subseteq Reasons /\ verdict \in Verdicts \union {None}
    /\ artifact \in [by: {"earlier", "this"}, verdict: Verdicts \union {"torn"}]
    /\ status \in {0, 1} \union {None}

\* The file may be there from an earlier run; a PASS is the worst it can say.
PreflightInit ==
    /\ probe = None /\ input = None /\ evidence = None /\ offered = {}
    /\ phase = "idle" /\ bridge = "none" /\ heard = << >> /\ reasons = {}
    /\ verdict = None /\ status = None
    /\ artifact = [by |-> "earlier", verdict |-> "PASS"]
-----------------------------------------------------------------------------
(* The inputs *)

WantedMode(p) == IF p \in {"session", "single-key"} THEN "mandated-vault" ELSE "predict-account"

\* _load_config: a vault whose address is given is not derived as well, and the
\* session probe keeps the Predict Account only as a recipient.
Sanitized(p, e) ==
    LET vault == [e EXCEPT !.derivation = IF e.vault # None THEN {} ELSE @] IN
    IF p = "session" /\ e.mode = "mandated-vault"
    THEN [vault EXCEPT !.account = FALSE, !.privy = FALSE] ELSE vault

IsConfigured(p, e) == p = "crediting" \/ Accepted(Sanitized(p, e))

Missing(p, in) ==
    \/ in.given = "missing" \/ in.env.vault = None
    \/ p \in {"session", "follow-up"} /\ "asset" \notin in.env.derivation
    \/ p \in {"follow-up", "crediting"} /\ ~in.env.account

\* The reasons there are before anything is asked.
InputReasons(p, in, recorded) ==
    {r \in Reasons :
        \/ r = "mode" /\ in.env.mode # WantedMode(p)
        \/ r = "missing" /\ Missing(p, in)
        \/ r = "invalid" /\ in.given = "invalid"
        \/ r = "invalid" /\ p = "follow-up" /\ ~in.wellFormed
        \/ r = "configuration" /\ ~IsConfigured(p, in.env)
        \/ r = "input" /\ p = "crediting" /\ ~in.wellFormed
        \/ r = "input" /\ p = "single-key" /\ in.executor = "another"
        \/ r = "evidence" /\ p \in {"follow-up", "crediting"} /\ recorded = None}

\* Whether the runtime is asked.  Two of the probes ask it in the wrong mode
\* too, the follow-up one also without evidence that it could not read.
MayCollect(p, in, recorded) ==
    LET rs == InputReasons(p, in, recorded) IN
    CASE p = "crediting"  -> {FALSE}
      [] p = "single-key" -> {rs = {}}
      [] OTHER            -> {rs \subseteq {"mode"}, rs \subseteq {"mode", "evidence"}}

ToolsOf(p) ==
    CASE p = "session" -> Tools \ {"follow-up result"}
      [] p = "follow-up" -> {"ready", "next", "follow-up result"}
      [] OTHER -> {}

Start(p, in, recorded, tools) ==
    /\ probe' = p /\ input' = in /\ evidence' = recorded /\ offered' = tools
    /\ reasons' = InputReasons(p, in, recorded)
    /\ \E collects \in MayCollect(p, in, recorded) : phase' = IF collects THEN "connect" ELSE "judge"
    /\ UNCHANGED <<bridge, heard, verdict, artifact, status>>
-----------------------------------------------------------------------------
(* The dialogue *)

Asking == UNCHANGED <<probe, input, evidence, offered, verdict, artifact, status>>

MissingTools ==
    IF probe = "session" /\ ~({"transfer", "event", "next"} \subseteq offered) THEN {"tool"} ELSE {}

Connect ==
    /\ phase = "connect"
    /\ bridge' = "open" /\ phase' = "ask"
    /\ reasons' = reasons \union MissingTools
          \union (IF probe = "single-key" /\ ~input.wellFormed THEN {"input"} ELSE {})
    /\ UNCHANGED heard /\ Asking

\* connect() closes what it has started when it fails.
ConnectFails ==
    /\ phase = "connect"
    /\ phase' = "judge" /\ reasons' = reasons \union {"failed"}
    /\ UNCHANGED <<bridge, heard>> /\ Asking

Call == Calls(probe)[Len(heard) + 1]

AllHeard == Len(heard) = Len(Calls(probe))

\* The bridge knows the tool, and the orchestration the authority it signs for.
IsCallable ==
    /\ Call \in Tools => Call \in offered
    /\ probe = "follow-up" => "authority" \in input.env.derivation

\* The single-key probe compares each answer at once.
Objections(answer) ==
    IF probe # "single-key" THEN {}
    ELSE CASE Call \in {"health", "context", "plan"} -> IF answer = "asked" THEN {} ELSE {"gap"}
           [] Call = "simulate" -> IF answer THEN {} ELSE {"gap"}
           [] Call = "prepare"  -> IF answer.from = "asked" /\ answer.vault THEN {} ELSE {"gap"}
           [] OTHER -> {}

Ask ==
    /\ phase = "ask" /\ ~AllHeard /\ IsCallable
    /\ \E answer \in Replies(probe, Call) :
          heard' = Append(heard, answer) /\ reasons' = reasons \union Objections(answer)
    /\ UNCHANGED <<phase, bridge>> /\ Asking

\* The session probe goes without the next step where the runtime has none.
SkipNextStep ==
    /\ phase = "ask" /\ ~AllHeard /\ probe = "session" /\ Call = "next" /\ "next" \notin offered
    /\ heard' = Append(heard, None)
    /\ UNCHANGED <<phase, bridge, reasons>> /\ Asking

\* The plan of the session probe lacks required fields, or a funding plan.
PlanIsUnusable ==
    /\ phase = "ask" /\ probe = "session" /\ ~AllHeard /\ Call = "plan"
    /\ phase' = "close" /\ reasons' = reasons \union {"plan"}
    /\ UNCHANGED <<bridge, heard>> /\ Asking

\* Whatever else goes wrong in a call becomes a reason.
CallFails ==
    /\ phase = "ask" /\ ~AllHeard
    /\ phase' = "close" /\ reasons' = reasons \union {"failed"}
    /\ UNCHANGED <<bridge, heard>> /\ Asking
-----------------------------------------------------------------------------
(* What the answers prove *)

Heard(call) == heard[CHOOSE n \in DOMAIN heard : Calls(probe)[n] = call]

\* Mutant: sources that name nothing are not counted.
SufficientIfPresent(values) == Cardinality({values[s] : s \in Sources} \ {None}) = 1

\* _field_evidence: all sources name it, and the same.
Sufficient(values) ==
    /\ \A s \in Sources : values[s] # None
    /\ Cardinality({values[s] : s \in Sources}) = 1

\* _required_runtime_field_evidence
BindingGap == ~Heard("plan").digest \/ ~Sufficient(Heard("plan").values)

\* _session_transition_evidence: the session goes from the funding to the
\* follow-up by a transfer that is the planned one and that it records.
TransitionGap ==
    \/ Heard("session") # "funding"
    \/ ~Heard("transfer").confirmed \/ Heard("transfer").of # Heard("plan").values[Stated]
    \/ Heard("event").at # "follow-up" \/ ~Heard("event").same
    \/ Heard("next") # "follow-up"

\* The dialogue is over.
Conclude ==
    /\ phase = "ask" /\ AllHeard
    /\ reasons' = reasons \union
          (IF probe = "session" /\ (BindingGap \/ TransitionGap) THEN {"gap"} ELSE {})
    /\ phase' = "close"
    /\ UNCHANGED <<bridge, heard>> /\ Asking

\* finally: the single-key probe does not swallow what close() raises.
Close ==
    /\ phase = "close" /\ bridge' = "closed" /\ phase' = "judge"
    /\ \/ UNCHANGED reasons
       \/ probe = "single-key" /\ reasons' = reasons \union {"failed"}
    /\ UNCHANGED heard /\ Asking

\* The nine demands on the orchestration; without one none is met.
FollowUpGap ==
    \/ heard = << >> \/ ~AllHeard \/ ~({"ready", "follow-up result"} \subseteq offered)
    \/ ~Heard("plan").order \/ Heard("plan").deferred \/ ~Heard("plan").token
    \/ Heard("session") # "follow-up" \/ Heard("next") # "follow-up"

\* _auth_signal: the signer is the configured Predict Account.
IsSelfSigning(e) ==
    /\ Accepted(e) /\ WalletMode(e) = "predict-account"
    /\ e.account /\ e.privy /\ AuthSigner(e) = "account"

\* The balance has grown as expected, in time.
Credited ==
    /\ evidence.after - evidence.before > 0
    /\ evidence.after - evidence.before >= evidence.expected
    /\ 0 <= evidence.delay /\ evidence.delay <= MaxDelay

JudgedReasons ==
    reasons \union
    {r \in Reasons :
        \/ r = "gap" /\ probe = "follow-up" /\ FollowUpGap
        \/ r = "evidence" /\ probe = "follow-up"
           /\ (evidence = None \/ evidence.lacks # {}
               \/ ~IsSelfSigning(Sanitized(probe, input.env)))
        \/ r = "evidence" /\ probe = "crediting"
           /\ (evidence = None \/ evidence.lacks # {} \/ ~Credited)}

\* Besides having no reason against it, the session probe needs to have got
\* through its dialogue with a runtime that is ready, the single-key probe to
\* have got a transaction.
IsStrong ==
    CASE probe = "session"    -> AllHeard /\ {"ready", "transfer", "event", "next"} \subseteq offered
      [] probe = "single-key" -> AllHeard
      [] OTHER                -> TRUE

Ending == UNCHANGED <<probe, input, evidence, offered, bridge, heard>>

Judge ==
    /\ phase = "judge"
    /\ reasons' = JudgedReasons
    /\ verdict' = IF JudgedReasons = {} /\ IsStrong THEN "PASS" ELSE "NO-GO"
    /\ phase' = "write"
    /\ Ending /\ UNCHANGED <<artifact, status>>

Torn == [by |-> "this", verdict |-> "torn"]

\* main(): an unexpected error is the reason for a NO-GO.
Unexpected ==
    /\ phase \in {"judge", "write"}
    /\ artifact' \in {artifact} \union (IF phase = "write" THEN {Torn} ELSE {})
    /\ phase' = "fail safe" /\ verdict' = "NO-GO" /\ reasons' = {"failed"}
    /\ Ending /\ UNCHANGED status

\* Mutant: the exit status says only that the probe has run.
StatusOfRun(v) == 0

StatusOf(v) == IF v = "PASS" THEN 0 ELSE 1

\* write_text() of the artifact, or of the artifact of the failure.
Write ==
    /\ phase \in {"write", "fail safe"}
    /\ artifact' = [by |-> "this", verdict |-> verdict]
    /\ phase' = "report"
    /\ Ending /\ UNCHANGED <<reasons, verdict, status>>

\* main() returns.  The crediting probe prints its artifact before, and ends
\* with an error if it cannot.
Report ==
    /\ phase = "report"
    /\ status' \in {StatusOf(verdict)} \union (IF probe = "crediting" THEN {1} ELSE {})
    /\ phase' = "done"
    /\ Ending /\ UNCHANGED <<reasons, verdict, artifact>>

\* The artifact of the failure cannot be written either.
FailSafeFails ==
    /\ phase = "fail safe"
    /\ artifact' \in {artifact, Torn} /\ status' = 1 /\ phase' = "done"
    /\ Ending /\ UNCHANGED <<reasons, verdict>>

\* An interrupt is no Exception: the bridge is closed on the way out, what was
\* heard is gone unless it is written, and the artifact is left as it is, or half
\* written.
Interrupt ==
    /\ phase \notin {"idle", "done"}
    /\ bridge' = (IF bridge = "open" THEN "closed" ELSE bridge)
    /\ artifact' \in {artifact} \union (IF phase \in {"write", "fail safe"} THEN {Torn} ELSE {})
    /\ heard' = IF phase = "report" THEN heard ELSE << >>
    /\ status' = 1 /\ phase' = "done"
    /\ UNCHANGED <<probe, input, evidence, offered, reasons, verdict>>

ProbeStep ==
    \/ Connect \/ ConnectFails \/ Ask \/ SkipNextStep \/ PlanIsUnusable \/ CallFails
    \/ Conclude \/ Close \/ Judge \/ Unexpected \/ Write \/ FailSafeFails \/ Report

ProbeStart ==
    /\ phase = "idle"
    /\ \E p \in Probes, in \in Inputs : \E recorded \in Recorded[p] \union {None}, tools \in SUBSET ToolsOf(p) :
          Start(p, in, recorded, tools)

PreflightNext == ProbeStart \/ ProbeStep \/ Interrupt

PreflightSpec == PreflightInit /\ [][PreflightNext]_preflight_vars
-----------------------------------------------------------------------------
(* Properties *)

Passes(p) == probe = p /\ artifact = [by |-> "this", verdict |-> "PASS"]

\* A probe passes only if all it was told fits together: the plan names one
\* recipient, token and amount everywhere, and the session goes on by the very
\* transfer planned; every answer names the one key; the order follows on a
\* funding that is over; the credit comes after the transfer, and is enough.
\* No call, and no failure of the bridge, was passed over.
PassIsEarned ==
    /\ Passes("session") =>
          /\ \A s \in Sources : Heard("plan").values[s] = Heard("transfer").of
          /\ Heard("plan").digest /\ Heard("transfer").confirmed
          /\ <<Heard("session"), Heard("event").at, Heard("next")>> =
                 <<"funding", "follow-up", "follow-up">>
          /\ Heard("event").same /\ "ready" \in offered
    /\ Passes("single-key") =>
          /\ \A call \in {"health", "context", "plan"} : Heard(call) = "asked"
          /\ Heard("prepare") = [from |-> "asked", vault |-> TRUE] /\ Heard("simulate")
          /\ input.executor = "same"
    /\ Passes("follow-up") =>
          /\ Heard("plan") = [order |-> TRUE, deferred |-> FALSE, token |-> TRUE]
          /\ Heard("session") = "follow-up" /\ Heard("next") = "follow-up"
          /\ evidence.lacks = {} /\ input.env.privy /\ ~input.env.key
    /\ Passes("crediting") =>
          /\ evidence.lacks = {} /\ evidence.delay \in 0..MaxDelay
          /\ evidence.after > evidence.before
          /\ evidence.after >= evidence.before + evidence.expected
    /\ \A p \in Probes : Passes(p) => input.env.mode = WantedMode(p) /\ bridge # "open"

\* A probe that ends has released its bridge, and exits with 0 only if the file
\* holds its own PASS, which an earlier one or a half-written one is not,
\* whatever failed or interrupted it.  (Not the other way round: an interrupt, or
\* the print() of the crediting probe, may still fail a probe whose PASS is
\* written: main.)
StatusIsOfTheArtifact ==
    phase = "done" =>
        /\ bridge # "open"
        /\ status = 0 => artifact = [by |-> "this", verdict |-> "PASS"]
=============================================================================
