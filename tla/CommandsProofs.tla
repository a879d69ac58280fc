----------------------------- MODULE CommandsProofs -----------------------------
(***************************************************************************)
(* The command line runs its scripts: a probe that passes has earned it and*)
(* its exit status says so, a hedge does what HedgingProofs shows, and a   *)
(* listing has every position once, with the profit of what is held, for   *)
(* all inputs, evidence, answers, tokens and buys.                         *)
(***************************************************************************)
EXTENDS Commands, HedgingProofs

-----------------------------------------------------------------------------
(* The inductive invariant *)

CallNames == {"health", "context", "policy", "plan", "session", "transfer", "event", "next",
              "simulate", "prepare"}

AllReplies == UNION {Replies(p, call) : p \in Probes, call \in CallNames}

Hearable == AllReplies \union {None}

ProbeTypes ==
    /\ phase \in Phases /\ bridge \in {"none", "open", "closed"}
    /\ reasons \subseteq Reasons /\ verdict \in Verdicts \union {None}
    /\ heard \in Seq(Hearable)
    /\ phase # "idle" => /\ probe \in Probes /\ input \in Inputs
                         /\ evidence \in Recorded[probe] \union {None}
                         /\ Len(heard) <= Len(Calls(probe))

\* The bridge is open only during the dialogue, which begins with nothing heard.
Bridged ==
    /\ phase \notin {"ask", "close"} => bridge # "open"
    /\ phase \in {"idle", "connect"} => heard = << >>

\* What was wrong with the inputs stays a reason until the verdict.
InputsKept ==
    phase \in {"connect", "ask", "close", "judge"} =>
        InputReasons(probe, input, evidence) \subseteq reasons

\* The answer names the one key.
Unobjected(call, answer) ==
    /\ call \in {"health", "context", "plan"} => answer = "asked"
    /\ call = "simulate" => answer = TRUE
    /\ call = "prepare" => answer = [from |-> "asked", vault |-> TRUE]

\* While there is no reason against it, what was heard is in its favour.
Favourable ==
    phase \in {"ask", "close", "judge"} =>
        /\ probe = "follow-up" =>
              \A n \in DOMAIN heard : Calls(probe)[n] = "plan" => heard[n] \in OrderPlan
        /\ probe = "single-key" /\ reasons = {} =>
              \A n \in DOMAIN heard : Unobjected(Calls(probe)[n], heard[n])
        /\ probe = "session" /\ reasons = {} /\ AllHeard /\ phase # "ask" =>
              ~BindingGap /\ ~TransitionGap

\* What a PASS stands for.
SessionEarned ==
    /\ \A s \in Sources : Heard("plan").values[s] = Heard("transfer").of
    /\ Heard("plan").digest /\ Heard("transfer").confirmed
    /\ <<Heard("session"), Heard("event").at, Heard("next")>> = <<"funding", "follow-up", "follow-up">>
    /\ Heard("event").same /\ "ready" \in offered

SingleKeyEarned ==
    /\ \A call \in {"health", "context", "plan"} : Heard(call) = "asked"
    /\ Heard("prepare") = [from |-> "asked", vault |-> TRUE] /\ Heard("simulate")
    /\ input.executor = "same"

FollowUpEarned ==
    /\ Heard("plan") = [order |-> TRUE, deferred |-> FALSE, token |-> TRUE]
    /\ Heard("session") = "follow-up" /\ Heard("next") = "follow-up"
    /\ evidence.lacks = {} /\ input.env.privy /\ ~input.env.key

CreditingEarned ==
    /\ evidence.lacks = {} /\ evidence.delay \in 0..MaxDelay
    /\ evidence.after > evidence.before
    /\ evidence.after >= evidence.before + evidence.expected

Earned ==
    /\ probe = "session" => SessionEarned
    /\ probe = "single-key" => SingleKeyEarned
    /\ probe = "follow-up" => FollowUpEarned
    /\ probe = "crediting" => CreditingEarned
    /\ input.env.mode = WantedMode(probe)

Passed == [by |-> "this", verdict |-> "PASS"]

\* The verdict, the file and the exit status.
Told ==
    /\ phase = "write" => verdict \in Verdicts /\ (verdict = "PASS" => Earned)
    /\ phase = "fail safe" => verdict = "NO-GO"
    /\ phase = "report" => artifact = [by |-> "this", verdict |-> verdict]
    /\ phase = "done" /\ status = 0 => artifact = Passed
    /\ artifact = Passed => phase \in {"report", "done"} /\ Earned

ProbeInv == ProbeTypes /\ Bridged /\ InputsKept /\ Favourable /\ Told
-----------------------------------------------------------------------------
(* The calls *)

\* How many calls there are, and which.
LEMMA CallsListed ==
    /\ Len(Calls("session")) = 7 /\ Len(Calls("follow-up")) = 6
    /\ Len(Calls("single-key")) = 6 /\ Len(Calls("crediting")) = 0
    /\ \A p \in Probes : Len(Calls(p)) \in Nat
    /\ \A p \in Probes : \A n \in 1..Len(Calls(p)) : Calls(p)[n] \in CallNames
<1>1. Calls("session") = <<"context", "policy", "plan", "session", "transfer", "event", "next">>
  BY DEF Calls
<1>2. Calls("follow-up") = <<"health", "context", "policy", "plan", "session", "next">>
  BY DEF Calls
<1>3. Calls("single-key") = <<"health", "context", "policy", "plan", "simulate", "prepare">>
  BY DEF Calls
<1>4. Calls("crediting") = << >>
  BY DEF Calls
<1>5. /\ Len(Calls("session")) = 7 /\ Len(Calls("follow-up")) = 6
      /\ Len(Calls("single-key")) = 6 /\ Len(Calls("crediting")) = 0
  BY <1>1, <1>2, <1>3, <1>4
<1>6. \A n \in 1..7 : n = 1 \/ n = 2 \/ n = 3 \/ n = 4 \/ n = 5 \/ n = 6 \/ n = 7
  OBVIOUS
<1>7. \A n \in 1..7 : Calls("session")[n] \in CallNames
  BY <1>1, <1>6 DEF CallNames
<1>8. \A n \in 1..6 : Calls("follow-up")[n] \in CallNames
  BY <1>2, <1>6 DEF CallNames
<1>9. \A n \in 1..6 : Calls("single-key")[n] \in CallNames
  BY <1>3, <1>6 DEF CallNames
<1>10. ASSUME NEW p \in Probes
       PROVE  Len(Calls(p)) \in Nat /\ \A n \in 1..Len(Calls(p)) : Calls(p)[n] \in CallNames
  <2>1. CASE p = "session"
    BY <1>5, <1>7, <2>1
  <2>2. CASE p = "follow-up"
    BY <1>5, <1>8, <2>2
  <2>3. CASE p = "single-key"
    BY <1>5, <1>9, <2>3
  <2>4. CASE p = "crediting"
    <3>1. 1..0 = {}
      OBVIOUS
    <3> QED BY <1>5, <2>4, <3>1
  <2> QED BY <2>1, <2>2, <2>3, <2>4 DEF Probes
<1> QED BY <1>5, <1>10

\* Where the calls that are judged by name stand.
LEMMA CallsNamed ==
    /\ Calls("single-key")[1] = "health" /\ Calls("single-key")[2] = "context"
    /\ Calls("single-key")[4] = "plan" /\ Calls("single-key")[5] = "simulate"
    /\ Calls("single-key")[6] = "prepare"
    /\ Calls("follow-up")[4] = "plan"
BY DEF Calls

\* What has been heard is what one of the calls was answered.
LEMMA HeardIsAnAnswer ==
    ASSUME NEW call, NEW n \in DOMAIN heard, Calls(probe)[n] = call
    PROVE  \E m \in DOMAIN heard : Calls(probe)[m] = call /\ Heard(call) = heard[m]
<1> DEFINE m == CHOOSE k \in DOMAIN heard : Calls(probe)[k] = call
<1>1. m \in DOMAIN heard /\ Calls(probe)[m] = call
  OBVIOUS
<1>2. Heard(call) = heard[m]
  BY DEF Heard
<1> HIDE DEF m
<1> QED BY <1>1, <1>2

\* A call that may still be made is one of the calls.
LEMMA CallIsNamed ==
    ASSUME ProbeTypes, phase # "idle", ~AllHeard
    PROVE  /\ Call \in CallNames /\ Len(heard) + 1 <= Len(Calls(probe)) /\ Len(heard) \in Nat
           /\ Len(heard) + 1 \in 1..Len(Calls(probe)) /\ Call = Calls(probe)[Len(heard) + 1]
<1>1. Len(heard) \in Nat /\ Len(Calls(probe)) \in Nat
  BY CallsListed DEF ProbeTypes
<1>2. Len(heard) + 1 <= Len(Calls(probe)) /\ Len(heard) + 1 \in 1..Len(Calls(probe))
  BY <1>1 DEF ProbeTypes, AllHeard
<1>3. Calls(probe)[Len(heard) + 1] \in CallNames
  BY <1>2, CallsListed DEF ProbeTypes
<1> QED BY <1>1, <1>2, <1>3 DEF Call

-----------------------------------------------------------------------------
(* The verdict *)

\* Sources that name one thing between them name what the stated one names.
LEMMA OneValue ==
    ASSUME NEW values, Sufficient(values), NEW s \in Sources
    PROVE  values[s] = values[Stated]
<1> DEFINE named == {values[r] : r \in Sources}
<1>1. IsFiniteSet(named)
  <2> DEFINE f == [r \in Sources |-> values[r]]
  <2>1. f \in Surjection(Sources, named)
    BY DEF Surjection
  <2> HIDE DEF f, named
  <2> QED BY <2>1, PreflightAssumption, FS_Surjection
<1>2. PICK x : named = {x}
  BY <1>1, FS_Singleton DEF Sufficient
<1>3. values[s] \in named /\ values[Stated] \in named
  BY PreflightAssumption
<1> HIDE DEF named
<1> QED BY <1>2, <1>3

LEMMA SessionIsEarned ==
    ASSUME ProbeInv, phase = "judge", probe = "session", reasons = {}, IsStrong
    PROVE  SessionEarned
<1>1. AllHeard /\ {"ready", "transfer", "event", "next"} \subseteq offered
  BY DEF IsStrong
<1>2. ~BindingGap /\ ~TransitionGap
  BY <1>1 DEF ProbeInv, Favourable
<1>3. \A s \in Sources : Heard("plan").values[s] = Heard("plan").values[Stated]
  BY <1>2, OneValue DEF BindingGap
<1>4. Heard("plan").digest
  BY <1>2 DEF BindingGap
<1> QED BY <1>1, <1>2, <1>3, <1>4 DEF SessionEarned, TransitionGap

LEMMA SingleKeyIsEarned ==
    ASSUME ProbeInv, phase = "judge", probe = "single-key", reasons = {}, IsStrong
    PROVE  SingleKeyEarned
<1>1. Len(heard) = 6
  BY CallsListed DEF IsStrong, AllHeard
<1>2. DOMAIN heard = 1..6
  BY <1>1 DEF ProbeInv, ProbeTypes
<1>3. ASSUME NEW call, \E n \in DOMAIN heard : Calls(probe)[n] = call
      PROVE  Unobjected(call, Heard(call))
  <2>1. PICK m \in DOMAIN heard : Calls(probe)[m] = call /\ Heard(call) = heard[m]
    BY <1>3, HeardIsAnAnswer
  <2>2. Unobjected(Calls(probe)[m], heard[m])
    BY DEF ProbeInv, Favourable
  <2> QED BY <2>1, <2>2
<1>4. \A call \in {"health", "context", "plan", "simulate", "prepare"} :
         \E n \in DOMAIN heard : Calls(probe)[n] = call
  <2>1. 1 \in DOMAIN heard /\ 2 \in DOMAIN heard /\ 4 \in DOMAIN heard
          /\ 5 \in DOMAIN heard /\ 6 \in DOMAIN heard
    BY <1>2
  <2> QED BY <2>1, CallsNamed
<1>5. \A call \in {"health", "context", "plan", "simulate", "prepare"} : Unobjected(call, Heard(call))
  BY <1>3, <1>4
<1>6. /\ Heard("health") = "asked" /\ Heard("context") = "asked" /\ Heard("plan") = "asked"
      /\ Heard("simulate") = TRUE /\ Heard("prepare") = [from |-> "asked", vault |-> TRUE]
  BY <1>5 DEF Unobjected
<1>7. input.executor = "same"
  <2>1. input \in Input
    BY PreflightAssumption DEF ProbeInv, ProbeTypes
  <2>2. "input" \notin InputReasons(probe, input, evidence)
    BY DEF ProbeInv, InputsKept
  <2>3. input.executor # "another"
    BY <2>2 DEF InputReasons, Reasons
  <2> QED BY <2>1, <2>3 DEF Input
<1> QED BY <1>6, <1>7 DEF SingleKeyEarned

LEMMA FollowUpIsEarned ==
    ASSUME ProbeInv, phase = "judge", probe = "follow-up", JudgedReasons = {}
    PROVE  FollowUpEarned
<1>1. ~FollowUpGap
  BY DEF JudgedReasons, Reasons
<1>2. evidence.lacks = {} /\ IsSelfSigning(Sanitized(probe, input.env))
  BY DEF JudgedReasons, Reasons
<1>3. Len(heard) = 6
  BY <1>1, CallsListed DEF FollowUpGap, AllHeard
<1>4. 4 \in DOMAIN heard
  BY <1>3 DEF ProbeInv, ProbeTypes
<1>5. Heard("plan") \in OrderPlan
  <2>1. PICK m \in DOMAIN heard : Calls(probe)[m] = "plan" /\ Heard("plan") = heard[m]
    BY <1>4, CallsNamed, HeardIsAnAnswer
  <2> QED BY <2>1 DEF ProbeInv, Favourable
<1>6. Heard("plan") = [order |-> TRUE, deferred |-> FALSE, token |-> TRUE]
  BY <1>1, <1>5 DEF FollowUpGap, OrderPlan
<1>7. input.env.privy /\ ~input.env.key
  <2> DEFINE e == Sanitized(probe, input.env)
  <2>1. input.env \in Environment
    BY PreflightAssumption DEF ProbeInv, ProbeTypes, Input
  <2>2. e.key = input.env.key /\ e.privy = input.env.privy /\ e.mode = input.env.mode
    BY <2>1 DEF Sanitized, Environment
  <2>3. input.env.mode = "predict-account"
    <3>1. "mode" \notin InputReasons(probe, input, evidence)
      BY DEF ProbeInv, InputsKept, JudgedReasons
    <3> QED BY <3>1 DEF InputReasons, Reasons, WantedMode
  <2>4. PredictAccountAccepted(e)
    BY <1>2, <2>2, <2>3 DEF IsSelfSigning, Accepted
  <2> HIDE DEF e
  <2> QED BY <2>2, <2>4 DEF PredictAccountAccepted
<1> QED BY <1>1, <1>2, <1>6, <1>7 DEF FollowUpEarned, FollowUpGap

LEMMA CreditingIsEarned ==
    ASSUME ProbeInv, phase = "judge", probe = "crediting", JudgedReasons = {}
    PROVE  CreditingEarned
<1>1. evidence # None /\ evidence.lacks = {} /\ Credited
  BY DEF JudgedReasons, Reasons
<1>2. evidence \in Evidence("crediting")
  BY <1>1, PreflightAssumption DEF ProbeInv, ProbeTypes, Probes
<1>3. /\ evidence.before \in Int /\ evidence.after \in Int
      /\ evidence.expected \in Int /\ evidence.delay \in Int
  BY <1>2 DEF Evidence
<1> QED BY <1>1, <1>3, PreflightAssumption DEF CreditingEarned, Credited

\* A probe that has no reason against it, and is strong, has earned its PASS.
LEMMA VerdictIsEarned ==
    ASSUME ProbeInv, phase = "judge", JudgedReasons = {}, IsStrong
    PROVE  Earned
<1>1. reasons = {}
  BY DEF JudgedReasons
<1>2. InputReasons(probe, input, evidence) = {}
  BY <1>1 DEF ProbeInv, InputsKept
<1>3. input.env.mode = WantedMode(probe)
  BY <1>2 DEF InputReasons, Reasons
<1> QED BY <1>1, <1>3, SessionIsEarned, SingleKeyIsEarned, FollowUpIsEarned, CreditingIsEarned
        DEF Earned

-----------------------------------------------------------------------------
(* The steps *)

LEMMA StartKeepsInv == ASSUME ProbeInv, ProbeStart PROVE ProbeInv'
<1>0. PICK p \in Probes, in \in Inputs :
        \E recorded \in Recorded[p] \union {None}, tools \in SUBSET ToolsOf(p) :
           Start(p, in, recorded, tools)
  BY DEF ProbeStart
<1>1. PICK recorded \in Recorded[p] \union {None}, tools \in SUBSET ToolsOf(p) :
        Start(p, in, recorded, tools)
  BY <1>0
<1>2. /\ phase = "idle" /\ heard = << >> /\ bridge # "open" /\ artifact # Passed
      /\ bridge \in {"none", "open", "closed"} /\ verdict \in Verdicts \union {None}
  BY DEF ProbeStart, ProbeInv, ProbeTypes, Bridged, Told
<1>3. /\ probe' = p /\ input' = in /\ evidence' = recorded
      /\ reasons' = InputReasons(p, in, recorded) /\ phase' \in {"connect", "judge"}
      /\ UNCHANGED <<bridge, heard, verdict, artifact, status>>
  BY <1>1 DEF Start
<1>4. ProbeTypes'
  <2>1. Len(heard') = 0 /\ heard' \in Seq(Hearable) /\ Len(Calls(p)) \in Nat
    BY <1>2, <1>3, CallsListed
  <2>2. reasons' \subseteq Reasons
    BY <1>3 DEF InputReasons
  <2>3. Len(heard') <= Len(Calls(probe'))
    BY <1>3, <2>1
  <2>4. phase' \in Phases /\ bridge' = bridge /\ verdict' = verdict
    BY <1>3 DEF Phases
  <2>5. probe' \in Probes /\ input' \in Inputs /\ evidence' \in Recorded[probe'] \union {None}
    BY <1>3
  <2> QED BY <1>2, <2>1, <2>2, <2>3, <2>4, <2>5 DEF ProbeTypes
<1>5. Bridged' /\ InputsKept' /\ Told'
  BY <1>2, <1>3 DEF Bridged, InputsKept, Told
<1>6. Favourable'
  <2>1. DOMAIN heard' = {}
    BY <1>2, <1>3
  <2>2. probe' = "session" => ~AllHeard'
    BY <1>2, <1>3, CallsListed DEF AllHeard
  <2> QED BY <2>1, <2>2 DEF Favourable
<1> QED BY <1>4, <1>5, <1>6 DEF ProbeInv

\* A step of the dialogue keeps what is given, the verdict and the file, and
\* adds to the reasons.
LEMMA DialogueKeepsInv ==
    ASSUME ProbeInv, Asking, reasons \subseteq reasons', reasons' \subseteq Reasons,
           phase \in {"connect", "ask", "close"}, phase' \in {"ask", "close", "judge"},
           bridge' \in {"none", "open", "closed"}, phase' = "judge" => bridge' # "open",
           heard' \in Seq(Hearable), Len(heard') <= Len(Calls(probe)), Favourable'
    PROVE  ProbeInv'
<1>1. probe' = probe /\ input' = input /\ evidence' = evidence /\ verdict' = verdict
        /\ artifact' = artifact /\ status' = status
  BY DEF Asking
<1>2. ProbeTypes'
  BY <1>1 DEF ProbeInv, ProbeTypes, Phases
<1>3. Bridged' /\ InputsKept'
  BY <1>1 DEF ProbeInv, Bridged, InputsKept
<1>4. Told'
  BY <1>1 DEF ProbeInv, Told
<1> QED BY <1>2, <1>3, <1>4 DEF ProbeInv

\* What is in favour stays so if nothing is heard, unless the dialogue ends.
LEMMA StaysFavourable ==
    ASSUME ProbeInv, probe' = probe, heard' = heard, offered' = offered,
           reasons \subseteq reasons', phase \in {"ask", "close"},
           \/ phase = "close"
           \/ phase' = "ask"
           \/ reasons' # {}
    PROVE  Favourable'
<1>1. reasons' = {} => reasons = {}
  OBVIOUS
<1>2. AllHeard' = AllHeard /\ BindingGap' = BindingGap /\ TransitionGap' = TransitionGap
  BY DEF AllHeard, BindingGap, TransitionGap, Heard, Sufficient
<1>3. Favourable
  BY DEF ProbeInv
<1> QED BY <1>1, <1>2, <1>3 DEF Favourable

LEMMA AskKeepsInv == ASSUME ProbeInv, Ask PROVE ProbeInv'
<1>0. ProbeTypes /\ phase = "ask" /\ phase' = "ask" /\ bridge' = bridge /\ ~AllHeard /\ Asking
  BY DEF Ask, ProbeInv
<1>1. PICK answer \in Replies(probe, Call) :
        heard' = Append(heard, answer) /\ reasons' = reasons \union Objections(answer)
  BY DEF Ask
<1>2. /\ probe' = probe /\ Call \in CallNames /\ Len(heard) \in Nat
      /\ Len(heard) + 1 <= Len(Calls(probe)) /\ Call = Calls(probe)[Len(heard) + 1]
  BY <1>0, CallIsNamed DEF Asking
<1>3. answer \in Hearable
  BY <1>0, <1>2 DEF Hearable, AllReplies, ProbeTypes
<1>4. /\ heard' \in Seq(Hearable) /\ Len(heard') = Len(heard) + 1
      /\ heard'[Len(heard) + 1] = answer
      /\ \A n \in DOMAIN heard' : n = Len(heard) + 1 \/ (n \in DOMAIN heard /\ heard'[n] = heard[n])
  BY <1>0, <1>1, <1>2, <1>3 DEF ProbeTypes
<1>5. Objections(answer) \subseteq {"gap"}
  BY DEF Objections
<1>6. reasons \subseteq reasons' /\ reasons' \subseteq Reasons
  BY <1>0, <1>1, <1>5 DEF ProbeTypes, Reasons
<1>7. Favourable'
  <2>1. ASSUME probe = "follow-up", NEW n \in DOMAIN heard', Calls(probe)[n] = "plan"
        PROVE  heard'[n] \in OrderPlan
    <3>1. CASE n = Len(heard) + 1
      BY <1>1, <1>2, <1>4, <2>1, <3>1 DEF Replies
    <3>2. CASE n \in DOMAIN heard /\ heard'[n] = heard[n]
      BY <1>0, <2>1, <3>2 DEF ProbeInv, Favourable
    <3> QED BY <1>4, <3>1, <3>2
  <2>2. ASSUME probe = "single-key", reasons' = {}, NEW n \in DOMAIN heard'
        PROVE  Unobjected(Calls(probe)[n], heard'[n])
    <3>1. CASE n = Len(heard) + 1
      <4>1. Objections(answer) = {}
        BY <1>1, <2>2
      <4>2. Call \in {"health", "context", "plan"} => answer = "asked"
        BY <2>2, <4>1 DEF Objections
      <4>3. Call = "simulate" => answer = TRUE
        BY <1>1, <2>2, <4>1 DEF Objections, Replies
      <4>4. Call = "prepare" => answer = [from |-> "asked", vault |-> TRUE]
        BY <1>1, <2>2, <4>1 DEF Objections, Replies
      <4> QED BY <1>2, <1>4, <3>1, <4>2, <4>3, <4>4 DEF Unobjected
    <3>2. CASE n \in DOMAIN heard /\ heard'[n] = heard[n]
      BY <1>0, <1>6, <2>2, <3>2 DEF ProbeInv, Favourable
    <3> QED BY <1>4, <3>1, <3>2
  <2> QED BY <1>0, <1>2, <2>1, <2>2 DEF Favourable
<1> QED BY <1>0, <1>2, <1>4, <1>6, <1>7, DialogueKeepsInv DEF ProbeTypes

LEMMA DialogueStepKeepsInv ==
    ASSUME ProbeInv,
           \/ Connect \/ ConnectFails \/ SkipNextStep \/ PlanIsUnusable \/ CallFails
           \/ Conclude \/ Close
    PROVE  ProbeInv'
<1>0. ProbeTypes /\ Bridged /\ Favourable
  BY DEF ProbeInv
<1>1. CASE Connect
  <2>1. /\ phase = "connect" /\ phase' = "ask" /\ bridge' = "open" /\ heard' = heard /\ Asking
        /\ heard = << >> /\ probe' = probe
    BY <1>0, <1>1 DEF Connect, Bridged, Asking
  <2>2. reasons \subseteq reasons' /\ reasons' \subseteq Reasons
    BY <1>0, <1>1 DEF Connect, MissingTools, ProbeTypes, Reasons
  <2>3. DOMAIN heard' = {}
    BY <2>1
  <2>4. Favourable'
    BY <2>1, <2>3 DEF Favourable
  <2> QED BY <1>0, <2>1, <2>2, <2>4, DialogueKeepsInv DEF ProbeTypes
<1>2. CASE ConnectFails
  <2>1. /\ phase = "connect" /\ phase' = "judge" /\ bridge' = bridge /\ heard' = heard /\ Asking
        /\ heard = << >> /\ probe' = probe /\ reasons' = reasons \union {"failed"}
    BY <1>0, <1>2 DEF ConnectFails, Bridged, Asking
  <2>2. DOMAIN heard' = {} /\ reasons' # {}
    BY <2>1
  <2>3. Favourable'
    BY <2>1, <2>2 DEF Favourable
  <2> QED BY <1>0, <2>1, <2>3, DialogueKeepsInv DEF ProbeTypes, Bridged, Reasons
<1>3. CASE SkipNextStep
  <2>1. /\ phase = "ask" /\ phase' = "ask" /\ bridge' = bridge /\ reasons' = reasons /\ Asking
        /\ probe = "session" /\ probe' = probe /\ ~AllHeard /\ heard' = Append(heard, None)
    BY <1>3 DEF SkipNextStep, Asking
  <2>2. Len(heard) \in Nat /\ Len(heard) + 1 <= Len(Calls(probe))
    BY <1>0, <2>1, CallIsNamed
  <2>3. heard' \in Seq(Hearable) /\ Len(heard') <= Len(Calls(probe))
    <3>1. None \in Hearable
      BY DEF Hearable
    <3>2. heard \in Seq(Hearable)
      BY <1>0 DEF ProbeTypes
    <3> QED BY <2>1, <2>2, <3>1, <3>2
  <2>4. Favourable'
    BY <2>1 DEF Favourable
  <2> QED BY <1>0, <2>1, <2>3, <2>4, DialogueKeepsInv DEF ProbeTypes
<1>4. CASE PlanIsUnusable \/ CallFails
  <2>1. /\ phase = "ask" /\ phase' = "close" /\ bridge' = bridge /\ heard' = heard /\ Asking
        /\ reasons \subseteq reasons' /\ reasons' # {} /\ probe' = probe /\ offered' = offered
    BY <1>4 DEF PlanIsUnusable, CallFails, Asking
  <2>2. reasons' \subseteq Reasons
    BY <1>0, <1>4 DEF PlanIsUnusable, CallFails, ProbeTypes, Reasons
  <2>3. Favourable'
    BY <2>1, StaysFavourable
  <2> QED BY <1>0, <2>1, <2>2, <2>3, DialogueKeepsInv DEF ProbeTypes
<1>5. CASE Conclude
  <2> DEFINE Gap == probe = "session" /\ (BindingGap \/ TransitionGap)
  <2>1. /\ phase = "ask" /\ phase' = "close" /\ bridge' = bridge /\ heard' = heard /\ Asking
        /\ probe' = probe /\ offered' = offered
        /\ reasons' = reasons \union (IF Gap THEN {"gap"} ELSE {})
    BY <1>5 DEF Conclude, Asking
  <2>2. reasons \subseteq reasons' /\ reasons' \subseteq Reasons
    BY <1>0, <2>1 DEF ProbeTypes, Reasons
  <2>3. reasons' = {} => reasons = {} /\ ~Gap
    BY <2>1
  <2>4. BindingGap' = BindingGap /\ TransitionGap' = TransitionGap
    BY <2>1 DEF BindingGap, TransitionGap, Heard, Sufficient
  <2>5. Favourable'
    BY <1>0, <2>1, <2>3, <2>4 DEF Favourable
  <2> QED BY <1>0, <2>1, <2>2, <2>5, DialogueKeepsInv DEF ProbeTypes
<1>6. CASE Close
  <2>1. /\ phase = "close" /\ phase' = "judge" /\ bridge' = "closed" /\ heard' = heard /\ Asking
        /\ reasons \subseteq reasons' /\ probe' = probe /\ offered' = offered
    BY <1>6 DEF Close, Asking
  <2>2. reasons' \subseteq Reasons
    BY <1>0, <1>6 DEF Close, ProbeTypes, Reasons
  <2>3. Favourable'
    BY <2>1, StaysFavourable
  <2> QED BY <1>0, <2>1, <2>2, <2>3, DialogueKeepsInv DEF ProbeTypes
<1> QED BY <1>1, <1>2, <1>3, <1>4, <1>5, <1>6

\* What is heard and given stays, and so does what was earned by it.
LEMMA EarnedStays ==
    ASSUME Ending PROVE Earned' = Earned
BY DEF Ending, Earned, SessionEarned, SingleKeyEarned, FollowUpEarned, CreditingEarned, Heard

LEMMA EndingKeepsInv ==
    ASSUME ProbeInv, Judge \/ Unexpected \/ Write \/ FailSafeFails \/ Report PROVE ProbeInv'
<1>0. ProbeTypes /\ Bridged /\ Told
  BY DEF ProbeInv
<1>1. Ending
  BY DEF Judge, Unexpected, Write, FailSafeFails, Report
<1>2. /\ phase \in {"judge", "write", "fail safe", "report"}
      /\ phase' \in {"write", "fail safe", "report", "done"}
      /\ bridge # "open"
  BY <1>0 DEF Judge, Unexpected, Write, FailSafeFails, Report, Bridged
<1>3. Bridged' /\ InputsKept' /\ Favourable'
  BY <1>1, <1>2 DEF Ending, Bridged, InputsKept, Favourable
<1>4. reasons' \subseteq Reasons /\ verdict' \in Verdicts \union {None}
  BY <1>0 DEF Judge, Unexpected, Write, FailSafeFails, Report, JudgedReasons, ProbeTypes, Reasons,
     Verdicts
<1>5. ProbeTypes'
  BY <1>0, <1>1, <1>2, <1>4 DEF Ending, ProbeTypes, Phases
<1>6. ASSUME phase # "report" PROVE artifact # Passed /\ Torn # Passed
  BY <1>0, <1>2, <1>6 DEF Told, Torn, Passed
<1>8. CASE Judge
  <2>1. verdict' = "PASS" => Earned'
    BY <1>1, <1>8, VerdictIsEarned, EarnedStays DEF Judge
  <2>2. verdict' \in Verdicts /\ phase' = "write" /\ artifact' = artifact /\ phase = "judge"
    BY <1>8 DEF Judge, Verdicts
  <2>3. Told'
    BY <1>6, <2>1, <2>2 DEF Told, Passed
  <2> QED BY <1>3, <1>5, <2>3 DEF ProbeInv
<1>9. CASE Unexpected
  <2>1. /\ verdict' = "NO-GO" /\ phase' = "fail safe" /\ artifact' \in {artifact, Torn}
        /\ phase # "report"
    BY <1>9 DEF Unexpected
  <2>2. Told'
    BY <1>6, <2>1 DEF Told, Passed
  <2> QED BY <1>3, <1>5, <2>2 DEF ProbeInv
<1>10. CASE Write
  <2>1. /\ artifact' = [by |-> "this", verdict |-> verdict] /\ verdict' = verdict
        /\ phase' = "report" /\ phase \in {"write", "fail safe"}
    BY <1>10 DEF Write
  <2>2. verdict = "PASS" => Earned'
    BY <1>0, <1>1, <2>1, EarnedStays DEF Told
  <2>3. artifact' = Passed' => verdict = "PASS"
    BY <2>1 DEF Passed
  <2>4. Told'
    BY <2>1, <2>2, <2>3 DEF Told
  <2> QED BY <1>3, <1>5, <2>4 DEF ProbeInv
<1>11. CASE FailSafeFails
  <2>1. /\ artifact' \in {artifact, Torn} /\ status' = 1 /\ phase' = "done"
        /\ phase # "report"
    BY <1>11 DEF FailSafeFails
  <2>2. Told'
    BY <1>6, <2>1 DEF Told, Passed
  <2> QED BY <1>3, <1>5, <2>2 DEF ProbeInv
<1>12. CASE Report
  <2>1. /\ phase = "report" /\ phase' = "done" /\ UNCHANGED <<artifact, verdict>>
        /\ status' \in {StatusOf(verdict), 1}
    BY <1>12 DEF Report
  <2>2. artifact = [by |-> "this", verdict |-> verdict]
    BY <1>0, <2>1 DEF Told
  <2>3. status' = 0 => artifact = Passed
    BY <2>1, <2>2 DEF StatusOf, Passed
  <2>4. artifact = Passed => Earned'
    BY <1>0, <1>1, EarnedStays DEF Told
  <2>5. Told'
    BY <2>1, <2>3, <2>4 DEF Told, Passed
  <2> QED BY <1>3, <1>5, <2>5 DEF ProbeInv
<1> QED BY <1>8, <1>9, <1>10, <1>11, <1>12

\* An interrupt leaves no PASS behind that was not written, and earned, before.
LEMMA InterruptKeepsInv == ASSUME ProbeInv, Interrupt PROVE ProbeInv'
<1>1. /\ phase \notin {"idle", "done"} /\ phase' = "done" /\ status' = 1
      /\ heard' = IF phase = "report" THEN heard ELSE << >>
      /\ bridge' = (IF bridge = "open" THEN "closed" ELSE bridge)
      /\ artifact' \in {artifact, Torn}
      /\ UNCHANGED <<probe, input, evidence, offered, reasons, verdict>>
  BY DEF Interrupt
<1>2. ProbeTypes'
  <2>1. heard' \in Seq(Hearable) /\ Len(heard') <= Len(Calls(probe))
    <3>1. CASE phase = "report"
      BY <1>1, <3>1 DEF ProbeInv, ProbeTypes
    <3>2. CASE phase # "report"
      <4>1. heard' = << >> /\ << >> \in Seq(Hearable) /\ Len(<< >>) = 0
        BY <1>1, <3>2
      <4> QED BY <1>1, <4>1, CallsListed DEF ProbeInv, ProbeTypes
    <3> QED BY <3>1, <3>2
  <2> QED BY <1>1, <2>1 DEF ProbeInv, ProbeTypes, Phases
<1>3. Bridged' /\ InputsKept' /\ Favourable'
  BY <1>1 DEF Bridged, InputsKept, Favourable
<1>4. Told'
  <2>1. CASE phase = "report"
    <3>1. /\ Ending /\ (artifact = Passed => Earned)
          /\ artifact' = artifact
      BY <1>1, <2>1 DEF ProbeInv, Told, Bridged, Ending, Interrupt
    <3>2. artifact = Passed => Earned'
      BY <3>1, EarnedStays
    <3> QED BY <1>1, <3>1, <3>2 DEF Told, Passed
  <2>2. CASE phase # "report"
    <3>1. artifact # Passed /\ Torn # Passed
      BY <1>1, <2>2 DEF ProbeInv, Told, Torn, Passed
    <3>2. artifact' # Passed' /\ status' # 0
      BY <1>1, <3>1 DEF Passed
    <3> QED BY <1>1, <3>2 DEF Told
  <2> QED BY <2>1, <2>2
<1> QED BY <1>2, <1>3, <1>4 DEF ProbeInv

LEMMA InitProbeInv == PreflightInit => ProbeInv
<1>1. ASSUME PreflightInit PROVE ProbeInv
  <2>1. ProbeTypes
    BY <1>1 DEF PreflightInit, ProbeTypes, Phases
  <2>2. Bridged /\ InputsKept /\ Favourable
    BY <1>1 DEF PreflightInit, Bridged, InputsKept, Favourable
  <2>3. Told
    BY <1>1 DEF PreflightInit, Told, Passed
  <2> QED BY <2>1, <2>2, <2>3 DEF ProbeInv
<1> QED BY <1>1

LEMMA NextKeepsProbeInv == ASSUME ProbeInv, [PreflightNext]_preflight_vars PROVE ProbeInv'
<1>1. CASE PreflightNext
  BY <1>1, StartKeepsInv, AskKeepsInv, DialogueStepKeepsInv, EndingKeepsInv, InterruptKeepsInv
     DEF PreflightNext, ProbeStep
<1>2. CASE UNCHANGED preflight_vars
  <2>1. /\ Earned' = Earned /\ AllHeard' = AllHeard
        /\ BindingGap' = BindingGap /\ TransitionGap' = TransitionGap
    BY <1>2, EarnedStays DEF preflight_vars, Ending, AllHeard, BindingGap, TransitionGap, Heard,
       Sufficient
  <2>2. ProbeTypes' /\ Bridged' /\ InputsKept'
    BY <1>2 DEF preflight_vars, ProbeInv, ProbeTypes, Bridged, InputsKept
  <2>3. Favourable'
    BY <1>2, <2>1 DEF preflight_vars, ProbeInv, Favourable
  <2>4. Told'
    BY <1>2, <2>1 DEF preflight_vars, ProbeInv, Told, Passed
  <2> QED BY <2>2, <2>3, <2>4 DEF ProbeInv
<1> QED BY <1>1, <1>2
-----------------------------------------------------------------------------
(* The theorems *)

\* Every step of the command line is a step of its probe or none: what holds of
\* a probe by itself holds when it is run as a command (predictclaw.py).
THEOREM CommandsRunProbes == CommandsSpec => PreflightSpec
<1>1. CommandsInit => PreflightInit
  BY DEF CommandsInit
<1>2. [CommandsNext]_commands_vars => [PreflightNext]_preflight_vars
  <2>1. ASSUME NEW t, Dispatch(t) PROVE UNCHANGED preflight_vars
    BY <2>1 DEF Dispatch, OtherScripts
  <2>2. Progress => [PreflightNext]_preflight_vars
    BY DEF Progress, MarketsRun, PositionsRun, ProbeRuns, Finish, OtherScripts, PreflightNext
  <2>3. Surroundings => [PreflightNext]_preflight_vars
    BY DEF Surroundings, PreflightNext
  <2>4. UNCHANGED commands_vars => UNCHANGED preflight_vars
    BY DEF commands_vars
  <2> QED BY <2>1, <2>2, <2>3, <2>4 DEF CommandsNext
<1> QED BY <1>1, <1>2, PTL DEF CommandsSpec, PreflightSpec

LEMMA AlwaysProbeInv == CommandsSpec => []ProbeInv
<1>1. PreflightSpec => []ProbeInv
  BY InitProbeInv, NextKeepsProbeInv, PTL DEF PreflightSpec
<1> QED BY <1>1, CommandsRunProbes, PTL

\* A probe passes only if all it was told fits together (the judgements of the
\* four scripts/poc_*.py).
THEOREM PassesAreEarned == CommandsSpec => []PassIsEarned
<1>1. ProbeInv => PassIsEarned
  <2>1. ASSUME ProbeInv, NEW p \in Probes, Passes(p) PROVE probe = p /\ Earned /\ bridge # "open"
    BY <2>1 DEF Passes, ProbeInv, Told, Bridged, Passed
  <2> QED BY <2>1 DEF Probes, PassIsEarned, Earned, SessionEarned, SingleKeyEarned, FollowUpEarned,
          CreditingEarned
<1> QED BY <1>1, AlwaysProbeInv, PTL

\* The exit status is 0 only if the file holds the probe's own PASS, whatever
\* failed or interrupted the probe before, and when it ends the bridge is
\* released (main() and run() of the probes).
THEOREM StatusesAreTrue == CommandsSpec => []StatusIsOfTheArtifact
<1>1. ProbeInv => StatusIsOfTheArtifact
  BY DEF ProbeInv, Told, Bridged, Passed, StatusIsOfTheArtifact
<1> QED BY <1>1, AlwaysProbeInv, PTL
-----------------------------------------------------------------------------
(* Searches and hedges *)

\* Every step of the command line is a step of its search or hedge or none.
THEOREM CommandsRunHedges == CommandsSpec => HedgingSpec
<1>1. CommandsInit => HedgingInit
  BY DEF CommandsInit
<1>2. [CommandsNext]_commands_vars => [HedgingNext]_hedge_vars
  <2>1. ASSUME NEW t, Dispatch(t) PROVE UNCHANGED hedge_vars
    BY <2>1 DEF Dispatch, OtherScripts
  <2>2. MarketsStart => HedgingNext
    <3> DEFINE Ids == UNION {[1..n -> Markets] : n \in 0..2}
    <3>1. << >> \in Ids /\ \A m \in Markets : <<m>> \in Ids /\ \A n \in Markets : <<m, n>> \in Ids
      <4>1. << >> \in [1..0 -> Markets]
        OBVIOUS
      <4>2. \A m \in Markets : <<m>> \in [1..1 -> Markets]
        OBVIOUS
      <4>3. \A m \in Markets, n \in Markets : <<m, n>> \in [1..2 -> Markets]
        OBVIOUS
      <4> QED BY <4>1, <4>2, <4>3
    <3> HIDE DEF Ids
    <3>2. MarketsStart => \E k \in Kinds, ids \in Ids : StartCommand(k, ids)
      BY <3>1 DEF MarketsStart, Kinds
    <3> QED BY <3>2 DEF HedgingNext, Ids
  <2>3. Progress => [HedgingNext]_hedge_vars
    BY <2>2 DEF Progress, MarketsRun, PositionsRun, ProbeRuns, Finish, OtherScripts, HedgingNext
  <2>4. Surroundings => [HedgingNext]_hedge_vars
    BY DEF Surroundings, HedgingNext
  <2>5. UNCHANGED commands_vars => UNCHANGED hedge_vars
    BY DEF commands_vars
  <2> QED BY <2>1, <2>3, <2>4, <2>5 DEF CommandsNext
<1> QED BY <1>1, <1>2, PTL DEF CommandsSpec, HedgingSpec

\* What HedgingProofs shows of a command holds of the child of predictclaw.py.
THEOREM ChildrenHedgeWell ==
    CommandsSpec => [](SearchIsCoherent /\ ClientsAreClosed /\ HedgesHold /\ RankingIsReproducible)
BY SearchesAreCoherent, HedgingClosesClients, HedgesAlwaysHold, RankingsAreReproducible,
   CommandsRunHedges, PTL
-----------------------------------------------------------------------------
(* Positions *)

\* A stored position is of a buy, and none is stored twice.
OfBuys(stored) ==
    /\ stored \in J!Journals
    /\ \A i \in DOMAIN stored : \E b \in Buys :
          Token[b] = stored[i].id /\ buys[b].at # "idle" /\ buys[b].order = stored[i].order
    /\ \A m, n \in DOMAIN stored : stored[m].id = stored[n].id => m = n

\* What is handed to the journal is of buys.
HandedOfBuys ==
    \A p \in history.handed : p \in J!LocalPosition /\ \E b \in Buys :
        Token[b] = p.id /\ buys[b].at # "idle" /\ buys[b].order = p.order

\* The amount stored with an order.
AmountOf(b) == buys[b].order.quantity * (IF b \in Limited THEN Unit ELSE Cost)

\* What was read of the exchange is so, and nothing was read twice.
AsHeld ==
    /\ \A i \in DOMAIN remote :
          /\ holdings[remote[i].of] # None
          /\ holdings[remote[i].of] = [quantity |-> remote[i].quantity, status |-> remote[i].status]
          /\ remote[i].token \in {remote[i].of, None}
    /\ \A i, j \in DOMAIN remote : remote[i].of = remote[j].of => i = j

\* The rows there may be, by their number.
RowCount == Len(local) + Len(NewRows)

IsRow(m, row) ==
    row = IF m <= Len(local) THEN Tracked(local[m], row.mark)
          ELSE External(NewRows[m - Len(local)], row.mark)

\* Each row shown is one of those, and none is shown twice.
RowsShown ==
    \E place \in [DOMAIN shown -> 1..RowCount] :
        /\ \A n \in DOMAIN shown : IsRow(place[n], shown[n])
        /\ \A m, n \in DOMAIN shown : place[m] = place[n] => m = n

\* What was stored before the listing began is listed.
StoredAreListed ==
    Returned /\ view.kind # "show" /\ ~history.overlapped => \A b \in Buys : buys[b].at = "stored" =>
        \/ \E n \in DOMAIN shown : shown[n].token = Token[b] /\ shown[n].source = "tracked"
        \/ view.kind = "list" /\ holdings[Token[b]] # None
           /\ holdings[Token[b]].status = "CLOSED"

\* As long as no two buys stored at once, what was stored is there.
StoredAreThere ==
    ~history.overlapped => \A b \in Buys : buys[b].at = "stored" =>
        J!Holds(journal, Token[b]) /\ (view.at \in {"remote", "merge"} => J!Holds(local, Token[b]))

\* An order that was posted.
Ordered(b) == buys[b].order \in Order /\ buys[b].order.notional = AmountOf(b)

PositionsInv ==
    /\ PositionsTypeOK
    /\ \A b \in Buys : buys[b].at # "idle" => Ordered(b)
    /\ HandedOfBuys /\ OfBuys(journal) /\ OfBuys(local) /\ AsHeld
    /\ StoredAreThere
    /\ view.at \in {"idle", "remote"} => remote = << >> /\ shown = << >>
    /\ view.at # "idle" => view.kind \in {"list", "all", "show"}
    /\ view.at # "done" => view.result = None
    /\ view.at = "merge" => Len(shown) <= RowCount /\ \A n \in DOMAIN shown : IsRow(n, shown[n])
    /\ RowsShown /\ StoredAreListed

\* upsert() puts a position where its id is, or behind the others.
LEMMA UpsertedStores ==
    ASSUME NEW stored \in J!Journals, NEW p \in J!LocalPosition,
           \A m, n \in DOMAIN stored : stored[m].id = stored[n].id => m = n
    PROVE  LET upserted == J!Upserted(stored, p) IN
           /\ upserted \in J!Journals
           /\ \A i \in DOMAIN upserted : upserted[i] = p \/ \E j \in DOMAIN stored : upserted[i] = stored[j]
           /\ \A id : J!Holds(stored, id) \/ id = p.id => J!Holds(upserted, id)
           /\ \A m, n \in DOMAIN upserted : upserted[m].id = upserted[n].id => m = n
<1> DEFINE first == J!FirstIndex(stored, p.id)
           upserted == J!Upserted(stored, p)
<1>0. stored \in Seq(J!LocalPosition) /\ DOMAIN stored = 1..Len(stored) /\ Len(stored) \in Nat
  BY DEF J!Journals
<1>1. CASE J!Holds(stored, p.id)
  <2>1. first \in DOMAIN stored /\ stored[first].id = p.id
    <3>1. PICK k \in DOMAIN stored : stored[k].id = p.id
      BY <1>1 DEF J!Holds
    <3>2. \A j \in DOMAIN stored : stored[j].id = p.id => k <= j
      BY <1>0, <3>1
    <3> QED BY <3>1, <3>2 DEF J!FirstIndex
  <2>2. upserted = [stored EXCEPT ![first] = p]
    BY <1>1 DEF J!Upserted
  <2> HIDE DEF first, upserted
  <2>3. upserted \in Seq(J!LocalPosition)
    BY <1>0, <2>1, <2>2, ExceptSeq
  <2>4. /\ DOMAIN upserted = DOMAIN stored /\ upserted[first] = p
        /\ \A i \in DOMAIN stored : i # first => upserted[i] = stored[i]
        /\ \A i \in DOMAIN stored : upserted[i].id = stored[i].id
    BY <2>1, <2>2
  <2>5. \A id : J!Holds(stored, id) \/ id = p.id => J!Holds(upserted, id)
    BY <2>1, <2>4 DEF J!Holds
  <2>6. \A m, n \in DOMAIN upserted : upserted[m].id = upserted[n].id => m = n
    BY <2>4
  <2>7. \A i \in DOMAIN upserted : upserted[i] = p \/ \E j \in DOMAIN stored : upserted[i] = stored[j]
    BY <2>4
  <2> QED BY <2>3, <2>5, <2>6, <2>7 DEF J!Journals, upserted
<1>2. CASE ~J!Holds(stored, p.id)
  <2>1. upserted = Append(stored, p)
    BY <1>2 DEF J!Upserted
  <2> HIDE DEF upserted
  <2>2. /\ upserted \in Seq(J!LocalPosition) /\ Len(upserted) = Len(stored) + 1
        /\ upserted[Len(stored) + 1] = p
        /\ \A i \in 1..Len(stored) : upserted[i] = stored[i]
    BY <1>0, <2>1, AppendProperties
  <2>3. DOMAIN upserted = 1..(Len(stored) + 1)
    BY <2>2
  <2>4. \A i \in DOMAIN stored : stored[i].id # p.id /\ i \in DOMAIN upserted /\ upserted[i] = stored[i]
    BY <1>0, <1>2, <2>2, <2>3 DEF J!Holds
  <2>5. Len(stored) + 1 \in DOMAIN upserted
    BY <1>0, <2>3
  <2>6. \A i \in DOMAIN upserted : i \in DOMAIN stored \/ i = Len(stored) + 1
    BY <1>0, <2>3
  <2>7. \A id : J!Holds(stored, id) \/ id = p.id => J!Holds(upserted, id)
    BY <2>2, <2>4, <2>5 DEF J!Holds
  <2>8. \A m, n \in DOMAIN upserted : upserted[m].id = upserted[n].id => m = n
    BY <2>2, <2>4, <2>6
  <2>9. \A i \in DOMAIN upserted : upserted[i] = p \/ \E j \in DOMAIN stored : upserted[i] = stored[j]
    BY <2>2, <2>4, <2>6
  <2> QED BY <2>2, <2>7, <2>8, <2>9 DEF J!Journals, upserted
<1> QED BY <1>1, <1>2

\* The exchange answers with what is held, each once.
LEMMA AnswersAreHeld ==
    ASSUME PositionsTypeOK, NEW answer \in Answers
    PROVE  /\ answer \in Seq(Remote)
           /\ \A i \in DOMAIN answer :
                 /\ holdings[answer[i].of] # None
                 /\ holdings[answer[i].of] = [quantity |-> answer[i].quantity, status |-> answer[i].status]
                 /\ answer[i].token \in {answer[i].of, None}
           /\ \A i, j \in DOMAIN answer : answer[i].of = answer[j].of => i = j
<1> DEFINE size == Cardinality(Held)
<1>1. size \in Nat
  <2>1. IsFiniteSet(Markets \X Sides)
    <3>1. IsFiniteSet(Sides)
      <4>1. IsFiniteSet({"YES"}) /\ IsFiniteSet({"NO"})
        BY FS_Singleton
      <4>2. IsFiniteSet({"YES"} \union {"NO"})
        BY <4>1, FS_Union
      <4>3. Sides = {"YES"} \union {"NO"}
        BY DEF Sides
      <4> QED BY <4>2, <4>3
    <3> QED BY <3>1, FS_Product, MarketsAssumption
  <2>2. Held \in SUBSET (Markets \X Sides)
    BY PositionsAssumption DEF Held
  <2>3. IsFiniteSet(Held)
    BY <2>1, <2>2, FS_Subset
  <2> QED BY <2>3, FS_CardinalityType
<1> HIDE DEF size
<1> DEFINE orders == {o \in [1..size -> Held] : \A i, j \in DOMAIN o : o[i] = o[j] => i = j}
<1>8. answer \in {Answer(o, named) : o \in orders, named \in SUBSET Held}
  BY DEF Answers, size
<1> HIDE DEF orders
<1>9. PICK o \in orders, named \in SUBSET Held : answer = Answer(o, named)
  BY <1>8
<1>2. /\ o \in [1..size -> Held]
      /\ \A i, j \in DOMAIN o : o[i] = o[j] => i = j
      /\ answer = [i \in DOMAIN o |->
             [of |-> o[i], token |-> IF o[i] \in named THEN o[i] ELSE None,
              quantity |-> holdings[o[i]].quantity, status |-> holdings[o[i]].status]]
  BY <1>9 DEF orders, Answer
<1>3. /\ DOMAIN answer = 1..size /\ DOMAIN o = 1..size
      /\ \A i \in 1..size : /\ answer[i].of = o[i]
                            /\ answer[i].token = (IF o[i] \in named THEN o[i] ELSE None)
                            /\ answer[i].quantity = holdings[o[i]].quantity
                            /\ answer[i].status = holdings[o[i]].status
  BY <1>2
<1>4. ASSUME NEW i \in 1..size
      PROVE  o[i] \in Tokens /\ holdings[o[i]] # None /\ holdings[o[i]] \in Holding
  <2>1. o[i] \in Held
    BY <1>2
  <2>2. o[i] \in Tokens /\ holdings[o[i]] # None
    BY <2>1 DEF Held
  <2> QED BY <2>2 DEF PositionsTypeOK
<1>5. answer \in Seq(Remote)
  <2>1. ASSUME NEW i \in 1..size PROVE answer[i] \in Remote
    <3>1. holdings[o[i]].quantity \in Nat /\ holdings[o[i]].status \in {"OPEN", "CLOSED"}
      BY <1>4 DEF Holding
    <3>2. answer[i] = [of |-> o[i], token |-> IF o[i] \in named THEN o[i] ELSE None,
              quantity |-> holdings[o[i]].quantity, status |-> holdings[o[i]].status]
      BY <1>2
    <3> QED BY <1>4, <3>1, <3>2 DEF Remote
  <2>2. answer = [i \in 1..size |-> answer[i]]
    BY <1>2, <1>3
  <2> QED BY <1>1, <2>1, <2>2
<1>6. ASSUME NEW i \in DOMAIN answer
      PROVE  /\ holdings[answer[i].of] # None
             /\ holdings[answer[i].of] = [quantity |-> answer[i].quantity, status |-> answer[i].status]
             /\ answer[i].token \in {answer[i].of, None}
  <2>1. \A h \in Holding : h = [quantity |-> h.quantity, status |-> h.status]
    BY DEF Holding
  <2> QED BY <1>3, <1>4, <2>1
<1>7. \A i, j \in DOMAIN answer : answer[i].of = answer[j].of => i = j
  BY <1>2, <1>3
<1> QED BY <1>5, <1>6, <1>7

\* A price shown is a price.
LEMMA PositionMarks == ASSUME NEW t \in Tokens PROVE MarksOf(t) \subseteq Price
<1>1. Unit \in Nat \ {0}
  BY MarketsAssumption
<1>2. \A a, b \in Price : (a + b) \div 2 \in Price /\ (a + b + 1) \div 2 \in Price
  <2>1. ASSUME NEW a \in 0..Unit, NEW b \in 0..Unit
        PROVE  (a + b) \div 2 \in 0..Unit /\ (a + b + 1) \div 2 \in 0..Unit
    BY <1>1
  <2> QED BY <2>1 DEF Price
<1>3. Unit \div 2 \in Price /\ \A price \in Price : Unit - price \in Price
  BY <1>1 DEF Price
<1>4. ASSUME NEW q \in Quote PROVE MarksOfBook(q) \subseteq Price
  <2>1. q.ask \in Price \union {None} /\ q.bid \in Price \union {None}
    BY DEF Quote
  <2> QED BY <1>2, <1>3, <2>1 DEF MarksOfBook
<1>5. t[1] \in Markets
  BY PositionsAssumption
<1>6. Quotes[t[1]] \subseteq Quote
  BY <1>5, MarketsAssumption
<1>7. UNION {MarksOfBook(q) : q \in Quotes[t[1]]} \subseteq Price
  BY <1>4, <1>6
<1> QED BY <1>3, <1>7 DEF MarksOf

\* The row of a stored position tells what the exchange has of its token, if it
\* named the token, and else what was ordered.
LEMMA TrackedRow ==
    ASSUME remote \in Seq(Remote), AsHeld, NEW p \in J!LocalPosition, NEW mark \in Price
    PROVE  LET row == Tracked(p, mark) IN
           /\ row \in PositionView
           /\ row.token = p.id /\ row.source = "tracked" /\ row.mark = mark
           /\ row.remote # None => \E i \in DOMAIN remote :
                 /\ remote[i].of = p.id /\ row.remote = remote[i].quantity
                 /\ row.profit = remote[i].quantity * mark - p.order.notional
           /\ row.status = "OPEN" \/ \E i \in DOMAIN remote :
                 remote[i].of = p.id /\ row.status = remote[i].status
<1> DEFINE t == p.id
           known == ByToken(t)
           r == remote[CHOOSE i \in known : \A j \in known : j <= i]
           quantity == IF known # {} THEN r.quantity ELSE p.order.quantity
           row == Tracked(p, mark)
<1>0. /\ DOMAIN remote = 1..Len(remote) /\ Len(remote) \in Nat
      /\ \A i \in DOMAIN remote : remote[i] \in Remote
  OBVIOUS
<1>1. p.id \in Tokens /\ p.order \in Order
  BY DEF J!LocalPosition
<1>2. p.order.quantity \in Nat /\ p.order.notional \in Nat
  BY <1>1, PositionsAssumption DEF Order
<1>3. mark \in Int
  BY MarketsAssumption DEF Price
<1>4. row = [token |-> t, source |-> "tracked", status |-> IF known # {} THEN r.status ELSE "OPEN",
             quantity |-> p.order.quantity, remote |-> IF known # {} THEN r.quantity ELSE None,
             mark |-> mark, profit |-> Profit(quantity, mark, p.order.notional)]
  BY DEF Tracked
<1>5. ASSUME known # {}
      PROVE  \E i \in DOMAIN remote : remote[i].of = t /\ r = remote[i]
  <2>1. \A i \in known : i \in DOMAIN remote /\ remote[i].of = t
    <3>1. t # None
      BY <1>1, PositionsAssumption
    <3> QED BY <3>1 DEF ByToken, AsHeld
  <2>2. PICK k \in known : TRUE
    BY <1>5
  <2>3. \A j \in known : j = k
    BY <2>1, <2>2 DEF AsHeld
  <2>4. k \in Nat
    BY <1>0, <2>1, <2>2
  <2>5. \A j \in known : j <= k
    BY <2>3, <2>4
  <2> HIDE DEF known
  <2>6. (CHOOSE i \in known : \A j \in known : j <= i) \in known
    BY <2>2, <2>5
  <2> QED BY <2>1, <2>6
<1> HIDE DEF known, r, row
<1>6. ASSUME NEW n \in Nat PROVE Profit(n, mark, p.order.notional) \in Int
  <2>1. n * mark \in Int
    BY <1>3
  <2> QED BY <1>2, <2>1 DEF Profit
<1>7. CASE known = {}
  <2>1. quantity \in Nat
    BY <1>2, <1>7
  <2>2. Profit(quantity, mark, p.order.notional) \in Int
    BY <1>6, <2>1
  <2> QED BY <1>1, <1>2, <1>4, <1>7, <2>2 DEF PositionView, row
<1>8. CASE known # {}
  <2>1. PICK i \in DOMAIN remote : remote[i].of = t /\ r = remote[i]
    BY <1>5, <1>8
  <2>2. r.quantity \in Nat /\ r.status \in {"OPEN", "CLOSED"}
    BY <1>0, <2>1 DEF Remote
  <2>3. quantity = r.quantity
    BY <1>8
  <2>4. Profit(quantity, mark, p.order.notional) \in Int
    BY <1>6, <2>2, <2>3
  <2>5. row \in PositionView
    BY <1>1, <1>2, <1>4, <1>8, <2>2, <2>4 DEF PositionView
  <2>6. /\ row.token = p.id /\ row.source = "tracked" /\ row.mark = mark
        /\ row.remote = remote[i].quantity /\ row.status = remote[i].status
        /\ row.profit = remote[i].quantity * mark - p.order.notional
    BY <1>4, <1>8, <2>1, <2>3 DEF Profit
  <2> QED BY <2>1, <2>5, <2>6 DEF row
<1> QED BY <1>7, <1>8

LEMMA ExternalRow ==
    ASSUME NEW r \in Remote, NEW mark \in Price
    PROVE  /\ External(r, mark) \in PositionView /\ External(r, mark).token = r.of
           /\ External(r, mark).source = "external" /\ External(r, mark).mark = mark
BY DEF External, PositionView, Remote

\* The other rows are of what the exchange has and does not call by the id of a
\* stored position, each once.
LEMMA NewRowsAreNew ==
    ASSUME remote \in Seq(Remote), AsHeld
    PROVE  /\ NewRows \in Seq(Remote) /\ DOMAIN NewRows = 1..Len(NewRows) /\ Len(NewRows) \in Nat
           /\ \A k \in DOMAIN NewRows : \E i \in DOMAIN remote :
                 NewRows[k] = remote[i] /\ NotTracked(remote[i])
           /\ \A k, l \in DOMAIN NewRows : NewRows[k].of = NewRows[l].of => k = l
<1> DEFINE places == {i \in DOMAIN remote : NotTracked(remote[i])}
           place == Ascending(places)
           rows == Picked(remote, place)
<1>1. places \in SUBSET (DOMAIN remote)
  OBVIOUS
<1>2. rows \in Seq(Remote) /\ \A n \in DOMAIN rows : place[n] \in places /\ rows[n] = remote[place[n]]
  <2> HIDE DEF places
  <2> QED BY <1>1, PickedLists
<1>3. \A m, n \in DOMAIN rows : m < n => place[m] < place[n]
  <2> HIDE DEF places
  <2> QED BY <1>1, PickedLists
<1>4. rows = NewRows
  BY DEF NewRows
<1> HIDE DEF place, rows
<1>5. DOMAIN rows = 1..Len(rows) /\ Len(rows) \in Nat
  BY <1>2
<1>6. ASSUME NEW k \in DOMAIN rows, NEW l \in DOMAIN rows, rows[k].of = rows[l].of PROVE k = l
  <2>1. place[k] = place[l]
    BY <1>2, <1>6 DEF AsHeld
  <2>2. place[k] \in Nat
    BY <1>2
  <2>3. ~(k < l) /\ ~(l < k)
    BY <1>3, <2>1, <2>2
  <2> QED BY <1>5, <2>3
<1> QED BY <1>2, <1>4, <1>5, <1>6

\* Two rows of one token are the stored position and one the exchange did not
\* call by the id of its token.
LEMMA RowsAreSingle ==
    ASSUME remote \in Seq(Remote), AsHeld, OfBuys(local),
           NEW k \in 1..RowCount, NEW l \in 1..RowCount, NEW row, NEW other,
           IsRow(k, row), IsRow(l, other), row.mark \in Price, other.mark \in Price,
           row.token = other.token, k # l
    PROVE  \E i \in DOMAIN remote : remote[i].of = row.token /\ remote[i].token = None
<1>0. /\ DOMAIN local = 1..Len(local) /\ Len(local) \in Nat
      /\ \A i \in DOMAIN local : local[i] \in J!LocalPosition
  BY DEF OfBuys, J!Journals
<1>1. /\ DOMAIN NewRows = 1..Len(NewRows) /\ Len(NewRows) \in Nat /\ NewRows \in Seq(Remote)
      /\ \A n \in DOMAIN NewRows : NewRows[n] \in Remote
      /\ \A n \in DOMAIN NewRows : \E i \in DOMAIN remote :
            NewRows[n] = remote[i] /\ NotTracked(remote[i])
      /\ \A m, n \in DOMAIN NewRows : NewRows[m].of = NewRows[n].of => m = n
  BY NewRowsAreNew
<1>2. ASSUME NEW n \in 1..RowCount, NEW x, IsRow(n, x), x.mark \in Price
      PROVE  \/ n \in DOMAIN local /\ x.token = local[n].id
             \/ /\ n \notin DOMAIN local /\ n - Len(local) \in DOMAIN NewRows
                /\ x.token = NewRows[n - Len(local)].of
  <2>1. CASE n <= Len(local)
    <3>1. n \in DOMAIN local /\ x = Tracked(local[n], x.mark)
      BY <1>0, <1>2, <2>1 DEF IsRow
    <3>2. x.token = local[n].id
      BY <1>0, <1>2, <3>1, TrackedRow
    <3> QED BY <3>1, <3>2
  <2>2. CASE ~(n <= Len(local))
    <3>1. n \in Nat /\ n <= Len(local) + Len(NewRows)
      BY <1>0, <1>1 DEF RowCount
    <3>2. n \notin DOMAIN local /\ n - Len(local) \in DOMAIN NewRows
      BY <1>0, <1>1, <2>2, <3>1
    <3>3. x = External(NewRows[n - Len(local)], x.mark)
      BY <1>2, <2>2 DEF IsRow
    <3>4. x.token = NewRows[n - Len(local)].of
      BY <1>1, <1>2, <3>2, <3>3, ExternalRow
    <3> QED BY <3>2, <3>4
  <2> QED BY <2>1, <2>2
<1>3. ASSUME NEW m \in DOMAIN local, NEW n \in DOMAIN NewRows, local[m].id = NewRows[n].of
      PROVE  \E i \in DOMAIN remote : remote[i].of = local[m].id /\ remote[i].token = None
  <2>1. PICK i \in DOMAIN remote : NewRows[n] = remote[i] /\ NotTracked(remote[i])
    BY <1>1
  <2>2. remote[i].token # local[m].id /\ remote[i].of = local[m].id
    BY <1>3, <2>1 DEF NotTracked
  <2>3. remote[i].token = None
    BY <2>2 DEF AsHeld
  <2> QED BY <2>2, <2>3
<1> DEFINE u == k - Len(local)
           v == l - Len(local)
<1>4. \/ k \in DOMAIN local /\ row.token = local[k].id
      \/ k \notin DOMAIN local /\ u \in DOMAIN NewRows /\ row.token = NewRows[u].of
  BY <1>2
<1>5. \/ l \in DOMAIN local /\ other.token = local[l].id
      \/ l \notin DOMAIN local /\ v \in DOMAIN NewRows /\ other.token = NewRows[v].of
  BY <1>2
<1>6. k \in Int /\ l \in Int
  BY <1>0, <1>1 DEF RowCount
<1>7. u = v => k = l
  BY <1>0, <1>6
<1> HIDE DEF u, v
<1>8. CASE k \in DOMAIN local /\ l \in DOMAIN local
  BY <1>4, <1>5, <1>8 DEF OfBuys
<1>9. CASE k \in DOMAIN local /\ l \notin DOMAIN local
  BY <1>3, <1>4, <1>5, <1>9
<1>10. CASE k \notin DOMAIN local /\ l \in DOMAIN local
  BY <1>3, <1>4, <1>5, <1>10
<1>11. CASE k \notin DOMAIN local /\ l \notin DOMAIN local
  BY <1>1, <1>4, <1>5, <1>7, <1>11
<1> QED BY <1>8, <1>9, <1>10, <1>11

\* Where nothing is shown, nothing wrong is.
LEMMA NothingShown == ASSUME shown = << >> PROVE RowsShown
<1>1. DOMAIN shown = {}
  OBVIOUS
<1>2. [n \in {} |-> 0] \in [{} -> 1..RowCount]
  OBVIOUS
<1> QED BY <1>1, <1>2 DEF RowsShown

LEMMA RowCountType ==
    ASSUME local \in J!Journals, remote \in Seq(Remote), AsHeld
    PROVE  RowCount \in Nat /\ RowCount >= Len(local) /\ Len(local) \in Nat /\ DOMAIN local = 1..Len(local)
<1>1. Len(local) \in Nat /\ DOMAIN local = 1..Len(local)
  BY DEF J!Journals
<1>2. Len(NewRows) \in Nat
  BY NewRowsAreNew
<1> QED BY <1>1, <1>2 DEF RowCount

\* The rows are made of what was read.
LEMMA SameRows ==
    ASSUME UNCHANGED <<local, remote>>
    PROVE  RowCount' = RowCount /\ \A m, row : IsRow(m, row)' <=> IsRow(m, row)
<1>1. NewRows' = NewRows
  BY DEF NewRows, NotTracked
<1>2. \A p, mark : Tracked(p, mark)' = Tracked(p, mark)
  BY DEF Tracked, ByToken
<1>3. \A r, mark : External(r, mark)' = External(r, mark)
  BY DEF External
<1> QED BY <1>1, <1>2, <1>3 DEF RowCount, IsRow

LEMMA InitPositionsInv == PositionsInit => PositionsInv
<1> SUFFICES ASSUME PositionsInit PROVE PositionsInv
  OBVIOUS
<1>1. PositionsTypeOK
  <2>1. /\ journal \in J!Journals /\ history \in J!Histories /\ local \in J!Journals
        /\ remote \in Seq(Remote) /\ shown \in Seq(PositionView)
    BY DEF J!Journals, J!Histories, J!Init, J!NothingHanded, PositionsInit
  <2>2. buys \in [Buys -> Buy]
    BY DEF PositionsInit, Buy
  <2>3. view \in [kind: {"list", "all", "show"} \union {None},
                  at: {"idle", "remote", "merge", "done"}, result: Results \union {None}]
    BY DEF PositionsInit
  <2>4. holdings \in [Tokens -> Holding \union {None}] /\ signed \in BOOLEAN
    BY DEF PositionsInit
  <2> QED BY <2>1, <2>2, <2>3, <2>4 DEF PositionsTypeOK
<1>2. HandedOfBuys /\ OfBuys(journal) /\ OfBuys(local) /\ AsHeld
  BY <1>1 DEF PositionsInit, J!Init, J!NothingHanded, PositionsTypeOK, HandedOfBuys, OfBuys, AsHeld
<1>3. RowsShown
  BY NothingShown DEF PositionsInit
<1>4. ~Returned
  BY MarketsAssumption DEF PositionsInit, Returned, Results
<1>5. \A b \in Buys : buys[b].at = "idle"
  BY DEF PositionsInit
<1> QED BY <1>1, <1>2, <1>3, <1>4, <1>5
       DEF PositionsInv, PositionsInit, StoredAreListed, StoredAreThere

\* What goes on before the exchange is asked.
LEMMA MeanwhileKeepsInv ==
    ASSUME PositionsInv, Meanwhile, history' \in J!Histories,
           holdings' \in [Tokens -> Holding \union {None}], buys' \in [Buys -> Buy],
           \A b \in Buys : buys'[b].at # "idle" => Ordered(b)',
           HandedOfBuys', OfBuys(journal)', OfBuys(local)',
           ~history'.overlapped => \A b \in Buys : buys'[b].at = "stored" =>
              J!Holds(journal', Token[b]) /\ (view.at = "remote" => J!Holds(local, Token[b]))
    PROVE  PositionsInv'
<1>1. UNCHANGED <<signed, view, local, remote, shown>> /\ view.at \in {"idle", "remote"}
  BY DEF Meanwhile
<1>2. remote = << >> /\ shown = << >> /\ view.result = None
  BY <1>1 DEF PositionsInv
<1>3. PositionsTypeOK'
  BY <1>1 DEF PositionsInv, PositionsTypeOK, OfBuys
<1>4. AsHeld'
  BY <1>1, <1>2 DEF AsHeld
<1>5. RowsShown'
  <2>1. DOMAIN shown' = {}
    BY <1>1, <1>2
  <2>2. [n \in {} |-> 0] \in [{} -> 1..RowCount']
    OBVIOUS
  <2> QED BY <2>1, <2>2 DEF RowsShown
<1>6. ~Returned'
  BY <1>1, <1>2, MarketsAssumption DEF Returned, Results
<1>7. StoredAreThere'
  BY <1>1 DEF StoredAreThere
<1> QED BY <1>1, <1>2, <1>3, <1>4, <1>5, <1>6, <1>7 DEF PositionsInv, StoredAreListed

\* An order once posted stays what it is.
Stay ==
    /\ buys' \in [Buys -> Buy]
    /\ \A b \in Buys : buys[b].at # "idle" => buys'[b].at # "idle" /\ buys'[b].order = buys[b].order

LEMMA OrdersStay ==
    ASSUME PositionsInv, Stay, UNCHANGED local
    PROVE  /\ OfBuys(local)'
           /\ journal' \in {journal, << >>} => OfBuys(journal)'
           /\ history'.handed = history.handed => HandedOfBuys'
           /\ \A b \in Buys : buys[b].at # "idle" => Ordered(b)'
<1>1. ASSUME NEW stored, stored \in {journal, local}
      PROVE  \A i \in DOMAIN stored : \E b \in Buys :
                Token[b] = stored[i].id /\ buys'[b].at # "idle" /\ buys'[b].order = stored[i].order
  BY <1>1 DEF PositionsInv, OfBuys, Stay
<1>2. << >> \in J!Journals /\ DOMAIN << >> = {}
  BY DEF J!Journals
<1>3. OfBuys(local)'
  BY <1>1 DEF PositionsInv, OfBuys
<1>4. ASSUME journal' \in {journal, << >>} PROVE OfBuys(journal)'
  BY <1>1, <1>2, <1>4 DEF PositionsInv, OfBuys
<1>5. ASSUME history'.handed = history.handed PROVE HandedOfBuys'
  BY <1>5 DEF PositionsInv, HandedOfBuys, Stay
<1>6. \A b \in Buys : buys[b].at # "idle" => Ordered(b)'
  BY DEF PositionsInv, Ordered, AmountOf, Stay
<1> QED BY <1>3, <1>4, <1>5, <1>6

\* A buy goes on to the next line.
LEMMA OnlyOnward ==
    ASSUME PositionsInv, NEW b \in Buys, buys[b].at \in {"posted", "storing"},
           NEW at \in {"storing", "stored", "stored late", "dead"}, buys' = [buys EXCEPT ![b].at = at]
    PROVE  /\ Stay /\ buys'[b].at = at /\ \A c \in Buys : c # b => buys'[c] = buys[c]
           /\ \A c \in Buys : buys'[c].at # "idle" => buys[c].at # "idle"
           /\ Position(b) \in J!LocalPosition /\ Position(b).id = Token[b]
           /\ Position(b).order = buys[b].order
<1>1. buys \in [Buys -> Buy] /\ Token[b] \in Tokens /\ buys[b].order \in Order
  BY PositionsAssumption DEF PositionsInv, PositionsTypeOK, Ordered
<1>2. /\ buys' \in [Buys -> Buy] /\ buys'[b].at = at /\ buys'[b].order = buys[b].order
      /\ \A c \in Buys : c # b => buys'[c] = buys[c]
  BY <1>1 DEF Buy
<1>3. Position(b) \in J!LocalPosition
  BY <1>1 DEF Position, J!LocalPosition
<1> QED BY <1>1, <1>2, <1>3 DEF Stay, Position

LEMMA PostKeepsInv ==
    ASSUME PositionsInv, NEW b \in Buys, NEW quantity \in Quantities, NEW fill \in 0..quantity,
           Post(b, quantity, fill)
    PROVE  PositionsInv'
<1> DEFINE notional == quantity * (IF b \in Limited THEN Unit ELSE Cost)
           order == [quantity |-> quantity, notional |-> notional, filled |-> fill = quantity]
           t == Token[b]
           had == IF holdings[t] = None THEN 0 ELSE holdings[t].quantity
<1>0. /\ holdings \in [Tokens -> Holding \union {None}] /\ buys \in [Buys -> Buy]
      /\ history \in J!Histories /\ t \in Tokens
  BY PositionsAssumption DEF PositionsInv, PositionsTypeOK
<1>1. /\ Meanwhile /\ buys[b].at = "idle" /\ UNCHANGED <<journal, history, local>>
      /\ buys' = [buys EXCEPT ![b] = [at |-> "posted", order |-> order]]
      /\ holdings' = IF fill = 0 THEN holdings
                     ELSE [holdings EXCEPT ![t] = [quantity |-> had + fill, status |-> "OPEN"]]
  BY DEF Post, Meanwhile
<1>2. quantity \in Nat /\ fill \in Nat /\ Cost \in Nat /\ Unit \in Nat
  BY PositionsAssumption, MarketsAssumption
<1>3. order \in Order /\ order.quantity = quantity /\ order.notional = notional
  <2>1. notional \in Nat
    BY <1>2
  <2> HIDE DEF notional
  <2> QED BY <2>1 DEF Order
<1> HIDE DEF order
<1>4. /\ buys'[b].at = "posted" /\ buys'[b].order = order
      /\ \A c \in Buys : c # b => buys'[c] = buys[c]
  BY <1>0, <1>1
<1>5. Stay
  <2>1. [at |-> "posted", order |-> order] \in Buy
    BY <1>3 DEF Buy
  <2> QED BY <1>0, <1>1, <1>4, <2>1 DEF Stay
<1>6. holdings' \in [Tokens -> Holding \union {None}]
  <2>1. holdings[t] \in Holding \union {None}
    BY <1>0
  <2>2. had \in Nat
    BY <2>1 DEF Holding
  <2> HIDE DEF had
  <2>3. [quantity |-> had + fill, status |-> "OPEN"] \in Holding
    BY <1>2, <2>2 DEF Holding
  <2> HIDE DEF t
  <2> QED BY <1>0, <1>1, <2>1, <2>3
<1>7. Ordered(b)'
  BY <1>3, <1>4 DEF Ordered, AmountOf
<1>8. \A c \in Buys : buys'[c].at # "idle" => Ordered(c)'
  BY <1>1, <1>4, <1>5, <1>7, OrdersStay
<1>9. HandedOfBuys' /\ OfBuys(journal)' /\ OfBuys(local)'
  BY <1>1, <1>5, OrdersStay
<1>10. ~history'.overlapped => \A c \in Buys : buys'[c].at = "stored" =>
          J!Holds(journal', Token[c]) /\ (view.at = "remote" => J!Holds(local, Token[c]))
  BY <1>1, <1>4 DEF PositionsInv, StoredAreThere
<1> HIDE DEF had, t
<1> QED BY <1>0, <1>1, <1>5, <1>6, <1>8, <1>9, <1>10, MeanwhileKeepsInv DEF Stay

LEMMA StoreKeepsInv == ASSUME PositionsInv, NEW b \in Buys, Store(b) PROVE PositionsInv'
<1>1. /\ Meanwhile /\ buys[b].at = "posted" /\ UNCHANGED <<local, holdings>>
      /\ buys' = [buys EXCEPT ![b].at = "storing"]
  BY DEF Store, Meanwhile
<1>2. /\ history \in J!Histories /\ history'.handed = history.handed \union {Position(b)}
      /\ history' = [handed |-> history'.handed, overlapped |-> history'.overlapped]
      /\ history'.overlapped \in BOOLEAN /\ (~history'.overlapped => ~history.overlapped)
      /\ journal' = IF history'.overlapped THEN << >> ELSE journal
  BY DEF Store, J!Enter, J!Handed, PositionsInv, PositionsTypeOK, J!Histories
<1>3. /\ Stay /\ buys'[b].at = "storing" /\ \A c \in Buys : c # b => buys'[c] = buys[c]
      /\ \A c \in Buys : buys'[c].at # "idle" => buys[c].at # "idle"
      /\ Position(b) \in J!LocalPosition /\ Position(b).id = Token[b]
      /\ Position(b).order = buys[b].order
  BY <1>1, OnlyOnward
<1>4. history' \in J!Histories
  BY <1>2, <1>3 DEF J!Histories
<1>5. OfBuys(journal)' /\ OfBuys(local)' /\ \A c \in Buys : buys'[c].at # "idle" => Ordered(c)'
  BY <1>1, <1>2, <1>3, OrdersStay
<1>6. HandedOfBuys'
  <2>1. buys'[b].at # "idle" /\ buys'[b].order = Position(b).order
    BY <1>1, <1>3 DEF Stay
  <2> QED BY <1>2, <1>3, <2>1 DEF PositionsInv, HandedOfBuys, Stay
<1>7. ~history'.overlapped => \A c \in Buys : buys'[c].at = "stored" =>
          J!Holds(journal', Token[c]) /\ (view.at = "remote" => J!Holds(local, Token[c]))
  BY <1>2, <1>3 DEF PositionsInv, StoredAreThere
<1>8. holdings' \in [Tokens -> Holding \union {None}]
  BY <1>1 DEF PositionsInv, PositionsTypeOK
<1> QED BY <1>1, <1>3, <1>4, <1>5, <1>6, <1>7, <1>8, MeanwhileKeepsInv DEF Stay

LEMMA StoredKeepsInv == ASSUME PositionsInv, NEW b \in Buys, Stored(b) PROVE PositionsInv'
<1> DEFINE at == IF view.at = "idle" THEN "stored" ELSE "stored late"
<1>1. /\ Meanwhile /\ buys[b].at = "storing" /\ UNCHANGED <<local, holdings, history>>
      /\ buys' = [buys EXCEPT ![b].at = at]
  BY DEF Stored, Meanwhile, J!Finish
<1>2. IF history.overlapped THEN journal' = journal ELSE journal' = J!Upserted(journal, Position(b))
  BY <1>1 DEF Stored, J!Finish, J!Stored
<1>3. /\ Stay /\ buys'[b].at = at /\ \A c \in Buys : c # b => buys'[c] = buys[c]
      /\ \A c \in Buys : buys'[c].at # "idle" => buys[c].at # "idle"
      /\ Position(b) \in J!LocalPosition /\ Position(b).id = Token[b]
      /\ Position(b).order = buys[b].order
  BY <1>1, OnlyOnward
<1>4. /\ OfBuys(local)' /\ HandedOfBuys' /\ \A c \in Buys : buys'[c].at # "idle" => Ordered(c)'
      /\ history.overlapped => OfBuys(journal)'
  BY <1>1, <1>2, <1>3, OrdersStay
<1>5. ASSUME ~history.overlapped
      PROVE  /\ journal' \in J!Journals
             /\ \A i \in DOMAIN journal' :
                   journal'[i] = Position(b) \/ \E j \in DOMAIN journal : journal'[i] = journal[j]
             /\ \A id : J!Holds(journal, id) \/ id = Position(b).id => J!Holds(journal', id)
             /\ \A m, n \in DOMAIN journal' : journal'[m].id = journal'[n].id => m = n
  <2>1. journal \in J!Journals /\ \A m, n \in DOMAIN journal : journal[m].id = journal[n].id => m = n
    BY DEF PositionsInv, OfBuys
  <2>2. LET upserted == J!Upserted(journal, Position(b)) IN
        /\ upserted \in J!Journals
        /\ \A i \in DOMAIN upserted :
              upserted[i] = Position(b) \/ \E j \in DOMAIN journal : upserted[i] = journal[j]
        /\ \A id : J!Holds(journal, id) \/ id = Position(b).id => J!Holds(upserted, id)
        /\ \A m, n \in DOMAIN upserted : upserted[m].id = upserted[n].id => m = n
    BY <1>3, <2>1, UpsertedStores
  <2> QED BY <1>2, <1>5, <2>2
<1>6. OfBuys(journal)'
  <2>1. ASSUME ~history.overlapped PROVE OfBuys(journal)'
    <3>1. \A j \in DOMAIN journal : \E c \in Buys :
             Token[c] = journal[j].id /\ buys'[c].at # "idle" /\ buys'[c].order = journal[j].order
      <4> TAKE j \in DOMAIN journal
      <4>1. PICK c \in Buys : Token[c] = journal[j].id /\ buys[c].at # "idle" /\ buys[c].order = journal[j].order
        BY DEF PositionsInv, OfBuys
      <4>2. buys'[c].at # "idle" /\ buys'[c].order = journal[j].order
        BY <1>3, <4>1 DEF Stay
      <4> QED BY <4>1, <4>2
    <3>2. Position(b).id = Token[b] /\ buys'[b].at # "idle" /\ buys'[b].order = Position(b).order
      BY <1>1, <1>3 DEF Stay
    <3> HIDE DEF at
    <3> QED BY <1>5, <2>1, <3>1, <3>2 DEF OfBuys
  <2> QED BY <1>4, <2>1
<1>7. ASSUME ~history.overlapped, NEW c \in Buys, buys'[c].at = "stored"
      PROVE  J!Holds(journal', Token[c]) /\ (view.at = "remote" => J!Holds(local, Token[c]))
  <2>1. CASE c = b
    <3>1. view.at # "remote"
      BY <1>3, <1>7, <2>1
    <3> QED BY <1>3, <1>5, <1>7, <2>1, <3>1
  <2>2. CASE c # b
    <3>1. J!Holds(journal, Token[c]) /\ (view.at = "remote" => J!Holds(local, Token[c]))
      BY <1>3, <1>7, <2>2 DEF PositionsInv, StoredAreThere
    <3> QED BY <1>5, <1>7, <3>1
  <2> QED BY <2>1, <2>2
<1>8. holdings' \in [Tokens -> Holding \union {None}] /\ history' \in J!Histories
  BY <1>1 DEF PositionsInv, PositionsTypeOK
<1> HIDE DEF at
<1> QED BY <1>1, <1>3, <1>4, <1>6, <1>7, <1>8, MeanwhileKeepsInv DEF Stay

\* A buy that stores nothing any more.
LEMMA LostKeepsInv ==
    ASSUME PositionsInv, NEW b \in Buys, StoreFails(b) \/ Lose(b) PROVE PositionsInv'
<1>1. /\ Meanwhile /\ buys[b].at \in {"posted", "storing"}
      /\ UNCHANGED <<journal, history, local, holdings>>
      /\ buys' = [buys EXCEPT ![b].at = "dead"]
  BY DEF StoreFails, Lose, Meanwhile, J!Fail, J!Die
<1>2. /\ Stay /\ buys'[b].at = "dead" /\ \A c \in Buys : c # b => buys'[c] = buys[c]
      /\ \A c \in Buys : buys'[c].at # "idle" => buys[c].at # "idle"
  BY <1>1, OnlyOnward
<1>3. /\ HandedOfBuys' /\ OfBuys(journal)' /\ OfBuys(local)'
      /\ \A c \in Buys : buys'[c].at # "idle" => Ordered(c)'
  BY <1>1, <1>2, OrdersStay
<1>4. ~history'.overlapped => \A c \in Buys : buys'[c].at = "stored" =>
          J!Holds(journal', Token[c]) /\ (view.at = "remote" => J!Holds(local, Token[c]))
  BY <1>1, <1>2 DEF PositionsInv, StoredAreThere
<1>5. holdings' \in [Tokens -> Holding \union {None}] /\ history' \in J!Histories
  BY <1>1 DEF PositionsInv, PositionsTypeOK
<1> QED BY <1>1, <1>2, <1>3, <1>4, <1>5, MeanwhileKeepsInv DEF Stay

LEMMA TradedKeepsInv ==
    ASSUME PositionsInv, NEW t \in Tokens, TradedElsewhere(t) PROVE PositionsInv'
<1>1. PICK left \in Elsewhere : holdings' = [holdings EXCEPT ![t] = left]
  BY DEF TradedElsewhere
<1>2. Meanwhile /\ UNCHANGED <<buys, journal, history, local>>
  BY DEF TradedElsewhere, Meanwhile
<1>3. holdings' \in [Tokens -> Holding \union {None}]
  <2>1. left \in Holding \union {None}
    BY PositionsAssumption DEF Holding
  <2> QED BY <1>1, <2>1 DEF PositionsInv, PositionsTypeOK
<1>4. Stay /\ history' \in J!Histories
  BY <1>2 DEF Stay, PositionsInv, PositionsTypeOK
<1>5. /\ HandedOfBuys' /\ OfBuys(journal)' /\ OfBuys(local)'
      /\ \A c \in Buys : buys'[c].at # "idle" => Ordered(c)'
  BY <1>2, <1>4, OrdersStay
<1>6. ~history'.overlapped => \A c \in Buys : buys'[c].at = "stored" =>
          J!Holds(journal', Token[c]) /\ (view.at = "remote" => J!Holds(local, Token[c]))
  BY <1>2 DEF PositionsInv, StoredAreThere
<1> QED BY <1>2, <1>3, <1>4, <1>5, <1>6, MeanwhileKeepsInv DEF Stay

LEMMA BuysKeepInv == ASSUME PositionsInv, OtherBuys PROVE PositionsInv'
BY PostKeepsInv, StoreKeepsInv, StoredKeepsInv, LostKeepsInv, TradedKeepsInv DEF OtherBuys

\* Whatever is found in the journal is of buys, each once.
LEMMA ReadableOfBuys ==
    ASSUME PositionsInv, NEW readable \in J!Readable
    PROVE  /\ readable \in J!Journals
           /\ \A i \in DOMAIN readable : \E b \in Buys :
                 Token[b] = readable[i].id /\ buys[b].at # "idle" /\ buys[b].order = readable[i].order
           /\ \A m, n \in DOMAIN readable : readable[m].id = readable[n].id => m = n
<1>1. CASE history.overlapped
  <2>1. PICK n \in 0..J!Cardinality(history.handed) : readable \in [1..n -> history.handed]
    BY <1>1 DEF J!Readable, J!Remnants
  <2>2. n \in Nat
    BY <2>1
  <2>3. \A i \in DOMAIN readable : readable[i] \in J!LocalPosition /\ readable[i] \in history.handed
    BY <2>1 DEF PositionsInv, HandedOfBuys
  <2>4. readable \in [1..n -> J!LocalPosition]
    BY <2>1, <2>3
  <2>5. readable \in Seq(J!LocalPosition)
    BY <2>2, <2>4
  <2>6. \A k, m \in DOMAIN readable : readable[k].id = readable[m].id => k = m
    BY <1>1 DEF J!Readable, J!Remnants
  <2> QED BY <2>3, <2>5, <2>6 DEF PositionsInv, HandedOfBuys, J!Journals
<1>2. CASE ~history.overlapped
  BY <1>2 DEF J!Readable, PositionsInv, OfBuys
<1> QED BY <1>1, <1>2

LEMMA StartViewKeepsInv ==
    ASSUME PositionsInv, NEW k \in {"list", "all", "show"}, StartView(k) PROVE PositionsInv'
<1>0. /\ view.at = "idle" /\ remote = << >> /\ shown = << >> /\ None \notin Results
      /\ UNCHANGED <<holdings, buys, journal, history, remote, shown>>
  BY MarketsAssumption DEF StartView, PositionsInv
<1>1. HandedOfBuys' /\ OfBuys(journal)' /\ AsHeld' /\ \A b \in Buys : Ordered(b)' <=> Ordered(b)
  BY <1>0 DEF PositionsInv, HandedOfBuys, OfBuys, AsHeld, Ordered, AmountOf
<1>2. RowsShown'
  <2>1. DOMAIN shown' = {}
    BY <1>0
  <2>2. [n \in {} |-> 0] \in [{} -> 1..RowCount']
    OBVIOUS
  <2> QED BY <2>1, <2>2 DEF RowsShown
<1>3. CASE view' = [kind |-> k, at |-> "done", result |-> "failed"] /\ UNCHANGED <<local, signed>>
  <2>1. PositionsTypeOK'
    BY <1>0, <1>3 DEF PositionsInv, PositionsTypeOK, Results
  <2>2. OfBuys(local)'
    BY <1>0, <1>3 DEF PositionsInv, OfBuys
  <2>3. StoredAreListed' /\ view'.at = "done" /\ view'.kind = k
    BY <1>3 DEF StoredAreListed, Returned
  <2>4. StoredAreThere'
    BY <1>0, <2>3 DEF PositionsInv, StoredAreThere
  <2> QED BY <1>0, <1>1, <1>2, <2>1, <2>2, <2>3, <2>4 DEF PositionsInv
<1>4. CASE /\ view' = [kind |-> k, at |-> "remote", result |-> None]
           /\ local' \in Snapshot /\ signed' \in BOOLEAN
  <2>1. /\ local' \in J!Readable /\ local' \in J!Journals
        /\ ~history.overlapped => local' = journal
    BY <1>4, ReadableOfBuys DEF Snapshot, J!Readable
  <2>2. PositionsTypeOK'
    BY <1>0, <1>4, <2>1 DEF PositionsInv, PositionsTypeOK
  <2>3. OfBuys(local)'
    BY <1>0, <2>1, ReadableOfBuys DEF OfBuys
  <2>4. StoredAreListed' /\ view'.at = "remote" /\ view'.result = None /\ view'.kind = k
    BY <1>0, <1>4 DEF StoredAreListed, Returned, Results
  <2>5. StoredAreThere'
    BY <1>0, <2>1 DEF PositionsInv, StoredAreThere
  <2> QED BY <1>0, <1>1, <1>2, <2>2, <2>3, <2>4, <2>5 DEF PositionsInv
<1> QED BY <1>3, <1>4 DEF StartView

\* What is read and shown once the listing is under way changes nothing of what
\* it is about.
LEMMA ViewKeepsInv ==
    ASSUME PositionsInv, Unaffected, UNCHANGED local, view.at # "idle",
           remote' \in Seq(Remote), shown' \in Seq(PositionView), AsHeld',
           view' \in [kind: {"list", "all", "show"} \union {None},
                      at: {"merge", "done"}, result: Results \union {None}],
           view'.kind = view.kind, view.at = "done" => view'.at = "done",
           view'.at = "merge" => /\ view'.result = None
                                 /\ Len(shown') <= RowCount' /\ \A n \in DOMAIN shown' : IsRow(n, shown[n])',
           RowsShown', StoredAreListed'
    PROVE  PositionsInv'
<1>1. UNCHANGED <<holdings, buys, journal, history, signed, local>>
  BY DEF Unaffected
<1>2. PositionsTypeOK'
  BY <1>1 DEF PositionsInv, PositionsTypeOK
<1>3. /\ HandedOfBuys' /\ OfBuys(journal)' /\ OfBuys(local)'
      /\ \A b \in Buys : Ordered(b)' <=> Ordered(b)
  BY <1>1 DEF PositionsInv, HandedOfBuys, OfBuys, Ordered, AmountOf
<1>4. StoredAreThere'
  <2>1. view'.at = "merge" => view.at \in {"remote", "merge"}
    BY DEF PositionsInv, PositionsTypeOK
  <2> QED BY <1>1, <2>1 DEF PositionsInv, StoredAreThere
<1>5. view'.at \notin {"idle", "remote"} /\ view'.kind \in {"list", "all", "show"}
  BY DEF PositionsInv
<1> QED BY <1>1, <1>2, <1>3, <1>4, <1>5 DEF PositionsInv

LEMMA ReadRemoteKeepsInv == ASSUME PositionsInv, ReadRemote PROVE PositionsInv'
<1>1. /\ view.at = "remote" /\ shown' = << >> /\ Unaffected /\ UNCHANGED local
      /\ view' = [view EXCEPT !.at = "merge"] /\ view.result = None
      /\ remote' \in Answers \/ remote' = << >>
      /\ UNCHANGED <<holdings, local>>
  BY DEF ReadRemote, PositionsInv, Unaffected
<1>2. remote' \in Seq(Remote) /\ AsHeld'
  <2>1. CASE remote' \in Answers
    BY <1>1, <2>1, AnswersAreHeld DEF PositionsInv, AsHeld
  <2>2. CASE remote' = << >>
    BY <1>1, <2>2 DEF AsHeld
  <2> QED BY <1>1, <2>1, <2>2
<1>3. /\ view' \in [kind: {"list", "all", "show"} \union {None},
                    at: {"merge", "done"}, result: Results \union {None}]
      /\ view'.at = "merge" /\ view'.result = None /\ view'.kind = view.kind
  BY <1>1 DEF PositionsInv, PositionsTypeOK
<1>4. shown' \in Seq(PositionView) /\ Len(shown') = 0 /\ DOMAIN shown' = {}
  BY <1>1
<1>5. RowCount' \in Nat
  <2>1. Len(local') \in Nat
    BY <1>1 DEF PositionsInv, PositionsTypeOK, J!Journals
  <2> DEFINE places == {i \in DOMAIN remote' : NotTracked(remote[i])'}
             rows == Picked(remote', Ascending(places))
  <2>2. places \in SUBSET (DOMAIN remote')
    OBVIOUS
  <2>3. rows \in Seq(Remote)
    <3> HIDE DEF places
    <3> QED BY <1>2, <2>2, PickedLists
  <2>4. NewRows' = rows
    BY DEF NewRows
  <2> HIDE DEF rows
  <2>5. Len(NewRows') \in Nat
    BY <2>3, <2>4
  <2> HIDE DEF NewRows
  <2> QED BY <2>1, <2>5 DEF RowCount
<1>6. RowsShown'
  <2>1. [n \in {} |-> 0] \in [{} -> 1..RowCount']
    OBVIOUS
  <2> QED BY <1>4, <2>1 DEF RowsShown
<1>7. StoredAreListed'
  BY <1>3, MarketsAssumption DEF StoredAreListed, Returned, Results
<1> QED BY <1>1, <1>2, <1>3, <1>4, <1>5, <1>6, <1>7, ViewKeepsInv

\* The number of a row is that of its place while the rows are made.
LEMMA MergeKeepsInv == ASSUME PositionsInv, Merge PROVE PositionsInv'
<1> DEFINE n == Len(shown) + 1
<1>0. /\ view.at = "merge" /\ view' = view /\ Unaffected /\ UNCHANGED <<local, remote, holdings>>
      /\ remote \in Seq(Remote) /\ shown \in Seq(PositionView) /\ local \in J!Journals /\ AsHeld
      /\ Len(shown) # RowCount /\ Len(shown) <= RowCount /\ view.result = None
      /\ \A i \in DOMAIN shown : IsRow(i, shown[i])
  BY DEF Merge, AllMerged, RowCount, PositionsInv, PositionsTypeOK, Unaffected
<1>1. /\ RowCount \in Nat /\ Len(local) \in Nat /\ DOMAIN local = 1..Len(local)
      /\ \A i \in DOMAIN local : local[i] \in J!LocalPosition
      /\ DOMAIN NewRows = 1..Len(NewRows) /\ Len(NewRows) \in Nat /\ NewRows \in Seq(Remote)
      /\ \A i \in DOMAIN NewRows : NewRows[i] \in Remote
      /\ RowCount = Len(local) + Len(NewRows)
      /\ DOMAIN shown = 1..Len(shown) /\ Len(shown) \in Nat
  BY <1>0, RowCountType, NewRowsAreNew DEF J!Journals, RowCount
<1>2. n \in 1..RowCount
  <2>1. RowCount \in Nat /\ Len(shown) \in Nat /\ Len(shown) # RowCount /\ Len(shown) <= RowCount
    BY <1>0, <1>1
  <2> QED BY <2>1
<1>3. PICK row \in PositionView : shown' = Append(shown, row) /\ IsRow(n, row)
  <2>1. CASE n <= Len(local)
    <3>1. PICK mark \in MarksOf(local[n].id) : shown' = Append(shown, Tracked(local[n], mark))
      BY <2>1 DEF Merge
    <3>2. local[n] \in J!LocalPosition /\ local[n].id \in Tokens
      <4>1. local[n] \in J!LocalPosition
        BY <1>1, <1>2, <2>1
      <4> QED BY <4>1 DEF J!LocalPosition
    <3>3. mark \in Price
      BY <3>2, PositionMarks
    <3>4. Tracked(local[n], mark) \in PositionView /\ Tracked(local[n], mark).mark = mark
      BY <1>0, <3>2, <3>3, TrackedRow
    <3> QED BY <2>1, <3>1, <3>4 DEF IsRow
  <2>2. CASE ~(n <= Len(local))
    <3> DEFINE r == NewRows[n - Len(local)]
    <3>1. PICK mark \in MarksOf(r.of) : shown' = Append(shown, External(r, mark))
      BY <2>2 DEF Merge
    <3>2. r \in Remote
      <4>1. n - Len(local) \in DOMAIN NewRows
        BY <1>1, <1>2, <2>2
      <4> QED BY <1>1, <4>1
    <3>3. mark \in Price
      <4>1. r.of \in Tokens
        BY <3>2 DEF Remote
      <4> QED BY <4>1, PositionMarks
    <3>4. External(r, mark) \in PositionView /\ External(r, mark).mark = mark
      BY <3>2, <3>3, ExternalRow
    <3> QED BY <2>2, <3>1, <3>4 DEF IsRow
  <2> QED BY <2>1, <2>2
<1>4. /\ shown' \in Seq(PositionView) /\ Len(shown') = n /\ DOMAIN shown' = 1..n
      /\ shown'[n] = row /\ \A i \in 1..Len(shown) : shown'[i] = shown[i]
  <2>1. /\ shown' \in Seq(PositionView) /\ Len(shown') = n
        /\ shown'[n] = row /\ \A i \in 1..Len(shown) : shown'[i] = shown[i]
    BY <1>0, <1>3, AppendProperties
  <2> QED BY <2>1
<1>5. \A i \in 1..n : i = n \/ i \in 1..Len(shown)
  BY <1>1
<1>6. RowCount' = RowCount /\ \A m, x : IsRow(m, x)' <=> IsRow(m, x)
  BY <1>0, SameRows
<1> HIDE DEF n
<1>7. \A i \in DOMAIN shown' : IsRow(i, shown'[i])
  BY <1>0, <1>1, <1>3, <1>4, <1>5
<1>8. \A i \in DOMAIN shown' : IsRow(i, shown[i])'
  BY <1>6, <1>7
<1>9. Len(shown') <= RowCount' /\ RowCount' \in Nat
  BY <1>1, <1>2, <1>4, <1>6
<1>10. RowsShown'
  <2> DEFINE place == [i \in DOMAIN shown' |-> i]
  <2>1. Len(shown') \in Nat /\ DOMAIN shown' = 1..Len(shown')
    BY <1>4
  <2>2. \A i \in DOMAIN shown' : i \in 1..RowCount'
    BY <1>9, <2>1
  <2>3. place \in [DOMAIN shown' -> 1..RowCount']
    BY <2>2
  <2>4. \A i \in DOMAIN shown' : place[i] = i
    OBVIOUS
  <2> HIDE DEF place
  <2> QED BY <1>8, <2>3, <2>4 DEF RowsShown
<1>11. AsHeld' /\ remote' \in Seq(Remote)
  BY <1>0 DEF AsHeld
<1>12. StoredAreListed'
  BY <1>0, MarketsAssumption DEF StoredAreListed, Returned, Results
<1>13. view' \in [kind: {"list", "all", "show"} \union {None},
                  at: {"merge", "done"}, result: Results \union {None}]
  BY <1>0 DEF PositionsInv, PositionsTypeOK
<1> QED BY <1>0, <1>4, <1>8, <1>9, <1>10, <1>11, <1>12, <1>13, ViewKeepsInv

\* What is shown are some of the rows that were made, each once.
LEMMA SomeRowsShown ==
    ASSUME UNCHANGED <<local, remote>>, RowsShown, NEW place,
           place \in [DOMAIN shown' -> DOMAIN shown],
           \A n \in DOMAIN shown' : shown'[n] = shown[place[n]],
           \A m, n \in DOMAIN shown' : place[m] = place[n] => m = n
    PROVE  RowsShown'
<1>1. PICK at \in [DOMAIN shown -> 1..RowCount] :
         /\ \A n \in DOMAIN shown : IsRow(at[n], shown[n])
         /\ \A m, n \in DOMAIN shown : at[m] = at[n] => m = n
  BY DEF RowsShown
<1>2. RowCount' = RowCount /\ \A m, row : IsRow(m, row)' <=> IsRow(m, row)
  BY SameRows
<1>3. PICK now : now = [n \in DOMAIN shown' |-> at[place[n]]]
  OBVIOUS
<1>4. /\ now \in [DOMAIN shown' -> 1..RowCount']
      /\ \A n \in DOMAIN shown' : now[n] = at[place[n]] /\ place[n] \in DOMAIN shown
  BY <1>1, <1>2, <1>3
<1>5. \A n \in DOMAIN shown' : IsRow(now[n], shown'[n])
  BY <1>1, <1>4
<1>6. \A n \in DOMAIN shown' : IsRow(now[n], shown[n])'
  BY <1>2, <1>5
<1>7. \A m, n \in DOMAIN shown' : now[m] = now[n] => m = n
  BY <1>1, <1>4
<1> QED BY <1>4, <1>6, <1>7 DEF RowsShown

\* When all rows are made, a buy that was stored before has one, and it is open
\* unless the exchange says otherwise.
LEMMA StoredHasARow ==
    ASSUME PositionsInv, view.at = "merge", AllMerged, ~history.overlapped,
           NEW b \in Buys, buys[b].at = "stored"
    PROVE  \E n \in DOMAIN shown :
              /\ shown[n].token = Token[b] /\ shown[n].source = "tracked"
              /\ \/ shown[n].status = "OPEN"
                 \/ holdings[Token[b]] # None /\ holdings[Token[b]].status = "CLOSED"
<1>0. /\ remote \in Seq(Remote) /\ shown \in Seq(PositionView) /\ local \in J!Journals /\ AsHeld
      /\ Len(shown) = RowCount /\ \A i \in DOMAIN shown : IsRow(i, shown[i])
      /\ J!Holds(local, Token[b])
  BY DEF AllMerged, RowCount, PositionsInv, PositionsTypeOK, StoredAreThere
<1>1. PICK n \in DOMAIN local : local[n].id = Token[b]
  BY <1>0 DEF J!Holds
<1>2. /\ DOMAIN local = 1..Len(local) /\ Len(local) \in Nat /\ local[n] \in J!LocalPosition
      /\ DOMAIN shown = 1..Len(shown) /\ Len(shown) \in Nat
  BY <1>0, <1>1 DEF J!Journals
<1>3. Len(NewRows) \in Nat
  BY <1>0, NewRowsAreNew
<1>4. n \in DOMAIN shown /\ n <= Len(local)
  BY <1>0, <1>1, <1>2, <1>3 DEF RowCount
<1>5. shown[n] = Tracked(local[n], shown[n].mark)
  BY <1>0, <1>4 DEF IsRow
<1>6. shown[n] \in PositionView
  BY <1>0, <1>4
<1>7. shown[n].mark \in Price /\ shown[n].status \in {"OPEN", "CLOSED"}
  BY <1>6 DEF PositionView
<1>8. /\ shown[n].token = Token[b] /\ shown[n].source = "tracked"
      /\ shown[n].status = "OPEN" \/ \E i \in DOMAIN remote :
            remote[i].of = Token[b] /\ shown[n].status = remote[i].status
  BY <1>0, <1>1, <1>2, <1>5, <1>7, TrackedRow
<1>9. ASSUME NEW i \in DOMAIN remote, remote[i].of = Token[b], shown[n].status = remote[i].status,
             shown[n].status # "OPEN"
      PROVE  holdings[Token[b]] # None /\ holdings[Token[b]].status = "CLOSED"
  <2>1. /\ holdings[Token[b]] # None
        /\ holdings[Token[b]] = [quantity |-> remote[i].quantity, status |-> remote[i].status]
    BY <1>0, <1>9 DEF AsHeld
  <2> QED BY <1>7, <1>9, <2>1
<1> QED BY <1>4, <1>8, <1>9

LEMMA PresentKeepsInv == ASSUME PositionsInv, Present PROVE PositionsInv'
<1>0. /\ view.at = "merge" /\ AllMerged /\ Unaffected
      /\ UNCHANGED <<local, remote, holdings, buys, history>>
      /\ remote \in Seq(Remote) /\ shown \in Seq(PositionView) /\ AsHeld /\ RowsShown
  BY DEF Present, PositionsInv, PositionsTypeOK, Unaffected
<1>1. /\ DOMAIN shown = 1..Len(shown) /\ Len(shown) \in Nat
      /\ \A n \in DOMAIN shown : shown[n] \in PositionView
  BY <1>0
<1>2. remote' \in Seq(Remote) /\ AsHeld'
  BY <1>0 DEF AsHeld
<1>3. ASSUME shown' \in Seq(PositionView), RowsShown', StoredAreListed',
             \E r \in Results : view' = [view EXCEPT !.at = "done", !.result = r]
      PROVE  PositionsInv'
  <2>1. /\ view' \in [kind: {"list", "all", "show"} \union {None},
                      at: {"merge", "done"}, result: Results \union {None}]
        /\ view'.at = "done" /\ view'.kind = view.kind
    BY <1>3 DEF PositionsInv, PositionsTypeOK
  <2> QED BY <1>0, <1>2, <1>3, <2>1, ViewKeepsInv
<1>4. view.kind \in {"list", "all", "show"} /\ {"returned", "failed"} \subseteq Results
  BY <1>0 DEF PositionsInv, Results
<1>5. CASE view.kind = "all"
  <2>1. shown' = shown /\ view' = [view EXCEPT !.at = "done", !.result = "returned"]
    BY <1>5 DEF Present
  <2>2. RowsShown'
    <3>1. PICK place : place = [n \in DOMAIN shown |-> n]
      OBVIOUS
    <3>2. /\ place \in [DOMAIN shown' -> DOMAIN shown]
          /\ \A n \in DOMAIN shown' : place[n] = n /\ shown'[n] = shown[n]
      BY <2>1, <3>1
    <3> QED BY <1>0, <3>2, SomeRowsShown
  <2>3. StoredAreListed'
    BY <1>0, <2>1, StoredHasARow DEF StoredAreListed
  <2> QED BY <1>0, <1>3, <1>4, <2>1, <2>2, <2>3
<1>6. CASE view.kind = "list"
  <2> DEFINE kept == {n \in DOMAIN shown : shown[n].source # "external" /\ shown[n].status = "OPEN"}
             at == Ascending(kept)
             rows == Picked(shown, at)
  <2>1. shown' = rows /\ view' = [view EXCEPT !.at = "done", !.result = "returned"]
    BY <1>4, <1>6 DEF Present
  <2>2. kept \in SUBSET (DOMAIN shown)
    OBVIOUS
  <2>3. /\ rows \in Seq(PositionView) /\ DOMAIN rows = 1..Cardinality(kept)
        /\ \A n \in DOMAIN rows : at[n] \in kept /\ rows[n] = shown[at[n]]
    <3> HIDE DEF kept
    <3> QED BY <1>0, <2>2, PickedLists
  <2>4. /\ \A m, n \in DOMAIN rows : m < n => at[m] < at[n]
        /\ \A i \in kept : \E n \in DOMAIN rows : at[n] = i
    <3> HIDE DEF kept
    <3> QED BY <1>0, <2>2, PickedLists
  <2>5. view'.kind = "list" /\ view.kind = "list"
    BY <1>6, <2>1 DEF PositionsInv, PositionsTypeOK
  <2> HIDE DEF at, rows
  <2>6. RowsShown'
    <3>1. PICK place : place = [n \in DOMAIN rows |-> at[n]]
      OBVIOUS
    <3>2. /\ place \in [DOMAIN shown' -> DOMAIN shown]
          /\ \A n \in DOMAIN shown' : place[n] = at[n] /\ shown'[n] = shown[place[n]]
      BY <2>1, <2>2, <2>3, <3>1
    <3>3. ASSUME NEW m \in DOMAIN rows, NEW n \in DOMAIN rows, at[m] = at[n] PROVE m = n
      <4>1. at[m] \in Nat
        BY <1>1, <2>2, <2>3
      <4>2. ~(m < n) /\ ~(n < m)
        BY <2>4, <3>3, <4>1
      <4>3. m \in Int /\ n \in Int
        BY <2>3
      <4> QED BY <4>2, <4>3
    <3>4. \A m, n \in DOMAIN shown' : place[m] = place[n] => m = n
      BY <2>1, <3>2, <3>3
    <3>5. \A n \in DOMAIN shown' : shown'[n] = shown[place[n]]
      BY <3>2
    <3>6. UNCHANGED <<local, remote>> /\ RowsShown
      BY <1>0
    <3> QED BY <3>2, <3>4, <3>5, <3>6, SomeRowsShown
  <2>7. StoredAreListed'
    <3> SUFFICES ASSUME ~history.overlapped, NEW b \in Buys, buys[b].at = "stored"
                 PROVE  \/ \E n \in DOMAIN rows : rows[n].token = Token[b] /\ rows[n].source = "tracked"
                        \/ holdings[Token[b]] # None /\ holdings[Token[b]].status = "CLOSED"
      BY <1>0, <2>1, <2>5 DEF StoredAreListed
    <3>1. PICK i \in DOMAIN shown :
              /\ shown[i].token = Token[b] /\ shown[i].source = "tracked"
              /\ \/ shown[i].status = "OPEN"
                 \/ holdings[Token[b]] # None /\ holdings[Token[b]].status = "CLOSED"
      BY <1>0, StoredHasARow
    <3>2. CASE shown[i].status = "OPEN"
      <4>1. i \in kept
        BY <3>1, <3>2
      <4>2. PICK n \in DOMAIN rows : at[n] = i
        BY <2>4, <4>1
      <4> QED BY <2>3, <3>1, <4>2
    <3> QED BY <3>1, <3>2
  <2> QED BY <1>0, <1>3, <1>4, <2>1, <2>3, <2>6, <2>7
<1>7. CASE view.kind = "show"
  <2>1. PICK rows \in {<<shown[i]>> : i \in DOMAIN shown} \union {<< >>} :
            /\ shown' = rows
            /\ view' = [view EXCEPT !.at = "done",
                                    !.result = IF rows = << >> THEN "failed" ELSE "returned"]
    BY <1>4, <1>7 DEF Present
  <2>2. view'.kind = "show"
    BY <1>7, <2>1 DEF PositionsInv, PositionsTypeOK
  <2>3. StoredAreListed'
    BY <2>2 DEF StoredAreListed
  <2>4. \E r \in Results : view' = [view EXCEPT !.at = "done", !.result = r]
    BY <1>4, <2>1
  <2>5. CASE rows = << >>
    <3>1. DOMAIN shown' = {} /\ shown' \in Seq(PositionView)
      BY <2>1, <2>5
    <3>2. PICK place : place = [n \in DOMAIN shown' |-> 0]
      OBVIOUS
    <3>3. place \in [DOMAIN shown' -> DOMAIN shown]
      BY <3>1, <3>2
    <3>4. RowsShown'
      BY <1>0, <3>1, <3>3, SomeRowsShown
    <3> QED BY <1>3, <2>3, <2>4, <3>1, <3>4
  <2>6. CASE rows # << >>
    <3>1. PICK i \in DOMAIN shown : rows = <<shown[i]>>
      BY <2>1, <2>6
    <3>2. /\ shown' = <<shown[i]>> /\ shown[i] \in PositionView
      BY <1>1, <2>1, <3>1
    <3>3. DOMAIN shown' = {1} /\ shown'[1] = shown[i] /\ shown' \in Seq(PositionView)
      BY <3>2
    <3>4. PICK place : place = [n \in DOMAIN shown' |-> i]
      OBVIOUS
    <3>5. /\ place \in [DOMAIN shown' -> DOMAIN shown]
          /\ \A n \in DOMAIN shown' : shown'[n] = shown[place[n]]
          /\ \A m, n \in DOMAIN shown' : place[m] = place[n] => m = n
      BY <3>3, <3>4
    <3>6. RowsShown'
      BY <1>0, <3>5, SomeRowsShown
    <3> QED BY <1>3, <2>3, <2>4, <3>3, <3>6
  <2> QED BY <2>5, <2>6
<1> QED BY <1>4, <1>5, <1>6, <1>7

LEMMA ViewFailsKeepsInv == ASSUME PositionsInv, ViewFails PROVE PositionsInv'
<1>0. /\ view.at # "idle" /\ Unaffected /\ UNCHANGED <<local, remote, shown, holdings>>
      /\ view' = [view EXCEPT !.at = "done", !.result = "raised"]
      /\ remote \in Seq(Remote) /\ shown \in Seq(PositionView) /\ AsHeld /\ RowsShown
  BY DEF ViewFails, PositionsInv, PositionsTypeOK, Unaffected
<1>1. /\ view' \in [kind: {"list", "all", "show"} \union {None},
                    at: {"merge", "done"}, result: Results \union {None}]
      /\ view'.at = "done" /\ view'.kind = view.kind /\ view'.result = "raised"
  BY <1>0 DEF PositionsInv, PositionsTypeOK, Results
<1>2. AsHeld'
  BY <1>0 DEF AsHeld
<1>3. StoredAreListed'
  BY <1>1 DEF StoredAreListed, Returned
<1>4. RowsShown'
  <2>1. PICK place : place = [n \in DOMAIN shown |-> n]
    OBVIOUS
  <2>2. /\ place \in [DOMAIN shown' -> DOMAIN shown]
        /\ \A n \in DOMAIN shown' : place[n] = n /\ shown'[n] = shown[n]
    BY <1>0, <2>1
  <2> QED BY <1>0, <2>2, SomeRowsShown
<1> QED BY <1>0, <1>1, <1>2, <1>3, <1>4, ViewKeepsInv

LEMMA NextKeepsPositionsInv ==
    ASSUME PositionsInv, [PositionsNext]_position_vars PROVE PositionsInv'
<1>1. CASE PositionsNext
  BY <1>1, BuysKeepInv, StartViewKeepsInv, ReadRemoteKeepsInv, MergeKeepsInv, PresentKeepsInv,
     ViewFailsKeepsInv DEF PositionsNext, ViewStep
<1>2. CASE UNCHANGED position_vars
  <2>1. UNCHANGED <<holdings, buys, journal, history, signed, view, local, remote, shown>>
    BY <1>2 DEF position_vars
  <2>2. NewRows' = NewRows
    BY <2>1 DEF NewRows, NotTracked
  <2>3. RowCount' = RowCount /\ \A m, row : IsRow(m, row)' <=> IsRow(m, row)
    BY <2>1, SameRows
  <2>4. /\ PositionsTypeOK' /\ OfBuys(journal)' /\ OfBuys(local)' /\ AsHeld' /\ StoredAreListed'
        /\ HandedOfBuys' /\ StoredAreThere' /\ \A b \in Buys : Ordered(b)' <=> Ordered(b)
    BY <2>1 DEF PositionsInv, PositionsTypeOK, OfBuys, AsHeld, StoredAreListed, Returned,
                HandedOfBuys, StoredAreThere, Ordered, AmountOf
  <2>5. RowsShown'
    BY <2>1, <2>3 DEF PositionsInv, RowsShown
  <2>6. view'.at = "merge" => Len(shown') <= RowCount' /\ \A n \in DOMAIN shown' : IsRow(n, shown[n])'
    BY <2>1, <2>3 DEF PositionsInv
  <2> QED BY <2>1, <2>4, <2>5, <2>6 DEF PositionsInv
<1> QED BY <1>1, <1>2

\* Every step of the command line is a step of its listing, or of the buys that
\* go on meanwhile, or none.
THEOREM CommandsRunViews == CommandsSpec => PositionsSpec
<1>1. CommandsInit => PositionsInit
  BY DEF CommandsInit
<1>2. [CommandsNext]_commands_vars => [PositionsNext]_position_vars
  <2>1. ASSUME NEW t, Dispatch(t) PROVE UNCHANGED position_vars
    BY <2>1 DEF Dispatch, OtherScripts
  <2>2. PositionsStart => PositionsNext
    BY DEF PositionsStart, PositionsNext
  <2>3. Progress => [PositionsNext]_position_vars
    BY <2>2 DEF Progress, MarketsRun, PositionsRun, ProbeRuns, Finish, OtherScripts, PositionsNext
  <2>4. Surroundings => [PositionsNext]_position_vars
    BY DEF Surroundings, PositionsNext
  <2>5. UNCHANGED commands_vars => UNCHANGED position_vars
    BY DEF commands_vars
  <2> QED BY <2>1, <2>3, <2>4, <2>5 DEF CommandsNext
<1> QED BY <1>1, <1>2, PTL DEF CommandsSpec, PositionsSpec

LEMMA AlwaysPositionsInv == CommandsSpec => []PositionsInv
<1>1. PositionsSpec => []PositionsInv
  BY InitPositionsInv, NextKeepsPositionsInv, PTL DEF PositionsSpec
<1> QED BY <1>1, CommandsRunViews, PTL

\* Nothing is listed twice as long as the exchange names its token, whatever is
\* found in the journal; and as long as no two buys were storing at once, what
\* was stored before the listing began is listed, whatever is bought, stored,
\* lost or traded elsewhere meanwhile, and in whatever order the exchange answers
\* (_merge_positions, list_positions).
THEOREM PositionsAreListedOnce == CommandsSpec => []EachPositionOnce
<1>1. PositionsInv => EachPositionOnce
  <2> SUFFICES ASSUME PositionsInv PROVE EachPositionOnce
    OBVIOUS
  <2>1. /\ remote \in Seq(Remote) /\ shown \in Seq(PositionView) /\ AsHeld /\ OfBuys(local)
        /\ RowsShown /\ StoredAreListed
    BY DEF PositionsInv, PositionsTypeOK
  <2>2. PICK place \in [DOMAIN shown -> 1..RowCount] :
           /\ \A n \in DOMAIN shown : IsRow(place[n], shown[n])
           /\ \A m, n \in DOMAIN shown : place[m] = place[n] => m = n
    BY <2>1 DEF RowsShown
  <2>3. \A n \in DOMAIN shown : shown[n].mark \in Price /\ place[n] \in 1..RowCount
    <3>1. \A n \in DOMAIN shown : shown[n] \in PositionView
      BY <2>1
    <3>2. \A row \in PositionView : row.mark \in Price
      BY DEF PositionView
    <3> QED BY <2>2, <3>1, <3>2
  <2>4. ASSUME NEW m \in DOMAIN shown, NEW n \in DOMAIN shown, shown[m].token = shown[n].token, m # n
        PROVE  \E i \in DOMAIN remote : remote[i].of = shown[m].token /\ remote[i].token = None
    BY <2>1, <2>2, <2>3, <2>4, RowsAreSingle
  <2> QED BY <2>1, <2>4 DEF EachPositionOnce, StoredAreListed
<1> QED BY <1>1, AlwaysPositionsInv, PTL

\* The profit shown is of the holding, for a token that one filled buy has
\* bought, and of a limit order never too high (compute_pnl).
THEOREM ProfitsAreOfTheHolding == CommandsSpec => []ProfitIsOfTheHolding
<1>1. PositionsInv => ProfitIsOfTheHolding
  <2> SUFFICES ASSUME PositionsInv, NEW n \in DOMAIN shown, NEW b \in Buys,
                      shown[n].source = "tracked", shown[n].remote # None,
                      Token[b] = shown[n].token, buys[b].at # "idle",
                      \A c \in Buys \ {b} : Token[c] = Token[b] => buys[c].at = "idle"
               PROVE  LET gain == holdings[Token[b]].quantity * shown[n].mark
                                    - buys[b].order.quantity * Cost
                      IN  IF b \in Limited THEN shown[n].profit <= gain ELSE shown[n].profit = gain
    BY DEF ProfitIsOfTheHolding
  <2> DEFINE row == shown[n]
  <2>1. /\ remote \in Seq(Remote) /\ shown \in Seq(PositionView) /\ AsHeld /\ OfBuys(local) /\ RowsShown
    BY DEF PositionsInv, PositionsTypeOK
  <2>2. PICK m \in 1..RowCount : IsRow(m, row)
    BY <2>1 DEF RowsShown
  <2>3. row \in PositionView
    BY <2>1
  <2>4. row.mark \in Price
    BY <2>3 DEF PositionView
  <2>5. /\ DOMAIN local = 1..Len(local) /\ Len(local) \in Nat
        /\ \A i \in DOMAIN local : local[i] \in J!LocalPosition
        /\ DOMAIN NewRows = 1..Len(NewRows) /\ Len(NewRows) \in Nat /\ NewRows \in Seq(Remote)
    BY <2>1, NewRowsAreNew DEF OfBuys, J!Journals
  <2>6. m <= Len(local)
    <3> SUFFICES ASSUME ~(m <= Len(local)) PROVE FALSE
      OBVIOUS
    <3>1. m \in Nat /\ m <= Len(local) + Len(NewRows)
      BY <2>5 DEF RowCount
    <3>2. m - Len(local) \in 1..Len(NewRows)
      BY <2>5, <3>1
    <3>3. NewRows[m - Len(local)] \in Remote
      BY <2>5, <3>2
    <3>4. row = External(NewRows[m - Len(local)], row.mark)
      BY <2>2 DEF IsRow
    <3>5. row.source = "external"
      BY <2>4, <3>3, <3>4, ExternalRow
    <3> QED BY <3>5
  <2>7. m \in DOMAIN local /\ row = Tracked(local[m], row.mark)
    <3>1. m \in Nat /\ 1 <= m
      BY <2>5 DEF RowCount
    <3> QED BY <2>2, <2>5, <2>6, <3>1 DEF IsRow
  <2>8. local[m] \in J!LocalPosition
    BY <2>5, <2>7
  <2>9. row.token = local[m].id
    BY <2>1, <2>4, <2>7, <2>8, TrackedRow
  <2>10. PICK c \in Buys : Token[c] = local[m].id /\ buys[c].at # "idle" /\ buys[c].order = local[m].order
    BY <2>1, <2>7 DEF OfBuys
  <2>11. c = b
    BY <2>9, <2>10
  <2>12. PICK i \in DOMAIN remote : /\ remote[i].of = local[m].id
                                    /\ row.profit = remote[i].quantity * row.mark - local[m].order.notional
    BY <2>1, <2>4, <2>7, <2>8, TrackedRow
  <2>13. holdings[Token[b]].quantity = remote[i].quantity
    <3>1. holdings[remote[i].of] = [quantity |-> remote[i].quantity, status |-> remote[i].status]
      BY <2>1 DEF AsHeld
    <3> QED BY <2>9, <2>12, <3>1
  <2> DEFINE worth == remote[i].quantity * row.mark
             quantity == buys[b].order.quantity
  <2>14. /\ quantity \in Nat /\ Cost \in Nat /\ Unit - Cost \in Nat /\ Unit \in Nat
         /\ buys[b].order.notional = quantity * (IF b \in Limited THEN Unit ELSE Cost)
    <3>1. buys[b].order \in Order /\ buys[b].order.notional = AmountOf(b)
      BY DEF PositionsInv, Ordered
    <3>2. Quantities \subseteq Nat /\ Cost \in 0..Unit /\ Unit \in Nat
      BY PositionsAssumption, MarketsAssumption
    <3>3. quantity \in Nat
      BY <3>1, <3>2 DEF Order
    <3>4. buys[b].order.notional = quantity * (IF b \in Limited THEN Unit ELSE Cost)
      BY <3>1 DEF AmountOf
    <3> HIDE DEF quantity
    <3>5. Cost \in Nat /\ Unit - Cost \in Nat
      BY <3>2
    <3> QED BY <3>2, <3>3, <3>4, <3>5
  <2>15. worth \in Int
    <3>1. remote[i] \in Remote
      BY <2>1
    <3>2. remote[i].quantity \in Nat
      BY <3>1 DEF Remote
    <3>3. row.mark \in Nat
      <4>1. row.mark \in 0..Unit
        BY <2>4 DEF Price
      <4> HIDE DEF row
      <4> QED BY <4>1, MarketsAssumption
    <3> QED BY <3>2, <3>3
  <2>16. row.profit = worth - buys[b].order.notional
    BY <2>10, <2>11, <2>12
  <2>17. quantity * Cost <= quantity * Unit /\ quantity * Cost \in Nat /\ quantity * Unit \in Nat
    <3> HIDE DEF quantity
    <3>1. quantity * (Unit - Cost) \in Nat
      BY <2>14
    <3>2. quantity * Unit = quantity * Cost + quantity * (Unit - Cost)
      BY <2>14
    <3> QED BY <2>14, <3>1, <3>2
  <2> HIDE DEF worth, quantity
  <2>18. IF b \in Limited THEN row.profit <= worth - quantity * Cost
         ELSE row.profit = worth - quantity * Cost
    BY <2>14, <2>15, <2>16, <2>17
  <2> QED BY <2>13, <2>18 DEF worth, quantity
<1> QED BY <1>1, AlwaysPositionsInv, PTL

\* The buys that go on while positions are listed use the journal as those of
\* Trading do: as writers of processes of their own, and the commands that only
\* read leave it alone (_persist_local_position).
THEOREM CommandsShareTheJournal == CommandsSpec => J!Spec
<1>1. PositionsInit => J!Init
  BY DEF PositionsInit
<1>2. PositionsInv /\ [PositionsNext]_position_vars => [J!Next]_(J!journal_vars)
  <2> SUFFICES ASSUME PositionsInv, [PositionsNext]_position_vars
               PROVE  J!Next \/ UNCHANGED J!journal_vars
    OBVIOUS
  <2>1. ASSUME UNCHANGED <<buys, journal, history>> PROVE UNCHANGED J!journal_vars
    BY <2>1 DEF J!journal_vars, Position
  <2>2. ASSUME NEW b \in Buys, NEW quantity, NEW fill, Post(b, quantity, fill)
        PROVE  UNCHANGED J!journal_vars
    <3>1. PICK w : w.at = "posted" /\ buys' = [buys EXCEPT ![b] = w]
      <4> DEFINE order == [quantity |-> quantity,
                           notional |-> quantity * IF b \in Limited THEN Unit ELSE Cost,
                           filled |-> fill = quantity]
                 w == [at |-> "posted", order |-> order]
      <4>1. w.at = "posted"
        OBVIOUS
      <4>2. buys' = [buys EXCEPT ![b] = w]
        BY <2>2 DEF Post
      <4> QED BY <4>1, <4>2
    <3>2. buys'[b] = w /\ \A c \in Buys \ {b} : buys'[c] = buys[c]
      BY <3>1 DEF PositionsInv, PositionsTypeOK
    <3>3. [c \in Buys |-> IF buys'[c].at = "storing" THEN Position(c)' ELSE None]
            = [c \in Buys |-> IF buys[c].at = "storing" THEN Position(c) ELSE None]
      BY <2>2, <3>1, <3>2 DEF Post, Position
    <3> QED BY <2>2, <3>3 DEF Post, J!journal_vars
  <2>3. ASSUME NEW b \in Buys, Store(b) PROVE J!Next
    <3>1. Position(b) \in J!LocalPosition /\ J!Enter(b, Position(b))
      BY <2>3, OnlyOnward DEF Store
    <3>2. PICK position \in J!LocalPosition : position = Position(b)
      BY <3>1
    <3>3. J!Enter(b, position)
      BY <3>1, <3>2 DEF J!Enter
    <3> QED BY <3>3 DEF J!Next
  <2>4. ASSUME NEW b \in Buys, Stored(b) \/ StoreFails(b) \/ Lose(b) PROVE J!Next
    BY <2>4 DEF Stored, StoreFails, Lose, J!Next
  <2>5. CASE OtherBuys
    BY <2>1, <2>2, <2>3, <2>4, <2>5 DEF OtherBuys, TradedElsewhere
  <2>6. ASSUME NEW k, StartView(k) PROVE UNCHANGED J!journal_vars
    BY <2>1, <2>6 DEF StartView
  <2>7. CASE ViewStep
    BY <2>1, <2>7 DEF ViewStep, ReadRemote, Merge, Present, ViewFails, Unaffected
  <2>8. CASE UNCHANGED position_vars
    BY <2>1, <2>8 DEF position_vars
  <2> QED BY <2>5, <2>6, <2>7, <2>8 DEF PositionsNext
<1>3. PositionsSpec => []PositionsInv
  BY InitPositionsInv, NextKeepsPositionsInv, PTL DEF PositionsSpec
<1>4. PositionsSpec => J!Spec
  BY <1>1, <1>2, <1>3, PTL DEF PositionsSpec, J!Spec
<1> QED BY <1>4, CommandsRunViews, PTL
-----------------------------------------------------------------------------
(* Types *)

LEMMA InitPreflightTypes == ASSUME PreflightInit PROVE PreflightTypeOK
<1>1. /\ probe = None /\ input = None /\ evidence = None /\ offered = {}
      /\ phase = "idle" /\ bridge = "none" /\ heard = << >> /\ reasons = {}
      /\ verdict = None /\ status = None /\ artifact = [by |-> "earlier", verdict |-> "PASS"]
  BY DEF PreflightInit
<1>2. artifact \in [by: {"earlier", "this"}, verdict: Verdicts \union {"torn"}]
  BY <1>1 DEF Verdicts
<1>3. phase \in Phases
  BY <1>1 DEF Phases
<1>4. evidence \in (UNION {Recorded[p] : p \in Probes}) \union {None}
  BY <1>1
<1> QED BY <1>1, <1>2, <1>3, <1>4 DEF PreflightTypeOK

\* Once a probe is on its way only its answers, its file and its exit status
\* are new.
LEMMA UnderWayTypes ==
    ASSUME PreflightTypeOK, ProbeInv', UNCHANGED <<probe, input, evidence, offered>>,
           phase # "idle", phase' # "idle",
           \/ heard' = heard \/ heard' = << >>
           \/ /\ ~AllHeard
              /\ \E answer \in Replies(probe, Call) \union {None} : heard' = Append(heard, answer),
           artifact' \in {artifact, Torn, [by |-> "this", verdict |-> verdict']},
           verdict' \in Verdicts \/ artifact' \in {artifact, Torn},
           status' \in {0, 1, status}, ProbeInv
    PROVE  PreflightTypeOK'
<1>0. heard \in Seq(Hearable) /\ probe' = probe /\ probe \in Probes /\ ProbeTypes'
  BY DEF ProbeInv, ProbeTypes
<1>1. /\ probe' \in Probes \union {None} /\ input' \in Inputs \union {None}
      /\ evidence' \in (UNION {Recorded[p] : p \in Probes}) \union {None} /\ offered' \subseteq Tools
      /\ probe' \in Probes
  BY <1>0 DEF PreflightTypeOK
<1>2. /\ phase' \in Phases /\ bridge' \in {"none", "open", "closed"}
      /\ reasons' \subseteq Reasons /\ verdict' \in Verdicts \union {None}
      /\ Len(heard') <= Len(Calls(probe'))
  BY <1>0 DEF ProbeTypes
<1>3. artifact' \in [by: {"earlier", "this"}, verdict: Verdicts \union {"torn"}]
  <2>1. artifact \in [by: {"earlier", "this"}, verdict: Verdicts \union {"torn"}]
    BY DEF PreflightTypeOK
  <2>2. Torn \in [by: {"earlier", "this"}, verdict: Verdicts \union {"torn"}]
    BY DEF Torn
  <2>3. verdict' \in Verdicts =>
           [by |-> "this", verdict |-> verdict'] \in [by: {"earlier", "this"}, verdict: Verdicts \union {"torn"}]
    OBVIOUS
  <2> QED BY <2>1, <2>2, <2>3
<1>4. status' \in {0, 1} \union {None}
  BY DEF PreflightTypeOK
<1>5. \A n \in DOMAIN heard : heard[n] \in Replies(probe, Calls(probe)[n]) \union {None}
  BY DEF PreflightTypeOK
<1>6. \A n \in DOMAIN heard' : heard'[n] \in Replies(probe, Calls(probe)[n]) \union {None}
  <2>1. CASE heard' = heard
    BY <1>5, <2>1
  <2>2. CASE heard' = << >>
    <3>1. DOMAIN heard' = {}
      BY <2>2
    <3> QED BY <3>1
  <2>3. ASSUME NEW answer \in Replies(probe, Call) \union {None}, heard' = Append(heard, answer)
        PROVE  \A n \in DOMAIN heard' : heard'[n] \in Replies(probe, Calls(probe)[n]) \union {None}
    <3> DEFINE at == Len(heard) + 1
    <3>1. /\ DOMAIN heard' = 1..at /\ heard'[at] = answer /\ Len(heard) \in Nat
          /\ \A n \in 1..Len(heard) : heard'[n] = heard[n]
      BY <1>0, <2>3
    <3>2. DOMAIN heard = 1..Len(heard)
      BY <1>0
    <3>3. \A n \in 1..at : n = at \/ n \in 1..Len(heard)
      BY <3>1
    <3>4. answer \in Replies(probe, Calls(probe)[at]) \union {None}
      BY <2>3 DEF Call
    <3> HIDE DEF at
    <3> QED BY <1>5, <3>1, <3>2, <3>3, <3>4
  <2> QED BY <2>1, <2>2, <2>3
<1>7. \A n \in DOMAIN heard' : heard'[n] \in Replies(probe', Calls(probe')[n]) \union {None}
  BY <1>0, <1>6
<1> QED BY <1>1, <1>2, <1>3, <1>4, <1>7 DEF PreflightTypeOK

LEMMA NextKeepsPreflightTypes ==
    ASSUME PreflightTypeOK, ProbeInv, ProbeInv', [PreflightNext]_preflight_vars
    PROVE  PreflightTypeOK'
<1>1. CASE ProbeStart
  <2>0. PICK p \in Probes, in \in Inputs :
          \E recorded \in Recorded[p] \union {None}, tools \in SUBSET ToolsOf(p) :
             Start(p, in, recorded, tools)
    BY <1>1 DEF ProbeStart
  <2>1. PICK recorded \in Recorded[p] \union {None}, tools \in SUBSET ToolsOf(p) :
          Start(p, in, recorded, tools)
    BY <2>0
  <2>2. /\ probe' = p /\ input' = in /\ evidence' = recorded /\ offered' = tools
        /\ phase' # "idle" /\ UNCHANGED <<bridge, heard, verdict, artifact, status>>
    BY <2>1 DEF Start
  <2>3. heard = << >> /\ DOMAIN heard' = {}
    BY <1>1, <2>2 DEF ProbeStart, PreflightTypeOK
  <2>4. offered' \subseteq Tools
    BY <2>2 DEF ToolsOf, Tools
  <2>5. evidence' \in (UNION {Recorded[q] : q \in Probes}) \union {None}
    <3>1. Recorded[p] \in {Recorded[q] : q \in Probes}
      OBVIOUS
    <3>2. recorded \in (UNION {Recorded[q] : q \in Probes}) \union {None}
      BY <3>1, Zenon
    <3> QED BY <2>2, <3>2
  <2>6. ProbeTypes'
    BY DEF ProbeInv
  <2> QED BY <2>2, <2>3, <2>4, <2>5, <2>6 DEF PreflightTypeOK, ProbeTypes
<1>2. CASE Connect \/ ConnectFails \/ PlanIsUnusable \/ CallFails \/ Conclude \/ Close
  <2>1. /\ Asking /\ heard' = heard /\ phase # "idle" /\ phase' # "idle"
    BY <1>2 DEF Connect, ConnectFails, PlanIsUnusable, CallFails, Conclude, Close
  <2> QED BY <2>1, UnderWayTypes DEF Asking
<1>3. CASE Ask \/ SkipNextStep
  <2>1. /\ Asking /\ ~AllHeard /\ phase = "ask" /\ phase' = phase
        /\ \E answer \in Replies(probe, Call) \union {None} : heard' = Append(heard, answer)
    BY <1>3 DEF Ask, SkipNextStep
  <2> QED BY <2>1, UnderWayTypes DEF Asking
<1>4. CASE Judge
  <2>1. Ending /\ phase # "idle" /\ phase' # "idle" /\ artifact' = artifact /\ status' = status
    BY <1>4 DEF Judge
  <2> QED BY <2>1, UnderWayTypes DEF Ending
<1>5. CASE Unexpected
  <2>1. Ending /\ phase # "idle" /\ phase' # "idle" /\ artifact' \in {artifact, Torn} /\ status' = status
    BY <1>5 DEF Unexpected
  <2> QED BY <2>1, UnderWayTypes DEF Ending
<1>6. CASE Write
  <2>1. /\ Ending /\ phase \in {"write", "fail safe"} /\ phase' # "idle"
        /\ artifact' = [by |-> "this", verdict |-> verdict'] /\ status' = status /\ verdict' = verdict
    BY <1>6 DEF Write
  <2>2. verdict' \in Verdicts
    BY <2>1 DEF ProbeInv, Told, Verdicts
  <2> QED BY <2>1, <2>2, UnderWayTypes DEF Ending
<1>10. CASE Report
  <2>1. Ending /\ phase # "idle" /\ phase' # "idle" /\ artifact' = artifact /\ status' \in {0, 1}
    BY <1>10 DEF Report, StatusOf
  <2> QED BY <2>1, UnderWayTypes DEF Ending
<1>7. CASE FailSafeFails
  <2>1. /\ Ending /\ phase # "idle" /\ phase' # "idle" /\ artifact' \in {artifact, Torn} /\ status' = 1
    BY <1>7 DEF FailSafeFails
  <2> QED BY <2>1, UnderWayTypes DEF Ending
<1>8. CASE Interrupt
  <2>1. /\ UNCHANGED <<probe, input, evidence, offered>> /\ phase # "idle" /\ phase' # "idle"
        /\ artifact' \in {artifact, Torn} /\ status' = 1 /\ heard' \in {heard, << >>}
    BY <1>8 DEF Interrupt
  <2> QED BY <2>1, UnderWayTypes
<1>9. CASE UNCHANGED preflight_vars
  BY <1>9 DEF preflight_vars, PreflightTypeOK
<1> QED BY <1>1, <1>2, <1>3, <1>4, <1>5, <1>6, <1>7, <1>8, <1>9, <1>10 DEF PreflightNext, ProbeStep

LEMMA AlwaysPreflightTypes == CommandsSpec => []PreflightTypeOK
<1>1. PreflightSpec => []ProbeInv
  BY InitProbeInv, NextKeepsProbeInv, PTL DEF PreflightSpec
<1>2. PreflightSpec => []PreflightTypeOK
  BY <1>1, InitPreflightTypes, NextKeepsPreflightTypes, PTL DEF PreflightSpec
<1> QED BY <1>2, CommandsRunProbes, PTL

\* What was typed, the child and the exit status.
CommandLineTypes ==
    /\ typed \in DOMAIN ScriptOf \union Helps \union Mistakes \union {None}
    /\ script \in {ScriptOf[t] : t \in DOMAIN ScriptOf} \union {None} /\ exit \in {0, 1} \union {None}

LEMMA AlwaysCommandLineTypes == CommandsSpec => []CommandLineTypes
<1>1. CommandsInit => CommandLineTypes
  BY DEF CommandsInit, CommandLineTypes
<1>2. CommandLineTypes /\ PreflightTypeOK /\ ProbeInv /\ [CommandsNext]_commands_vars => CommandLineTypes'
  <2> SUFFICES ASSUME CommandLineTypes, PreflightTypeOK, ProbeInv, [CommandsNext]_commands_vars
               PROVE  CommandLineTypes'
    OBVIOUS
  <2> DEFINE Typable == DOMAIN ScriptOf \union Helps \union Mistakes
             Scripts == {ScriptOf[t] : t \in DOMAIN ScriptOf}
  <2>1. ASSUME NEW t \in Typable, Dispatch(t) PROVE CommandLineTypes'
    <3>1. typed' = t
      BY <2>1 DEF Dispatch
    <3>2. script' \in Scripts \union {None}
      BY <2>1 DEF Dispatch
    <3>3. exit' \in {0, 1} \union {None}
      BY <2>1 DEF Dispatch
    <3> QED BY <3>1, <3>2, <3>3 DEF CommandLineTypes
  <2>2. ASSUME Finish PROVE CommandLineTypes'
    <3>1. UNCHANGED <<typed, script>> /\ exit' \in ChildStatus
      BY <2>2 DEF Finish
    <3>2. ChildStatus \subseteq {0, 1} \union {None}
      <4>1. status \in {0, 1} \union {None}
        BY DEF PreflightTypeOK
      <4> QED BY <4>1 DEF ChildStatus
    <3> QED BY <3>1, <3>2 DEF CommandLineTypes
  <2>3. ASSUME UNCHANGED command_vars PROVE CommandLineTypes'
    BY <2>3 DEF command_vars, CommandLineTypes
  <2>4. MarketsRun \/ PositionsRun \/ ProbeRuns \/ Surroundings => UNCHANGED command_vars
    BY DEF MarketsRun, PositionsRun, ProbeRuns, Surroundings, Running
  <2>5. UNCHANGED commands_vars => UNCHANGED command_vars
    BY DEF commands_vars
  <2> QED BY <2>1, <2>2, <2>3, <2>4, <2>5 DEF CommandsNext, Progress
<1> QED BY <1>1, <1>2, AlwaysPreflightTypes, AlwaysProbeInv, PTL DEF CommandsSpec

\* The types of all the commands.
THEOREM CommandsTypes == CommandsSpec => []CommandsTypeOK
<1>1. HedgingTypeOK /\ PositionsInv /\ PreflightTypeOK /\ CommandLineTypes => CommandsTypeOK
  BY DEF PositionsInv, CommandLineTypes, CommandsTypeOK
<1> QED BY <1>1, HedgingTypes, CommandsRunHedges, AlwaysPositionsInv, AlwaysPreflightTypes,
           AlwaysCommandLineTypes, PTL
=============================================================================
