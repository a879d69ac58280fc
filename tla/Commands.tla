------------------------------ MODULE Commands ------------------------------
(***************************************************************************)
(* The command line, predictclaw.py: what is typed selects a script, which *)
(* runs as a child process and whose exit status is passed on.  The scripts*)
(* that read are composed here; "wallet" and "buy" have models of their own*)
(* (Wallet, Trading) and end here as they may.  A probe is run by itself.  *)
(***************************************************************************)
EXTENDS Hedging, PositionsView, Preflight

\* What may be typed, and the script it runs; the rest is answered at once.
ScriptOf ==
    [typed \in {"markets", "market <id>", "wallet", "buy", "positions", "position <id>", "hedge", "probe"} |->
        CASE typed \in {"markets", "market <id>"}     -> "markets"
          [] typed = "buy"                            -> "trade"
          [] typed \in {"positions", "position <id>"} -> "positions"
          [] OTHER                                    -> typed]

Helps == {"", "help"}

Mistakes == {"market", "position", "markets details", "positions show", "unknown"}

VARIABLES
    typed,
    script,    \* the child
    exit       \* the exit status

command_vars == <<typed, script, exit>>

commands_vars == <<hedge_vars, position_vars, preflight_vars, command_vars>>

CommandsTypeOK ==
    /\ HedgingTypeOK /\ PositionsTypeOK /\ PreflightTypeOK
    /\ typed \in DOMAIN ScriptOf \union Helps \union Mistakes \union {None}
    /\ script \in {ScriptOf[t] : t \in DOMAIN ScriptOf} \union {None} /\ exit \in {0, 1} \union {None}

CommandsInit ==
    /\ HedgingInit /\ PositionsInit /\ PreflightInit
    /\ typed = None /\ script = None /\ exit = None

OtherScripts == UNCHANGED <<hedge_vars, position_vars, preflight_vars>>

\* main(): a script is run, or help or usage printed.
Dispatch(t) ==
    /\ typed = None /\ typed' = t
    /\ script' = IF t \in DOMAIN ScriptOf THEN ScriptOf[t] ELSE None
    /\ exit' = IF t \in DOMAIN ScriptOf THEN None ELSE IF t \in Helps THEN 0 ELSE 1
    /\ OtherScripts

Running(s) == script \in s /\ exit = None /\ UNCHANGED command_vars

MarketsStart ==
    /\ stage = "idle"
    /\ \/ typed = "markets" /\ \E k \in {"trending", "search"} : StartCommand(k, << >>)
       \/ typed = "market <id>" /\ \E m \in Markets : StartCommand("details", <<m>>)
       \/ typed = "hedge" /\ \E k \in {"scan", "scan query"} : StartCommand(k, << >>)
       \/ typed = "hedge" /\ \E m, n \in Markets : StartCommand("analyze", <<m, n>>)

PositionsStart ==
    \/ typed = "positions" /\ \E k \in {"list", "all"} : StartView(k)
    \/ typed = "position <id>" /\ StartView("show")

\* A step of the script itself.
MarketsRun ==
    /\ Running({"markets", "hedge"}) /\ (MarketsStart \/ CommandStep)
    /\ UNCHANGED <<position_vars, preflight_vars>>

PositionsRun ==
    /\ Running({"positions"}) /\ (PositionsStart \/ ViewStep)
    /\ UNCHANGED <<hedge_vars, preflight_vars>>

ProbeRuns ==
    /\ Running({"probe"}) /\ (ProbeStart \/ ProbeStep)
    /\ UNCHANGED <<hedge_vars, position_vars>>

\* What happens around it.
Surroundings ==
    \/ Running({"markets", "hedge"}) /\ Others /\ UNCHANGED <<position_vars, preflight_vars>>
    \/ Running({"positions"}) /\ OtherBuys /\ UNCHANGED <<hedge_vars, preflight_vars>>
    \/ Running({"probe"}) /\ Interrupt /\ UNCHANGED <<hedge_vars, position_vars>>

\* The exit statuses a child may end with, once it has ended: asyncio.run()
\* gives what the handler returns, 1 for a ConfigError, and an uncaught
\* error ends the interpreter with 1.
ChildStatus ==
    CASE script \in {"markets", "hedge"} -> IF stage # "done" THEN {} ELSE IF result = "returned" THEN {0} ELSE {1}
      [] script = "positions" -> IF view.at # "done" THEN {} ELSE IF view.result = "returned" THEN {0} ELSE {1}
      [] script = "probe"     -> IF phase = "done" THEN {status} ELSE {}
      [] OTHER                -> {0, 1}

\* run_script(): returncode.
Finish ==
    /\ script # None /\ exit = None
    /\ exit' \in ChildStatus
    /\ UNCHANGED <<typed, script>> /\ OtherScripts

Progress == MarketsRun \/ PositionsRun \/ ProbeRuns \/ Finish

CommandsNext ==
    \/ \E t \in DOMAIN ScriptOf \union Helps \union Mistakes : Dispatch(t)
    \/ Progress \/ Surroundings

\* The child and its tasks are run; what others do may always stop.
CommandsSpec == CommandsInit /\ [][CommandsNext]_commands_vars /\ WF_commands_vars(Progress)
-----------------------------------------------------------------------------
(* Properties *)

\* Every command ends, with an exit status: a search ends whatever becomes of
\* the ranking, no task waits forever for the semaphore, a model that never
\* gives a usable answer is asked a bounded number of times, and a probe gets
\* to its end through every failure (run_script, gather, complete_json).
EveryCommandEnds == typed # None ~> exit # None
=============================================================================
