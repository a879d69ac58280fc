-------------------------------- MODULE Wallet --------------------------------
(***************************************************************************)
(* The wallet commands (scripts/wallet.py): status, deposit, approve and   *)
(* withdraw of WalletManager and FundingService, and what "buy" does before*)
(* it trades (TradeService; the rest is in Trading).  Every command is a   *)
(* process of its own; they share the environment they are configured by   *)
(* and the accounts on the chain, and each has its own bridge to the vault *)
(* tooling (McpBridge: here it is open with some tools, or not).           *)
(*                                                                         *)
(* External: the chain, where balances move between any two reads, vaults  *)
(* are created and authorities accepted; the SDK that signs and sends; the *)
(* tools, which answer with what the chain holds, or fail.                 *)
(***************************************************************************)
EXTENDS Configuration, Naturals

CONSTANTS
    Commands,       \* processes
    Environments,   \* environments they may be started in
    ToolSets,       \* what a server of the bridge may offer
    Purses,         \* balances others may leave in an account
    Amounts,        \* what may be withdrawn, or spent by a buy
    MaxBalance, MaxMoves, MaxEpoch,   \* bounds of the runs
    Headroom,       \* MIN_GAS_HEADROOM_WEI
    Gas,            \* what a transaction of the wallet costs
    Target          \* minimum_target_balance_wei

Kinds == {"status", "deposit", "approve", "withdraw", "buy"}
Branches == {"standard", "yieldBearing"}

\* "session" stands for the agent_* tools, which are offered together.
Tools == {"bootstrap", "predict", "health", "prepare", "session"}

Outcomes == {"returned", "failed", "raised"}

ASSUME WalletAssumption ==
    /\ Environments \subseteq Environment /\ ToolSets \subseteq SUBSET Tools
    /\ None \notin Modes \union VaultAddresses \union Accounts \union Outcomes
    /\ None \notin Nat
    /\ Purses \subseteq Nat /\ Amounts \subseteq Nat
    /\ MaxBalance \in Nat /\ MaxMoves \in Nat /\ MaxEpoch \in Nat
    /\ Headroom \in Nat /\ Gas \in Nat /\ Target \in Nat
    /\ Gas <= Headroom

\* The agent_* calls of the orchestration, in their order.
PlanCalls == <<"context", "policy", "plan", "session", "next">>

\* "wallet status", ..., "wallet withdraw <asset> <amount> <to> [--all]" and
\* "buy <market> <outcome> <amount>".
Intent ==
    [kind: Kinds \ {"withdraw", "buy"}]
    \union [kind: {"buy"}, amount: Amounts]
    \union [kind: {"withdraw"}, asset: {"bnb", "usdt"}, amount: Amounts, all: BOOLEAN]

Places ==
    {"idle", "connect", "bnb", "usdt", "approvals", "check", "send", "trade", "resolve",
     "health", "prepare", "root", "close", "done"}
    \union Branches \union {"context", "policy", "plan", "session", "next"}

VARIABLES
    env,       \* the environment of the commands
    bnb, usdt, \* balances of the accounts
    approved,  \* the branches approved for the funding account
    vaults,    \* the authority epoch of the vault at an address, if there is one
    moves,     \* what others have done so far
    at,        \* where a command is
    intent,    \* what it was asked
    seen,      \* what it has read and been told
    plan,      \* the funding plan it asked for
    bridge,    \* the tools of its bridge, if it is open
    outcome    \* how it ended

chain == <<bnb, usdt, approved, vaults>>
vars == <<env, chain, moves, at, intent, seen, plan, bridge, outcome>>

Seen == [bnb: Nat, usdt: Nat, exists: BOOLEAN, epoch: Nat, prepared: VaultAddresses \union {None},
         approved: SUBSET Branches, sent: BOOLEAN]
Plan == [vault: VaultAddresses, epoch: Nat, recipient: Accounts, balance: Nat,
         required: Nat]

TypeOK ==
    /\ env \in Environments
    /\ bnb \in [Accounts -> Nat] /\ usdt \in [Accounts -> Nat]
    /\ approved \subseteq Branches
    /\ vaults \in [VaultAddresses -> Nat \union {None}]
    /\ moves \in 0..MaxMoves
    /\ at \in [Commands -> Places]
    /\ intent \in [Commands -> Intent \union {None}]
    /\ seen \in [Commands -> Seen]
    /\ plan \in [Commands -> Plan \union {None}]
    /\ bridge \in [Commands -> (SUBSET Tools) \union {None}]
    /\ outcome \in [Commands -> Outcomes \union {None}]

NothingSeen == [bnb |-> 0, usdt |-> 0, exists |-> FALSE, epoch |-> 0,
                prepared |-> None, approved |-> {}, sent |-> FALSE]

\* The vault the commands speak of.
Address(e) == IF e.vault # None THEN e.vault ELSE "predicted"

\* The vaults that matter: that one, and the one they would create.
Concerned(e) == {Address(e)} \union (IF HasDerivation(e) THEN {"predicted"} ELSE {})

Init ==
    /\ env \in Environments
    /\ bnb = [a \in Accounts |-> MaxBalance] /\ usdt = [a \in Accounts |-> MaxBalance]
    /\ approved = {}
    /\ vaults \in [VaultAddresses -> {0, None}]
    /\ \A a \in VaultAddresses : vaults[a] # None => a \in Concerned(env)
    /\ moves = 0
    /\ at = [c \in Commands |-> "idle"]
    /\ intent = [c \in Commands |-> None]
    /\ seen = [c \in Commands |-> NothingSeen]
    /\ plan = [c \in Commands |-> None]
    /\ bridge = [c \in Commands |-> None]
    /\ outcome = [c \in Commands |-> None]
-----------------------------------------------------------------------------
(* Ways through a command *)

Go(c, place) == at' = [at EXCEPT ![c] = place]

\* Mutant: no finally around the use of the bridge.
LeaveUnclosed(c, how) ==
    /\ Go(c, "done")
    /\ outcome' = [outcome EXCEPT ![c] = how]

\* Return or raise, through "finally: await bridge.close()" if it is open.
Leave(c, how) ==
    /\ Go(c, IF bridge[c] = None THEN "done" ELSE "close")
    /\ outcome' = [outcome EXCEPT ![c] = how]

Proceed(c, place) == Go(c, place) /\ UNCHANGED outcome

UsesBridge(kind) ==
    \/ kind \in {"status", "deposit"} /\ (WalletMode(env) = "mandated-vault" \/ HasOverlay(env))
    \/ kind = "buy" /\ HasOverlay(env)

\* from_env(), the refusals of the mode and _require_sdk(), then the first step.
Opening(kind) ==
    IF ~Accepted(env) THEN "done"
    ELSE IF UsesBridge(kind) THEN (IF kind = "buy" THEN "usdt" ELSE "connect")
    ELSE IF AuthSigner(env) = None THEN "done"
    ELSE IF kind = "buy" THEN "trade"
    ELSE IF kind = "approve" THEN "standard"
    ELSE "bnb"

Start(c, i) ==
    /\ at[c] = "idle"
    /\ intent' = [intent EXCEPT ![c] = i]
    /\ Go(c, Opening(i.kind))
    /\ outcome' = [outcome EXCEPT ![c] = IF Opening(i.kind) = "done" THEN "raised" ELSE None]
    /\ UNCHANGED <<env, chain, moves, seen, plan, bridge>>

\* A read or a call raises, or a destination or an asset is refused.
Fail(c) ==
    /\ at[c] \notin {"idle", "send", "close", "done"}
    /\ Leave(c, "raised")
    /\ UNCHANGED <<env, chain, moves, intent, seen, plan, bridge>>

\* A buy connects only when it has seen that funds are missing.
Connect(c) ==
    /\ at[c] = "connect"
    /\ \E tools \in ToolSets : bridge' = [bridge EXCEPT ![c] = tools]
    /\ Proceed(c, IF WalletMode(env) = "mandated-vault" \/ intent[c].kind = "buy"
                  THEN "resolve" ELSE "bnb")
    /\ UNCHANGED <<env, chain, moves, intent, seen, plan>>

\* close() may raise as well; the server is gone in any case.
Close(c) ==
    /\ at[c] = "close"
    /\ bridge' = [bridge EXCEPT ![c] = None]
    /\ Go(c, "done")
    /\ \E how \in {outcome[c], "raised"} : outcome' = [outcome EXCEPT ![c] = how]
    /\ UNCHANGED <<env, chain, moves, intent, seen, plan>>
-----------------------------------------------------------------------------
(* Balances and approvals *)

ReadBnb(c) ==
    /\ at[c] = "bnb"
    /\ seen' = [seen EXCEPT ![c].bnb = bnb[FundingAddress(env)]]
    /\ Proceed(c, "usdt")
    /\ UNCHANGED <<env, chain, moves, intent, plan, bridge>>

ReadUsdt(c) ==
    /\ at[c] = "usdt"
    /\ seen' = [seen EXCEPT ![c].usdt = usdt[FundingAddress(env)]]
    /\ \/ bridge[c] # None /\ Proceed(c, "resolve")
       \/ bridge[c] = None /\ intent[c].kind = "buy"
          /\ Proceed(c, IF usdt[FundingAddress(env)] < intent[c].amount THEN "connect" ELSE "trade")
       \/ bridge[c] = None /\ intent[c].kind = "withdraw" /\ Proceed(c, "check")
       \/ bridge[c] = None /\ intent[c].kind = "status" /\ Proceed(c, "approvals")
       \/ bridge[c] = None /\ intent[c].kind = "deposit" /\ Leave(c, "returned")
    /\ UNCHANGED <<env, chain, moves, intent, plan, bridge>>

\* get_approval_snapshot()
ReadApprovals(c) ==
    /\ at[c] = "approvals"
    /\ seen' = [seen EXCEPT ![c].approved = approved]
    /\ Leave(c, "returned")
    /\ UNCHANGED <<env, chain, moves, intent, plan, bridge>>

\* One set_approvals(): the SDK reports whether the approvals were given.
SetApprovals(c, branch) ==
    /\ at[c] = branch
    /\ \E given \in BOOLEAN :
        /\ given => bnb[SignerAddress(env)] >= Gas
        /\ approved' = IF given THEN approved \union {branch} ELSE approved
        /\ seen' = [seen EXCEPT ![c].approved = IF given THEN @ \union {branch} ELSE @]
        /\ bnb' = IF given THEN [bnb EXCEPT ![SignerAddress(env)] = @ - Gas] ELSE bnb
    /\ IF branch = "standard" THEN Proceed(c, "yieldBearing") ELSE Leave(c, "returned")
    /\ UNCHANGED <<env, usdt, vaults, moves, intent, plan, bridge>>

\* The buy goes on as Trading has it, and returns.
Trade(c) ==
    /\ at[c] = "trade"
    /\ Leave(c, "returned")
    /\ UNCHANGED <<env, chain, moves, intent, seen, plan, bridge>>
-----------------------------------------------------------------------------
(* Withdrawals *)

WithdrawalAmount(i, s) ==
    IF ~i.all THEN i.amount
    ELSE IF i.asset = "usdt" THEN s.usdt
    ELSE IF s.bnb >= Headroom THEN s.bnb - Headroom ELSE 0

\* The checks of withdraw() on what it read.
WithdrawalAllowed(i, s) ==
    /\ WithdrawalAmount(i, s) > 0
    /\ s.bnb > Headroom
    /\ i.asset = "usdt" => s.usdt >= WithdrawalAmount(i, s)
    /\ i.asset = "bnb" => s.bnb - Headroom >= WithdrawalAmount(i, s)

Check(c) ==
    /\ at[c] = "check"
    /\ IF WithdrawalAllowed(intent[c], seen[c])
       THEN Proceed(c, "send") ELSE Leave(c, "raised")
    /\ UNCHANGED <<env, chain, moves, intent, seen, plan, bridge>>

\* The Kernel account executes for the Predict Account, the signer pays the gas.
Payer(e) == IF WalletMode(e) = "predict-account" THEN "account" ELSE "eoa"

GasOf(a) == IF a = SignerAddress(env) THEN Gas ELSE 0

\* The transfer that _transfer_bnb() writes itself, without the SDK.
IsPlain(i) == i.asset = "bnb" /\ Payer(env) = "eoa"

\* Mutant: what was mined is a success.
MinedIsSuccess(i, moved) == "returned"

\* The SDK looks at the receipt, the plain transfer does not.
ReceiptOutcome(i, moved) == IF moved \/ IsPlain(i) THEN "returned" ELSE "failed"

\* The transaction is mined and moves the amount or reverts; waiting for its
\* receipt may time out.
TransferMined(c) ==
    LET i == intent[c]
        amount == WithdrawalAmount(i, seen[c])
        payer == Payer(env)
        funded == IF i.asset = "usdt" THEN usdt[payer] >= amount
                  ELSE bnb[payer] >= amount + GasOf(payer)
    IN  /\ at[c] = "send"
        /\ bnb[SignerAddress(env)] >= Gas
        /\ IsPlain(i) => funded
        /\ \E moved \in IF funded THEN BOOLEAN ELSE {FALSE} :
            /\ bnb' = [a \in Accounts |-> bnb[a] - GasOf(a)
                           - (IF moved /\ i.asset = "bnb" /\ a = payer THEN amount ELSE 0)]
            /\ usdt' = IF moved /\ i.asset = "usdt"
                       THEN [usdt EXCEPT ![payer] = @ - amount] ELSE usdt
            /\ seen' = [seen EXCEPT ![c].sent = moved]
            /\ \E how \in {ReceiptOutcome(i, moved), "raised"} : Leave(c, how)
        /\ UNCHANGED <<env, approved, vaults, moves, intent, plan, bridge>>

\* The node does not take it: too little gas, a nonce already used, no answer.
TransferRefused(c) ==
    /\ at[c] = "send"
    /\ \E how \in {"failed", "raised"} : Leave(c, how) /\ (IsPlain(intent[c]) => how = "raised")
    /\ UNCHANGED <<env, chain, moves, intent, seen, plan, bridge>>
-----------------------------------------------------------------------------
(* The vault behind the bridge *)

\* include_create_prepare
WantsPreparation(c) == intent[c].kind = "deposit" /\ WalletMode(env) = "mandated-vault"

Resolved(c) ==
    IF WalletMode(env) = "mandated-vault" THEN Leave(c, "returned") ELSE Proceed(c, "root")

\* Mutant: the epoch is taken from a health that is not there.
KnowsWithoutDefault(c, exists, prepared) ==
    seen' = [seen EXCEPT ![c] = [@ EXCEPT !.exists = exists, !.prepared = prepared,
                                          !.epoch = vaults[Address(env)]]]

Knows(c, exists, prepared) ==
    seen' = [seen EXCEPT ![c] = [@ EXCEPT !.exists = exists, !.prepared = prepared,
                                          !.epoch = IF exists THEN vaults[Address(env)] ELSE 0]]

\* vault_bootstrap in mode "plan" answers all at once, perhaps without the
\* health of a vault that exists, perhaps without a transaction to create it.
Bootstrap(c) ==
    /\ at[c] = "resolve" /\ env.vault = None /\ HasDerivation(env)
    /\ "bootstrap" \in bridge[c]
    /\ LET exists == vaults["predicted"] # None
       IN  \E complete \in BOOLEAN :
             /\ Knows(c, exists, IF ~exists /\ complete /\ WantsPreparation(c)
                                 THEN "predicted" ELSE None)
             /\ IF exists /\ ~complete THEN Proceed(c, "health") ELSE Resolved(c)
    /\ UNCHANGED <<env, chain, moves, intent, plan, bridge>>

Predict(c) ==
    /\ at[c] = "resolve" /\ env.vault = None /\ HasDerivation(env)
    /\ "bootstrap" \notin bridge[c] /\ "predict" \in bridge[c]
    /\ Proceed(c, "health")
    /\ UNCHANGED <<env, chain, moves, intent, seen, plan, bridge>>

\* The orchestration asks for these first (vault_bootstrap has them all).
HasPrincipals == WalletMode(env) = "mandated-vault" \/ {"authority", "asset"} \subseteq env.derivation

\* An error that says the vault is not deployed is an answer too.
HealthCheck(c) ==
    /\ \/ at[c] = "health"
       \/ at[c] = "resolve" /\ env.vault # None /\ HasPrincipals
    /\ "health" \in bridge[c]
    /\ LET exists == vaults[Address(env)] # None
       IN  /\ Knows(c, exists, None)
           /\ IF WantsPreparation(c) /\ ~exists /\ HasDerivation(env)
              THEN Proceed(c, "prepare") ELSE Resolved(c)
    /\ UNCHANGED <<env, chain, moves, intent, plan, bridge>>

\* factory_create_vault_prepare, of the vault that the six fields derive, be it
\* the one whose health was asked for or not; it is never sent from here.
Prepare(c) ==
    /\ at[c] = "prepare"
    /\ "prepare" \in bridge[c]
    /\ "bootstrap" \in bridge[c] \/ {"predict", "prepare", "health"} \subseteq bridge[c]
    /\ seen' = [seen EXCEPT ![c].prepared = "predicted"]
    /\ Leave(c, "returned")
    /\ UNCHANGED <<env, chain, moves, intent, plan, bridge>>

\* _resolve_transfer_allowed_adapters_root: the code of the token is looked up.
ResolveRoot(c) ==
    /\ at[c] = "root"
    /\ Proceed(c, PlanCalls[1])
    /\ UNCHANGED <<env, chain, moves, intent, seen, plan, bridge>>

\* Mutant: the balance is read again for the plan.
PlanOfFreshBalance(c) ==
    [vault |-> Address(env), epoch |-> seen[c].epoch,
     recipient |-> FundingAddress(env), balance |-> usdt[FundingAddress(env)],
     required |-> IF usdt[FundingAddress(env)] >= Target THEN 0
                  ELSE Target - usdt[FundingAddress(env)]]

\* The funding target and context that go into the plan.
PlanOf(c) ==
    [vault |-> Address(env), epoch |-> seen[c].epoch,
     recipient |-> FundingAddress(env), balance |-> seen[c].usdt,
     required |-> IF seen[c].usdt >= Target THEN 0 ELSE Target - seen[c].usdt]

\* With the last call status goes on; a buy reports what it has learnt as the
\* reason why it is refused.
PlanCall(c, n) ==
    /\ at[c] = PlanCalls[n]
    /\ "session" \in bridge[c]
    /\ plan' = IF PlanCalls[n] = "plan" THEN [plan EXCEPT ![c] = PlanOf(c)] ELSE plan
    /\ IF n < 5 THEN Proceed(c, PlanCalls[n + 1])
       ELSE IF intent[c].kind = "status" THEN Proceed(c, "approvals")
       ELSE Leave(c, IF intent[c].kind = "buy" THEN "raised" ELSE "returned")
    /\ UNCHANGED <<env, chain, moves, intent, seen, bridge>>
-----------------------------------------------------------------------------
(* Everybody else *)

OtherMovesFunds ==
    /\ moves < MaxMoves /\ moves' = moves + 1
    /\ \E a \in {FundingAddress(env), SignerAddress(env)}, b \in Purses :
        \/ bnb' = [bnb EXCEPT ![a] = b] /\ UNCHANGED usdt
        \/ usdt' = [usdt EXCEPT ![a] = b] /\ UNCHANGED bnb
    /\ UNCHANGED <<env, approved, vaults, at, intent, seen, plan, bridge, outcome>>

OtherCreatesVault ==
    /\ moves < MaxMoves /\ moves' = moves + 1
    /\ \E a \in Concerned(env) : vaults[a] = None /\ vaults' = [vaults EXCEPT ![a] = 0]
    /\ UNCHANGED <<env, bnb, usdt, approved, at, intent, seen, plan, bridge, outcome>>

AuthorityAccepted ==
    /\ moves < MaxMoves /\ moves' = moves + 1
    /\ \E a \in Concerned(env) :
        /\ vaults[a] # None /\ vaults[a] < MaxEpoch
        /\ vaults' = [vaults EXCEPT ![a] = @ + 1]
    /\ UNCHANGED <<env, bnb, usdt, approved, at, intent, seen, plan, bridge, outcome>>

Step(c) ==
    \/ Fail(c) \/ Connect(c) \/ Close(c)
    \/ ReadBnb(c) \/ ReadUsdt(c) \/ ReadApprovals(c) \/ Trade(c)
    \/ \E branch \in Branches : SetApprovals(c, branch)
    \/ Check(c) \/ TransferMined(c) \/ TransferRefused(c)
    \/ Bootstrap(c) \/ Predict(c) \/ HealthCheck(c) \/ Prepare(c)
    \/ ResolveRoot(c) \/ \E n \in 1..5 : PlanCall(c, n)

Others == OtherMovesFunds \/ OtherCreatesVault \/ AuthorityAccepted

Next ==
    \/ \E c \in Commands : Step(c) \/ \E i \in Intent : Start(c, i)
    \/ Others

Spec == Init /\ [][Next]_vars

\* A command that was started goes on: nodes and tools answer or fail.
LiveSpec == Spec /\ \A c \in Commands : WF_vars(Step(c))
-----------------------------------------------------------------------------
(* The inductive invariant *)

\* Whatever goes on was accepted; a withdrawal goes on with a signer and
\* without a bridge, and is sent only if the checks allowed it.
Underway(c) ==
    at[c] \notin {"idle", "close", "done"} =>
        /\ Accepted(env)
        /\ intent[c] \in Intent
        /\ at[c] \in {"check", "send"} => intent[c].kind = "withdraw"
        /\ intent[c].kind = "withdraw" => AuthSigner(env) # None
        /\ at[c] = "send" => WithdrawalAllowed(intent[c], seen[c])

\* Inductive: types, and what every command under way has been checked for
\* (the order of the refusals, reads and checks in withdraw()).
WalletInv == TypeOK /\ \A c \in Commands : Underway(c)
-----------------------------------------------------------------------------
(* Properties *)

\* A withdrawal takes an asset only from the account whose balances it checked
\* and never more than it read there, and unless somebody else spent in
\* between it leaves the gas headroom, less the gas (withdraw(), and the
\* exclusive credentials validate_runtime_contract() sees to).
WithdrawalsAreCovered ==
    [][\A c \in Commands : at[c] = "send" /\ at'[c] # "send" =>
         \A a \in Accounts :
           /\ usdt'[a] < usdt[a] =>
                a = FundingAddress(env) /\ usdt[a] - usdt'[a] <= seen[c].usdt
           /\ bnb'[a] < bnb[a] - GasOf(a) =>
                a = FundingAddress(env) /\ bnb[a] - bnb'[a] <= seen[c].bnb
           /\ a = FundingAddress(env) /\ bnb[a] >= seen[c].bnb =>
                bnb'[a] >= Headroom - Gas]_vars

\* What a command reports is so: approvals it calls ready were given, a
\* transfer it calls successful moved the amount (except the plain transfer of
\* BNB, which is called so whatever its receipt says), and a vault is to be
\* created only if the one the command speaks of was not there.  The two are the
\* same unless an address and all six fields are configured: then the vault the
\* fields derive is to be created, and whether that is there nobody has looked
\* (resolve_mandated_vault).
ReportsAreTrue ==
    \A c \in Commands :
        /\ seen[c].approved \subseteq approved
        /\ outcome[c] = "returned" /\ intent[c].kind = "withdraw" /\ ~IsPlain(intent[c])
               => seen[c].sent
        /\ seen[c].prepared # None =>
              ~seen[c].exists /\ (env.vault = None => seen[c].prepared = Address(env))

\* A funding plan belongs to the account, the vault and the one balance that
\* the same command reports, tops it up to the target and no further, and is
\* not for an epoch the vault has not reached
\* (build_vault_to_predict_account_orchestration), whatever moves meanwhile.  The
\* plan of a buy that lacks funds pays for it, if it is of no more than the
\* target (TradeService.buy).
PlanIsOfOneReading ==
    \A c \in Commands : plan[c] # None =>
        /\ plan[c].recipient = "account" /\ plan[c].vault = Address(env)
        /\ plan[c].balance = seen[c].usdt
        /\ plan[c].required > 0 => plan[c].required + seen[c].usdt = Target
        /\ vaults[plan[c].vault] # None => plan[c].epoch <= vaults[plan[c].vault]
        /\ intent[c].kind = "buy" =>
              /\ seen[c].usdt < intent[c].amount
              /\ intent[c].amount <= Target => seen[c].usdt + plan[c].required >= intent[c].amount

\* A command that was started ends, and without a bridge left open.
CommandsEnd ==
    \A c \in Commands : (at[c] # "idle") ~> (at[c] = "done" /\ bridge[c] = None)

\* The environment the documentation recommends for the overlay: a Predict
\* Account, the address of a deployed vault, its asset and its authority.
DocumentedOverlay ==
    [mode |-> "predict-account", basics |-> TRUE, key |-> FALSE, account |-> TRUE,
     privy |-> TRUE, vault |-> "other", derivation |-> {"asset", "authority"}, rest |-> TRUE]

\* In the environment of predict/README.md:212-223 "Vault funds the Predict
\* Account through MCP-backed session and asset-transfer planning" (:236):
\* status and deposit at least turn to the tools.
DocumentedOverlayIsServed ==
    [][\A c \in Commands :
         env = DocumentedOverlay /\ at[c] = "idle" /\ at'[c] # "idle"
             /\ intent'[c].kind \in {"status", "deposit"}
         => at'[c] = "connect"]_vars
=============================================================================
