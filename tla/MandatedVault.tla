---------------------------- MODULE MandatedVault ----------------------------
(***************************************************************************)
(* MandatedVaultClone: a token vault whose authority signs mandates that   *)
(* let an executor run batches of adapter calls, each batch bounded by a   *)
(* circuit breaker.                                                        *)
(*                                                                         *)
(* A call from outside is one step, except execute(): between its          *)
(* validation and its circuit breaker the adapters run, and they may call  *)
(* back into every entry point.  execute() is therefore Execute (checks,   *)
(* nonce, snapshot, first call), any number of callback steps, NextAction  *)
(* for each further call, and PostExecution or Revert.  While it runs only *)
(* contracts can be msg.sender; a revert restores the state the            *)
(* transaction began with, which "frame" holds.  A call the code refuses   *)
(* has no effect and is not a step.                                        *)
(***************************************************************************)
EXTENDS MandateRules

CONSTANTS
    AssetToken,       \* the ERC-20 the vault holds; it may itself be called by a batch
    InitialAuthority, \* the authority_ given to initialize()
    Mandates,         \* the mandates callers may present
    Revocable,        \* arguments of revokeMandate
    Candidates,       \* arguments of proposeAuthority
    Batches,          \* the action sequences callers may present
    Nonces,           \* arguments of invalidateNonce
    Thresholds,       \* arguments of invalidateNoncesBelow
    Amounts,          \* token, share and wei amounts
    MaxAssets,        \* bounds of a run, none of them in the code:
    MaxSupply,        \*   assets held, shares issued, wei held,
    MaxEth,
    MaxTime,          \*   block.timestamp (the first block is 1),
    MaxEpoch,         \*   authority transfers (2^64 - 1 in the code),
    MaxPeriods,       \*   epoch resets,
    MaxExecutions     \*   executions

ASSUME VaultAssumption ==
    /\ AssetToken \in Contracts
    /\ InitialAuthority \in Accounts
    /\ Mandates \subseteq Mandate /\ Revocable \subseteq Mandate
    /\ Candidates \subseteq Accounts \union {None}
    /\ Batches \subseteq Seq(Action)
    /\ Nonces \subseteq Nat /\ Thresholds \subseteq Nat /\ Amounts \subseteq Nat
    /\ {"transfer", "approve"} \subseteq Selectors

ASSUME BoundsAssumption ==
    /\ MaxAssets \in Nat /\ MaxSupply \in Nat /\ MaxEth \in Nat
    /\ MaxTime \in Nat \ {0} /\ MaxEpoch \in Nat
    /\ MaxPeriods \in Nat /\ MaxExecutions \in Nat

VARIABLES
    store,    \* the contract's storage
    chain,    \* the vault's balances, kept by the token, ERC20/ERC4626 and the EVM
    now,      \* block.timestamp
    entered,  \* _reentrancyGuardEntered()
    frame,    \* locals of the running execute() and the state a revert restores
    events,   \* the MandateExecuted events
    ghost     \* observer: epoch baselines and who proposed the pending authority

vars == <<store, chain, now, entered, frame, events, ghost>>

Store ==
    [authority: Accounts, pendingAuthority: Accounts \union {None},
     authorityEpoch: Nat, nonceUsed: SUBSET (Accounts \X Nat),
     nonceThreshold: [Accounts -> Nat], mandateRevoked: SUBSET Mandate,
     epochStart: Nat, epochAssets: Nat]

\* assets is totalAssets(); approved: some spender holds an unspent allowance.
Chain == [assets: Nat, supply: Nat, eth: Nat, approved: BOOLEAN]

Ghost == [baselines: Seq(Nat), proposer: Accounts \union {None}]

Frame ==
    [mandate: Mandate, actions: Seq(Action), executor: Accounts,
     authority: Accounts, maxLoss: Nat, preAssets: Nat, i: Nat,
     store: Store, chain: Chain, ghost: Ghost]

NoFrame == << >>

\* "period" numbers the epoch (see baselines) in which the execution committed.
Event ==
    [mandate: Mandate, authority: Accounts, executor: Accounts,
     actions: Seq(Action), preAssets: Nat, postAssets: Nat, period: Nat]

TypeOK ==
    /\ store \in Store
    /\ chain \in Chain
    /\ now \in Nat \ {0}
    /\ entered \in BOOLEAN
    /\ entered => frame \in Frame
    /\ events \in Seq(Event)
    /\ ghost \in Ghost

Init ==
    /\ store = [authority |-> InitialAuthority, pendingAuthority |-> None,
                authorityEpoch |-> 0, nonceUsed |-> {},
                nonceThreshold |-> [a \in Accounts |-> 0],
                mandateRevoked |-> {}, epochStart |-> 0, epochAssets |-> 0]
    /\ chain = [assets |-> 0, supply |-> 0, eth |-> 0, approved |-> FALSE]
    /\ now = 1
    /\ entered = FALSE
    /\ frame = NoFrame
    /\ events = << >>
    /\ ghost = [baselines |-> << >>, proposer |-> None]

\* msg.sender: anyone outside an execution, only a contract inside one.
CanCall(sender) == entered => sender \in Contracts

-----------------------------------------------------------------------------
(* Authority, epoch and revocation.  None of these entry points is guarded *)
(* against re-entrancy: an adapter may call them in the middle of execute. *)

ProposeAuthority(sender, newAuthority) ==
    /\ CanCall(sender)
    /\ sender = store.authority
    /\ store' = [store EXCEPT !.pendingAuthority = newAuthority]
    /\ ghost' = [ghost EXCEPT !.proposer = IF newAuthority = None THEN None ELSE sender]
    /\ UNCHANGED <<chain, now, entered, frame, events>>

\* Mutant: the accepted proposal stays pending.
AcceptAuthorityStillPending(sender) ==
    /\ CanCall(sender)
    /\ sender = store.pendingAuthority
    /\ store.authorityEpoch < MaxEpoch
    /\ store' = [store EXCEPT !.authority = store.pendingAuthority,
                              !.authorityEpoch = @ + 1]
    /\ UNCHANGED <<chain, now, entered, frame, events, ghost>>

AcceptAuthority(sender) ==
    /\ CanCall(sender)
    /\ sender = store.pendingAuthority
    /\ store.authorityEpoch < MaxEpoch
    /\ store' = [store EXCEPT !.authority = store.pendingAuthority,
                              !.pendingAuthority = None,
                              !.authorityEpoch = @ + 1]
    /\ UNCHANGED <<chain, now, entered, frame, events, ghost>>

\* Mutant: the new epoch keeps the old mark.
ResetEpochStartOnly(sender) ==
    /\ CanCall(sender)
    /\ sender = store.authority
    /\ Len(ghost.baselines) < MaxPeriods
    /\ store' = [store EXCEPT !.epochStart = now]
    /\ ghost' = [ghost EXCEPT !.baselines = Append(@, chain.assets)]
    /\ UNCHANGED <<chain, now, entered, frame, events>>

ResetEpoch(sender) ==
    /\ CanCall(sender)
    /\ sender = store.authority
    /\ Len(ghost.baselines) < MaxPeriods
    /\ store' = [store EXCEPT !.epochAssets = chain.assets, !.epochStart = now]
    /\ ghost' = [ghost EXCEPT !.baselines = Append(@, chain.assets)]
    /\ UNCHANGED <<chain, now, entered, frame, events>>

InvalidateNonce(sender, nonce) ==
    /\ CanCall(sender)
    /\ sender = store.authority
    /\ store' = [store EXCEPT !.nonceUsed = @ \union {<<store.authority, nonce>>}]
    /\ UNCHANGED <<chain, now, entered, frame, events, ghost>>

\* Mutant: ThresholdNotIncreased is not raised.
InvalidateNoncesAny(sender, threshold) ==
    /\ CanCall(sender)
    /\ sender = store.authority
    /\ store' = [store EXCEPT !.nonceThreshold[store.authority] = threshold]
    /\ UNCHANGED <<chain, now, entered, frame, events, ghost>>

InvalidateNoncesBelow(sender, threshold) ==
    /\ CanCall(sender)
    /\ sender = store.authority
    /\ threshold > store.nonceThreshold[store.authority]
    /\ store' = [store EXCEPT !.nonceThreshold[store.authority] = threshold]
    /\ UNCHANGED <<chain, now, entered, frame, events, ghost>>

RevokeMandate(sender, m) ==
    /\ CanCall(sender)
    /\ sender = store.authority
    /\ store' = [store EXCEPT !.mandateRevoked = @ \union {m}]
    /\ UNCHANGED <<chain, now, entered, frame, events, ghost>>

-----------------------------------------------------------------------------
(* execute() *)

\* What a signature proves: the signer an ECDSA recovery yields (None when it
\* fails), and whether
\* the authority contract's isValidSignature answers the ERC-1271 magic value.
Signature == [signer: (Accounts \ Contracts) \union {None}, magic: BOOLEAN]

VerifyAuthoritySig(authority, signature) ==
    \/ authority \notin Contracts /\ signature.signer = authority
    \/ authority \in Contracts /\ signature.magic

NonceFree(authority, nonce) ==
    /\ nonce >= store.nonceThreshold[authority]
    /\ <<authority, nonce>> \notin store.nonceUsed

\* Mutant: the nonce is checked and never marked.
ConsumeNonceNever(s, authority, nonce) == s

ConsumeNonce(s, authority, nonce) ==
    [s EXCEPT !.nonceUsed = @ \union {<<authority, nonce>>}]

ValidateMandate(sender, m, actions, proofs, signature, blob) ==
    /\ ValidateFields(m, store.authorityEpoch, sender, now, actions, proofs, blob)
    /\ blob = m.extensionsHash
    /\ m \notin store.mandateRevoked
    /\ VerifyAuthoritySig(store.authority, signature)
    /\ NonceFree(store.authority, m.nonce)
    /\ ValidatePayloadDigest(m, actions)
    /\ ValidateAllowlists(m, actions, blob)

\* The first execution of a vault opens its first epoch.
InitEpoch(s) ==
    IF s.epochStart = 0
    THEN [s EXCEPT !.epochStart = now, !.epochAssets = chain.assets]
    ELSE s

\* The call of an action hands its native value to the adapter.
CanPay(action) == action.value <= chain.eth
CallAction(action) == [chain EXCEPT !.eth = @ - action.value]

Execute(sender, m, actions, proofs, signature, blob) ==
    /\ ~entered
    /\ Len(events) < MaxExecutions
    /\ ValidateMandate(sender, m, actions, proofs, signature, blob)
    /\ CanPay(actions[1])
    /\ store' = InitEpoch(ConsumeNonce(store, store.authority, m.nonce))
    /\ chain' = CallAction(actions[1])
    /\ entered' = TRUE
    /\ frame' = [mandate |-> m, actions |-> actions, executor |-> sender,
                 authority |-> store.authority,
                 maxLoss |-> MaxSingleAbsoluteLoss(blob),
                 preAssets |-> chain.assets, i |-> 1,
                 store |-> store, chain |-> chain, ghost |-> ghost]
    /\ ghost' = IF store.epochStart = 0
                THEN [ghost EXCEPT !.baselines = Append(@, chain.assets)]
                ELSE ghost
    /\ UNCHANGED <<now, events>>

\* Action i returned without an error: the loop calls the next one.
NextAction ==
    /\ entered
    /\ frame.i < Len(frame.actions)
    /\ CanPay(frame.actions[frame.i + 1])
    /\ chain' = CallAction(frame.actions[frame.i + 1])
    /\ frame' = [frame EXCEPT !.i = @ + 1]
    /\ UNCHANGED <<store, now, entered, events, ghost>>

\* The circuit breaker.  _epochAssets is read here, after the actions ran.
BreakerHolds ==
    LET m == frame.mandate IN
    /\ CheckSingleDrawdown(frame.preAssets, chain.assets, m.maxDrawdownBps)
    /\ CheckSingleAbsoluteLoss(frame.preAssets, chain.assets, frame.maxLoss)
    /\ CheckCumulativeDrawdown(store.epochAssets, chain.assets, m.maxCumulativeDrawdownBps)

\* Mutant: the authority is read again after the actions ran.
MandateExecutedReread ==
    [mandate |-> frame.mandate, authority |-> store.authority,
     executor |-> frame.executor, actions |-> frame.actions,
     preAssets |-> frame.preAssets, postAssets |-> chain.assets,
     period |-> Len(ghost.baselines)]

MandateExecuted ==
    [mandate |-> frame.mandate, authority |-> frame.authority,
     executor |-> frame.executor, actions |-> frame.actions,
     preAssets |-> frame.preAssets, postAssets |-> chain.assets,
     period |-> Len(ghost.baselines)]

PostExecution ==
    /\ entered
    /\ frame.i = Len(frame.actions)
    /\ BreakerHolds
    /\ store' = [store EXCEPT !.epochAssets = HighWaterMark(@, chain.assets)]
    /\ events' = Append(events, MandateExecuted)
    /\ entered' = FALSE
    /\ frame' = NoFrame
    /\ UNCHANGED <<chain, now, ghost>>

\* ActionCallFailed, a circuit breaker error, an overflow or the end of the
\* gas: everything the transaction did is undone.
Revert ==
    /\ entered
    /\ store' = frame.store
    /\ chain' = frame.chain
    /\ ghost' = frame.ghost
    /\ entered' = FALSE
    /\ frame' = NoFrame
    /\ UNCHANGED <<now, events>>

-----------------------------------------------------------------------------
(* What the adapters and the token do to the vault's balance while called. *)

\* The batch calls the asset token itself: transfer moves vault assets out.
TokenTransfer(amount) ==
    /\ entered
    /\ frame.actions[frame.i].adapter = AssetToken
    /\ frame.actions[frame.i].selector = "transfer"
    /\ amount <= chain.assets
    /\ chain' = [chain EXCEPT !.assets = @ - amount]
    /\ UNCHANGED <<store, now, entered, frame, events, ghost>>

\* ... and approve gives an adapter an allowance, or takes it back.
TokenApprove(allowed) ==
    /\ entered
    /\ frame.actions[frame.i].adapter = AssetToken
    /\ frame.actions[frame.i].selector = "approve"
    /\ chain' = [chain EXCEPT !.approved = allowed]
    /\ UNCHANGED <<store, now, entered, frame, events, ghost>>

\* A spender uses its allowance: an adapter in the batch, or later, outside
\* any execution, whoever was left with one.
PullApproved(amount) ==
    /\ chain.approved
    /\ amount <= chain.assets
    /\ chain' = [chain EXCEPT !.assets = @ - amount]
    /\ UNCHANGED <<store, now, entered, frame, events, ghost>>

\* Anyone may send the token to the vault: swap output, or a donation.
AssetsArrive(amount) ==
    /\ chain.assets + amount <= MaxAssets
    /\ chain' = [chain EXCEPT !.assets = @ + amount]
    /\ UNCHANGED <<store, now, entered, frame, events, ghost>>

-----------------------------------------------------------------------------
(* ERC-4626 entry points (VaultBusy guard) and native currency.  Shares    *)
(* are converted as ERC4626Upgradeable does, one virtual share and asset.  *)

CeilDiv(x, y) == (x + y - 1) \div y
SharesDown(assets) == (assets * (chain.supply + 1)) \div (chain.assets + 1)
SharesUp(assets) == CeilDiv(assets * (chain.supply + 1), chain.assets + 1)
AssetsDown(shares) == (shares * (chain.assets + 1)) \div (chain.supply + 1)
AssetsUp(shares) == CeilDiv(shares * (chain.assets + 1), chain.supply + 1)

Issue(assets, shares) ==
    /\ chain.assets + assets <= MaxAssets
    /\ chain.supply + shares <= MaxSupply
    /\ chain' = [chain EXCEPT !.assets = @ + assets, !.supply = @ + shares]
    /\ UNCHANGED <<store, now, entered, frame, events, ghost>>

Burn(assets, shares) ==
    /\ shares <= chain.supply
    /\ assets <= chain.assets
    /\ chain' = [chain EXCEPT !.assets = @ - assets, !.supply = @ - shares]
    /\ UNCHANGED <<store, now, entered, frame, events, ghost>>

\* Mutant: deposit() without VaultBusy.
DepositWhileBusy(assets) == Issue(assets, SharesDown(assets))

Deposit(assets) == ~entered /\ Issue(assets, SharesDown(assets))

Mint(shares) == ~entered /\ Issue(AssetsUp(shares), shares)

Withdraw(assets) ==
    /\ ~entered
    /\ assets <= AssetsDown(chain.supply)
    /\ Burn(assets, SharesUp(assets))

\* Mutant: the redeemed assets are rounded up.
RedeemRoundedUp(shares) == ~entered /\ Burn(AssetsUp(shares), shares)

Redeem(shares) == ~entered /\ Burn(AssetsDown(shares), shares)

Receive(amount) ==
    /\ chain.eth + amount <= MaxEth
    /\ chain' = [chain EXCEPT !.eth = @ + amount]
    /\ UNCHANGED <<store, now, entered, frame, events, ghost>>

SweepNative(sender, to, amount) ==
    /\ CanCall(sender)
    /\ sender = store.authority
    /\ to # None
    /\ amount <= chain.eth
    /\ chain' = [chain EXCEPT !.eth = @ - amount]
    /\ UNCHANGED <<store, now, entered, frame, events, ghost>>

\* The next block; a transaction sees one timestamp.
Tick ==
    /\ ~entered
    /\ now < MaxTime
    /\ now' = now + 1
    /\ UNCHANGED <<store, chain, entered, frame, events, ghost>>

-----------------------------------------------------------------------------
Administer(sender) ==
    \/ \E a \in Candidates : ProposeAuthority(sender, a)
    \/ AcceptAuthority(sender)
    \/ ResetEpoch(sender)
    \/ \E n \in Nonces : InvalidateNonce(sender, n)
    \/ \E t \in Thresholds : InvalidateNoncesBelow(sender, t)
    \/ \E m \in Revocable : RevokeMandate(sender, m)
    \/ \E to \in Accounts \union {None}, amount \in Amounts : SweepNative(sender, to, amount)

Begin(sender) ==
    \E m \in Mandates, actions \in Batches, signature \in Signature :
        \E proofs \in {Len(actions) - 1, Len(actions)},
           blob \in {n.extensionsHash : n \in Mandates} :
              Execute(sender, m, actions, proofs, signature, blob)

Shares(amount) == Deposit(amount) \/ Mint(amount) \/ Withdraw(amount) \/ Redeem(amount)

MoveBalances(amount) ==
    \/ TokenTransfer(amount)
    \/ PullApproved(amount)
    \/ AssetsArrive(amount)
    \/ Receive(amount)

Next ==
    \/ \E sender \in Accounts : Administer(sender) \/ Begin(sender)
    \/ NextAction
    \/ PostExecution
    \/ Revert
    \/ \E amount \in Amounts : MoveBalances(amount) \/ Shares(amount)
    \/ \E allowed \in BOOLEAN : TokenApprove(allowed)
    \/ Tick

Spec == Init /\ [][Next]_vars
-----------------------------------------------------------------------------
(* Safety *)

Executions == 1..Len(events)

\* A nonce authorises at most one committed execution of its authority, across
\* re-entrancy, reverts, invalidations and authority transfers (_consumeNonce).
NonceAtMostOnce ==
    \A i, j \in Executions :
        (/\ events[i].authority = events[j].authority
         /\ events[i].mandate.nonce = events[j].mandate.nonce) => i = j

\* Every execution is authorised by the one account that held the authority
\* during the epoch its mandate names, even when an adapter accepts the
\* authority in the middle of that execution; and epochs never run backwards
\* (acceptAuthority's increment, the epoch check, the cached authority_).
EpochBarrier ==
    \A i, j \in Executions :
        /\ events[i].mandate.authorityEpoch = events[j].mandate.authorityEpoch
             => events[i].authority = events[j].authority
        /\ i < j => events[i].mandate.authorityEpoch <= events[j].mandate.authorityEpoch

\* Cumulative drawdown: inside one epoch no sequence of executions, whatever
\* moves the balance between them, ends below what the limit of its last
\* mandate allows from the best earlier result (_epochAssets as high-water mark).
NoThousandCuts ==
    \A i, j \in Executions :
        (i < j /\ events[i].period = events[j].period) =>
            events[j].postAssets * BPS
              >= events[i].postAssets * (BPS - events[j].mandate.maxCumulativeDrawdownBps)

\* ... and from the assets the epoch opened with: at the first execution of
\* the vault, or at the last resetEpoch, even one made during an execution.
BaselineProtected ==
    \A i \in Executions :
        events[i].postAssets * BPS
          >= ghost.baselines[events[i].period]
               * (BPS - events[i].mandate.maxCumulativeDrawdownBps)

\* A committed execution costs the holders of shares at most the mandate's
\* drawdown in assets per share, and at most the absolute limit the authority
\* signed: shares minted or burned during it cannot hide a loss from the
\* balance check (VaultBusy guards, checkSingleDrawdown, the extensions hash).
ShareValueKept ==
    [][(entered /\ ~entered') =>
          LET m == frame.mandate
              before == frame.chain
          IN  /\ chain'.assets * before.supply * BPS
                   >= before.assets * chain'.supply * (BPS - m.maxDrawdownBps)
              /\ chain'.assets + MaxSingleAbsoluteLoss(m.extensionsHash) >= before.assets
      ]_vars

\* The storage a transaction that is still running would leave if it reverted.
Committed == IF entered THEN frame.store ELSE store

\* A mandate no execution may use any more: its epoch has passed, or its
\* authority revoked it, or its nonce is used or below the threshold.
Retired(m, s) ==
    \/ m.authorityEpoch < s.authorityEpoch
    \/ /\ m.authorityEpoch = s.authorityEpoch
       /\ \/ m \in s.mandateRevoked
          \/ <<s.authority, m.nonce>> \in s.nonceUsed
          \/ m.nonce < s.nonceThreshold[s.authority]

\* Retirement is final: no sequence of transfers (A to B and back to A),
\* threshold changes or failed executions makes a retired mandate usable.
RetiredForever ==
    [][\A m \in Mandates : Retired(m, Committed) => Retired(m, Committed')]_vars

\* Every executed mandate is retired, and none was before its execution began.
ExecutedOnceThenRetired ==
    /\ \A i \in Executions : Retired(events[i].mandate, Committed)
    /\ entered => ~Retired(frame.mandate, frame.store)

\* The pending authority was named by the current one: a proposal never
\* outlives the authority that made it (acceptAuthority clears it).
PendingByCurrentAuthority ==
    store.pendingAuthority # None => ghost.proposer = store.authority

\* An executor cannot spend the vault's native currency: an execution that
\* an externally owned authority signed, and that did not change the
\* authority, leaves at least what it found (NonZeroActionValue, sweepNative).
NativeKept ==
    [][(/\ entered /\ ~entered'
        /\ frame.authority \notin Contracts
        /\ store'.authorityEpoch = frame.store.authorityEpoch) =>
          chain'.eth >= frame.chain.eth]_vars

\* An execution stays inside what the authority signed, whatever the order or
\* number of extensions in the blob: a mandate open to every executor runs
\* exactly its actions, one that names its executor runs for nobody else, every
\* call is on the adapter root and in each selector allowlist, each absolute
\* limit holds, and no required extension is one the vault does not enforce
\* (validateFields, validateAdapters, _parseExtensions, enforceSelectorAllowlist).
SignedPerimeter ==
    \A i \in Executions :
        LET e == events[i]
            m == e.mandate
            signed == m.extensionsHash
        IN  /\ IF m.executor = None THEN e.actions = m.payloadDigest
               ELSE e.executor = m.executor
            /\ \A k \in 1..Len(e.actions) : \E leaf \in m.allowedAdaptersRoot :
                  leaf[1] = e.actions[k].adapter
            /\ signed.size # 0 => \A x \in 1..Len(signed.exts) :
                  LET ext == signed.exts[x] IN
                  CASE ext.id = SelectorAllowlistId ->
                         \A k \in 1..Len(e.actions) :
                            <<e.actions[k].adapter, e.actions[k].selector>> \in ext.allowed
                    [] ext.id = AbsoluteLossId -> e.preAssets <= e.postAssets + ext.limit
                    [] OTHER -> ~ext.required

\* erc-8192-spec.md, "High-water mark update": the cumulative drawdown "is
\* always measured from the peak value within the epoch".  The peak here is
\* the largest totalAssets() an execution of the epoch itself measured.
PeakCovered ==
    \A i, j \in Executions :
        (i <= j /\ events[i].period = events[j].period) =>
            events[j].postAssets * BPS
              >= events[i].preAssets * (BPS - events[j].mandate.maxCumulativeDrawdownBps)
=============================================================================
