-------------------------- MODULE VaultSafetyProofs --------------------------
(***************************************************************************)
(* The types of MandatedVault, and its safety properties, from the         *)
(* inductive invariant VaultInv, for every value of the constants.         *)
(***************************************************************************)
EXTENDS VaultCustody, SequenceTheorems, WellFoundedInduction, TLAPS

-----------------------------------------------------------------------------
(* Facts about the rules *)

\* The absolute loss limit of any well-typed blob is a natural number.
LEMMA MaxLossType ==
    ASSUME NEW blob \in Blob
    PROVE  MaxSingleAbsoluteLoss(blob) \in Nat
<1> DEFINE at == Applied(blob, AbsoluteLossId)
<1>1. at \subseteq 1..Len(blob.exts)
  BY DEF Applied
<1>2. blob.exts \in Seq(Extension)
  BY DEF Blob
<1>3. ASSUME at # {} PROVE blob.exts[CHOOSE i \in at : TRUE].limit \in Nat
  <2>1. PICK j : j \in at
    BY <1>3
  <2>2. (CHOOSE i \in at : TRUE) \in at
    BY <2>1
  <2>3. blob.exts[CHOOSE i \in at : TRUE] \in Extension
    BY <1>1, <1>2, <2>2
  <2> QED BY <2>3 DEF Extension
<1> QED BY <1>3, LimitsAssumption DEF MaxSingleAbsoluteLoss

\* HighWaterMark is the larger of the two and is one of them.
LEMMA HighWaterMarkIsMax ==
    ASSUME NEW e \in Nat, NEW p \in Nat
    PROVE  /\ HighWaterMark(e, p) \in {e, p}
           /\ HighWaterMark(e, p) >= e /\ HighWaterMark(e, p) >= p
BY DEF HighWaterMark

-----------------------------------------------------------------------------
(* Type correctness *)

\* The types of the fields, which the steps below update one by one.
LEMMA Fields ==
    ASSUME TypeOK
    PROVE  /\ store.authority \in Accounts
           /\ store.pendingAuthority \in Accounts \union {None}
           /\ store.authorityEpoch \in Nat
           /\ store.authorityEpoch + 1 \in Nat
           /\ store.nonceUsed \in SUBSET (Accounts \X Nat)
           /\ store.nonceThreshold \in [Accounts -> Nat]
           /\ store.mandateRevoked \in SUBSET Mandate
           /\ store.epochStart \in Nat /\ store.epochAssets \in Nat
           /\ chain.assets \in Nat /\ chain.supply \in Nat /\ chain.eth \in Nat
           /\ chain.approved \in BOOLEAN
           /\ ghost.baselines \in Seq(Nat)
           /\ Len(ghost.baselines) \in Nat
           /\ ghost.proposer \in Accounts \union {None}
<1>1. store \in Store /\ chain \in Chain /\ ghost \in Ghost
  BY DEF TypeOK
<1>2. /\ store.authority \in Accounts
      /\ store.pendingAuthority \in Accounts \union {None}
      /\ store.authorityEpoch \in Nat
      /\ store.nonceUsed \in SUBSET (Accounts \X Nat)
      /\ store.nonceThreshold \in [Accounts -> Nat]
      /\ store.mandateRevoked \in SUBSET Mandate
      /\ store.epochStart \in Nat /\ store.epochAssets \in Nat
  BY <1>1 DEF Store
<1>3. /\ chain.assets \in Nat /\ chain.supply \in Nat /\ chain.eth \in Nat
      /\ chain.approved \in BOOLEAN
  BY <1>1 DEF Chain
<1>4. ghost.baselines \in Seq(Nat) /\ ghost.proposer \in Accounts \union {None}
  BY <1>1 DEF Ghost
<1> QED BY <1>2, <1>3, <1>4

LEMMA InitTypeOK == Init => TypeOK
<1> SUFFICES ASSUME Init PROVE TypeOK
  OBVIOUS
<1>1. store \in Store
  BY VaultAssumption, AccountsAssumption DEF Init, Store
<1>2. chain \in Chain
  BY DEF Init, Chain
<1>3. ghost \in Ghost
  BY DEF Init, Ghost
<1>4. now \in Nat \ {0} /\ events \in Seq(Event)
  BY DEF Init
<1>5. entered \in BOOLEAN /\ (entered => frame \in Frame)
  BY DEF Init
<1> QED BY <1>1, <1>2, <1>3, <1>4, <1>5 DEF TypeOK

\* A step that touches only the contract's storage and the observer ...
LEMMA StoreStepTypeOK ==
    ASSUME TypeOK, store' \in Store, ghost' \in Ghost,
           UNCHANGED <<chain, now, entered, frame, events>>
    PROVE  TypeOK'
BY DEF TypeOK

\* ... or only the balances.
LEMMA ChainStepTypeOK ==
    ASSUME TypeOK, chain' \in Chain,
           UNCHANGED <<store, now, entered, frame, events, ghost>>
    PROVE  TypeOK'
BY DEF TypeOK

\* The administration entry points keep the types.
LEMMA AdministerTypeOK ==
    ASSUME TypeOK, NEW sender \in Accounts, Administer(sender)
    PROVE  TypeOK'
<1>0. store \in Store /\ chain \in Chain /\ ghost \in Ghost /\ now \in Nat
  BY DEF TypeOK
<1>1. ASSUME NEW a \in Candidates, ProposeAuthority(sender, a) PROVE TypeOK'
  <2>1. store' \in Store
    BY <1>0, <1>1, VaultAssumption DEF ProposeAuthority, Store
  <2>2. ghost' \in Ghost
    BY <1>0, <1>1 DEF ProposeAuthority, Ghost
  <2> QED BY <1>1, <2>1, <2>2, StoreStepTypeOK DEF ProposeAuthority
<1>2. ASSUME AcceptAuthority(sender) PROVE TypeOK'
  <2>1. store.pendingAuthority \in Accounts
    BY <1>2 DEF AcceptAuthority
  <2>2. store' \in Store
    BY <1>0, <1>2, <2>1, Fields DEF AcceptAuthority, Store
  <2> QED BY <1>0, <1>2, <2>2, StoreStepTypeOK DEF AcceptAuthority
<1>3. ASSUME ResetEpoch(sender) PROVE TypeOK'
  <2>1. store' \in Store
    BY <1>0, <1>3, Fields DEF ResetEpoch, Store
  <2>2. Append(ghost.baselines, chain.assets) \in Seq(Nat)
    BY Fields, AppendProperties
  <2>3. ghost' \in Ghost
    BY <1>0, <1>3, <2>2 DEF ResetEpoch, Ghost
  <2> QED BY <1>3, <2>1, <2>3, StoreStepTypeOK DEF ResetEpoch
<1>4. ASSUME NEW n \in Nonces, InvalidateNonce(sender, n) PROVE TypeOK'
  <2>1. store.nonceUsed \union {<<store.authority, n>>} \in SUBSET (Accounts \X Nat)
    BY Fields, VaultAssumption
  <2>2. store' \in Store
    BY <1>0, <1>4, <2>1 DEF InvalidateNonce, Store
  <2> QED BY <1>0, <1>4, <2>2, StoreStepTypeOK DEF InvalidateNonce
<1>5. ASSUME NEW t \in Thresholds, InvalidateNoncesBelow(sender, t) PROVE TypeOK'
  <2>1. [store.nonceThreshold EXCEPT ![store.authority] = t] \in [Accounts -> Nat]
    BY Fields, VaultAssumption
  <2>2. store' = [store EXCEPT !.nonceThreshold =
                       [store.nonceThreshold EXCEPT ![store.authority] = t]]
    BY <1>0, <1>5 DEF InvalidateNoncesBelow, Store
  <2>3. store' \in Store
    BY <1>0, <2>1, <2>2 DEF Store
  <2> QED BY <1>0, <1>5, <2>3, StoreStepTypeOK DEF InvalidateNoncesBelow
<1>6. ASSUME NEW m \in Revocable, RevokeMandate(sender, m) PROVE TypeOK'
  <2>1. store.mandateRevoked \union {m} \in SUBSET Mandate
    BY Fields, VaultAssumption
  <2>2. store' \in Store
    BY <1>0, <1>6, <2>1 DEF RevokeMandate, Store
  <2> QED BY <1>0, <1>6, <2>2, StoreStepTypeOK DEF RevokeMandate
<1>7. ASSUME NEW to, NEW amount \in Amounts, SweepNative(sender, to, amount) PROVE TypeOK'
  <2>1. chain.eth - amount \in Nat
    BY <1>7, Fields, VaultAssumption DEF SweepNative
  <2>2. chain' \in Chain
    BY <1>0, <1>7, <2>1 DEF SweepNative, Chain
  <2> QED BY <1>7, <2>2, ChainStepTypeOK DEF SweepNative
<1> QED BY <1>1, <1>2, <1>3, <1>4, <1>5, <1>6, <1>7 DEF Administer

\* The share conversions divide by a positive number.
LEMMA ConversionTypes ==
    ASSUME TypeOK, NEW n \in Nat
    PROVE  /\ SharesDown(n) \in Nat /\ SharesUp(n) \in Nat
           /\ AssetsDown(n) \in Nat /\ AssetsUp(n) \in Nat
<1>1. \A x, y \in Nat : y > 0 => x \div y \in Nat
  OBVIOUS
<1>2. ASSUME NEW x \in Nat, NEW y \in Nat
      PROVE  n * (x + 1) \in Nat /\ n * (x + 1) + (y + 1) - 1 \in Nat
  OBVIOUS
<1>3. chain.assets \in Nat /\ chain.supply \in Nat
  BY Fields
<1>4. chain.assets + 1 \in Nat /\ chain.assets + 1 > 0
  BY <1>3
<1>5. chain.supply + 1 \in Nat /\ chain.supply + 1 > 0
  BY <1>3
<1>6. SharesDown(n) \in Nat /\ SharesUp(n) \in Nat
  BY <1>1, <1>2, <1>3, <1>4 DEF SharesDown, SharesUp, CeilDiv
<1>7. AssetsDown(n) \in Nat /\ AssetsUp(n) \in Nat
  BY <1>1, <1>2, <1>3, <1>5 DEF AssetsDown, AssetsUp, CeilDiv
<1> QED BY <1>6, <1>7

\* Whatever a batch, a spender or a share holder does to the balances.
LEMMA BalancesTypeOK ==
    ASSUME TypeOK, NEW amount \in Amounts, MoveBalances(amount) \/ Shares(amount)
    PROVE  TypeOK'
<1>0. amount \in Nat /\ chain \in Chain
  BY VaultAssumption DEF TypeOK
<1>a. chain.assets \in Nat /\ chain.supply \in Nat
  BY Fields
<1>1. ASSUME TokenTransfer(amount) \/ PullApproved(amount) PROVE TypeOK'
  <2>0. amount <= chain.assets
    BY <1>1 DEF TokenTransfer, PullApproved
  <2>1. chain.assets - amount \in Nat
    BY <1>0, <1>a, <2>0
  <2>2. chain' \in Chain
    BY <1>0, <1>1, <2>1 DEF TokenTransfer, PullApproved, Chain
  <2> QED BY <1>1, <2>2, ChainStepTypeOK DEF TokenTransfer, PullApproved
<1>2. ASSUME AssetsArrive(amount) \/ Receive(amount) PROVE TypeOK'
  <2>0. chain.assets \in Nat /\ chain.eth \in Nat
    BY Fields
  <2>1. chain.assets + amount \in Nat /\ chain.eth + amount \in Nat
    BY <1>0, <2>0
  <2>2. chain' \in Chain
    BY <1>0, <1>2, <2>1 DEF AssetsArrive, Receive, Chain
  <2> QED BY <1>2, <2>2, ChainStepTypeOK DEF AssetsArrive, Receive
<1>3. ASSUME NEW a \in Nat, NEW b \in Nat, Issue(a, b) PROVE TypeOK'
  <2>1. chain.assets + a \in Nat /\ chain.supply + b \in Nat
    BY <1>a
  <2>2. chain' \in Chain
    BY <1>0, <1>3, <2>1 DEF Issue, Chain
  <2> QED BY <1>3, <2>2, ChainStepTypeOK DEF Issue
<1>4. ASSUME NEW a \in Nat, NEW b \in Nat, Burn(a, b) PROVE TypeOK'
  <2>0. b <= chain.supply /\ a <= chain.assets
    BY <1>4, Zenon DEF Burn
  <2>1. chain.assets - a \in Nat /\ chain.supply - b \in Nat
    BY <1>a, <1>4, <2>0
  <2>2. chain' \in Chain
    BY <1>0, <1>4, <2>1 DEF Burn, Chain
  <2> QED BY <1>4, <2>2, ChainStepTypeOK DEF Burn
<1>5. ASSUME Shares(amount) PROVE TypeOK'
  BY <1>0, <1>3, <1>4, <1>5, ConversionTypes DEF Shares, Deposit, Mint, Withdraw, Redeem
<1> QED BY <1>1, <1>2, <1>5 DEF MoveBalances

\* What execute() establishes before its first action: the arguments have
\* their types and the batch is not empty.
LEMMA ExecuteInputs ==
    ASSUME NEW sender \in Accounts, NEW m \in Mandates, NEW actions \in Batches,
           NEW proofs, NEW signature, NEW blob,
           ValidateMandate(sender, m, actions, proofs, signature, blob)
    PROVE  /\ m \in Mandate /\ actions \in Seq(Action)
           /\ blob = m.extensionsHash /\ blob \in Blob
           /\ m.nonce \in Nat /\ m.authorityEpoch \in Nat
           /\ m.maxDrawdownBps \in 0..BPS /\ m.maxCumulativeDrawdownBps \in 0..BPS
           /\ 1 \in 1..Len(actions) /\ Len(actions) \in Nat
           /\ actions[1] \in Action
<1>1. m \in Mandate /\ actions \in Seq(Action)
  BY VaultAssumption
<1>2. /\ m.nonce \in Nat /\ m.authorityEpoch \in Nat /\ m.extensionsHash \in Blob
      /\ m.maxDrawdownBps \in Nat /\ m.maxCumulativeDrawdownBps \in Nat
  BY <1>1 DEF Mandate
<1>3. Len(actions) \in 1..MAX_ACTIONS /\ BpsOK(m) /\ blob = m.extensionsHash
  BY DEF ValidateMandate, ValidateFields, SizesOK
<1>4. m.maxDrawdownBps \in 0..BPS /\ m.maxCumulativeDrawdownBps \in 0..BPS
  <2>1. m.maxDrawdownBps <= BPS /\ m.maxCumulativeDrawdownBps <= BPS
    BY <1>3 DEF BpsOK
  <2>2. BPS \in Nat
    BY DEF BPS
  <2> QED BY <1>2, <2>1, <2>2
<1>5. Len(actions) \in Nat /\ 1 \in 1..Len(actions)
  BY <1>1, <1>3, LimitsAssumption
<1>6. actions[1] \in Action
  BY <1>1, <1>5
<1> QED BY <1>1, <1>2, <1>3, <1>4, <1>5, <1>6

LEMMA ConsumeNonceType ==
    ASSUME TypeOK, NEW nonce \in Nat
    PROVE  ConsumeNonce(store, store.authority, nonce) \in Store
<1>1. store.nonceUsed \union {<<store.authority, nonce>>} \in SUBSET (Accounts \X Nat)
  BY Fields
<1> QED BY <1>1 DEF TypeOK, Store, ConsumeNonce

LEMMA InitEpochType ==
    ASSUME TypeOK, NEW s \in Store
    PROVE  InitEpoch(s) \in Store
<1>1. chain.assets \in Nat /\ now \in Nat
  BY Fields DEF TypeOK
<1> QED BY <1>1 DEF InitEpoch, Store

\* Paying an action out of the vault's native balance keeps the balances.
LEMMA CallActionType ==
    ASSUME TypeOK, NEW action \in Action, CanPay(action)
    PROVE  CallAction(action) \in Chain
<1>1. action.value \in Nat
  BY DEF Action
<1>2. chain.eth - action.value \in Nat
  BY <1>1, Fields DEF CanPay
<1> QED BY <1>2 DEF CallAction, Chain, TypeOK

LEMMA ExecuteTypeOK ==
    ASSUME TypeOK, NEW sender \in Accounts, Begin(sender)
    PROVE  TypeOK'
<1>1. PICK m \in Mandates, actions \in Batches, signature \in Signature :
        \E proofs \in {Len(actions) - 1, Len(actions)},
           blob \in {n.extensionsHash : n \in Mandates} :
              Execute(sender, m, actions, proofs, signature, blob)
  BY DEF Begin
<1>2. PICK proofs, blob : Execute(sender, m, actions, proofs, signature, blob)
  BY <1>1
<1>3. ValidateMandate(sender, m, actions, proofs, signature, blob)
  BY <1>2 DEF Execute
<1>4. /\ m \in Mandate /\ actions \in Seq(Action) /\ blob \in Blob
      /\ m.nonce \in Nat /\ actions[1] \in Action
  BY <1>3, ExecuteInputs
<1>5. store' \in Store
  BY <1>2, <1>4, ConsumeNonceType, InitEpochType DEF Execute
<1>6. chain' \in Chain
  BY <1>2, <1>4, CallActionType DEF Execute
<1>7. ghost' \in Ghost
  <2>1. Append(ghost.baselines, chain.assets) \in Seq(Nat) /\ ghost \in Ghost
    BY Fields, AppendProperties DEF TypeOK
  <2> QED BY <1>2, <2>1 DEF Execute, Ghost
<1>8. frame' \in Frame
  <2>1. MaxSingleAbsoluteLoss(blob) \in Nat
    BY <1>4, MaxLossType
  <2>2. frame' = [mandate |-> m, actions |-> actions, executor |-> sender,
                  authority |-> store.authority,
                  maxLoss |-> MaxSingleAbsoluteLoss(blob),
                  preAssets |-> chain.assets, i |-> 1,
                  store |-> store, chain |-> chain, ghost |-> ghost]
    BY <1>2 DEF Execute
  <2>3. store \in Store /\ chain \in Chain /\ ghost \in Ghost
    BY DEF TypeOK
  <2>4. store.authority \in Accounts /\ chain.assets \in Nat
    BY Fields
  <2> QED BY <1>4, <2>1, <2>2, <2>3, <2>4 DEF Frame
<1>9. entered' \in BOOLEAN /\ UNCHANGED <<now, events>>
  BY <1>2 DEF Execute
<1> QED BY <1>5, <1>6, <1>7, <1>8, <1>9 DEF TypeOK

\* The fields of a running execution.
LEMMA FrameFields ==
    ASSUME TypeOK, entered
    PROVE  /\ frame \in Frame
           /\ frame.mandate \in Mandate /\ frame.actions \in Seq(Action)
           /\ frame.executor \in Accounts /\ frame.authority \in Accounts
           /\ frame.maxLoss \in Nat /\ frame.preAssets \in Nat /\ frame.i \in Nat
           /\ frame.store \in Store /\ frame.chain \in Chain /\ frame.ghost \in Ghost
           /\ frame.mandate.maxDrawdownBps \in Nat
           /\ frame.mandate.maxCumulativeDrawdownBps \in Nat
           /\ frame.mandate.nonce \in Nat /\ frame.mandate.authorityEpoch \in Nat
<1>1. frame \in Frame
  BY DEF TypeOK
<1>2. /\ frame.mandate \in Mandate /\ frame.actions \in Seq(Action)
      /\ frame.executor \in Accounts /\ frame.authority \in Accounts
      /\ frame.maxLoss \in Nat /\ frame.preAssets \in Nat /\ frame.i \in Nat
      /\ frame.store \in Store /\ frame.chain \in Chain /\ frame.ghost \in Ghost
  BY <1>1 DEF Frame
<1> QED BY <1>1, <1>2 DEF Mandate

LEMMA RunTypeOK ==
    ASSUME TypeOK, NextAction \/ PostExecution \/ Revert \/ Tick
                   \/ \E allowed \in BOOLEAN : TokenApprove(allowed)
    PROVE  TypeOK'
<1>1. ASSUME NextAction PROVE TypeOK'
  <2>1. frame.i + 1 \in 1..Len(frame.actions) /\ frame.i + 1 \in Nat
    BY <1>1, FrameFields DEF NextAction
  <2>2. frame.actions[frame.i + 1] \in Action
    BY <1>1, <2>1, FrameFields DEF NextAction
  <2>3. chain' \in Chain
    BY <1>1, <2>2, CallActionType DEF NextAction
  <2>4. frame' \in Frame
    BY <1>1, <2>1, FrameFields DEF NextAction, Frame
  <2> QED BY <1>1, <2>3, <2>4 DEF NextAction, TypeOK
<1>2. ASSUME PostExecution PROVE TypeOK'
  <2>1. HighWaterMark(store.epochAssets, chain.assets) \in Nat
    BY Fields, HighWaterMarkIsMax
  <2>2. store' \in Store
    BY <1>2, <2>1 DEF PostExecution, Store, TypeOK
  <2>3. MandateExecuted \in Event
    <3>1. Len(ghost.baselines) \in Nat /\ chain.assets \in Nat
      BY Fields
    <3> QED BY <1>2, <3>1, FrameFields DEF MandateExecuted, Event, PostExecution
  <2>4. events' \in Seq(Event)
    BY <1>2, <2>3, AppendProperties DEF PostExecution, TypeOK
  <2> QED BY <1>2, <2>2, <2>4 DEF PostExecution, TypeOK
<1>3. ASSUME Revert PROVE TypeOK'
  BY <1>3, FrameFields DEF Revert, TypeOK
<1>4. ASSUME Tick PROVE TypeOK'
  BY <1>4 DEF Tick, TypeOK
<1>5. ASSUME NEW allowed \in BOOLEAN, TokenApprove(allowed) PROVE TypeOK'
  <2>1. chain' \in Chain
    BY <1>5 DEF TokenApprove, Chain, TypeOK
  <2> QED BY <1>5, <2>1, ChainStepTypeOK DEF TokenApprove
<1> QED BY <1>1, <1>2, <1>3, <1>4, <1>5

\* Every reachable state of the vault has the types the contract declares.
THEOREM TypeCorrect == Spec => []TypeOK
<1>1. TypeOK /\ [Next]_vars => TypeOK'
  <2> SUFFICES ASSUME TypeOK, [Next]_vars PROVE TypeOK'
    OBVIOUS
  <2>1. CASE UNCHANGED vars
    BY <2>1 DEF vars, TypeOK
  <2>2. CASE Next
    BY <2>2, AdministerTypeOK, ExecuteTypeOK, BalancesTypeOK, RunTypeOK DEF Next
  <2> QED BY <2>1, <2>2
<1> QED BY InitTypeOK, <1>1, PTL DEF Spec
-----------------------------------------------------------------------------
(* Storage only grows *)

LEMMA GrowsReflexive ==
    ASSUME NEW s \in Store
    PROVE  Grows(s, s)
BY DEF Grows, Store

LEMMA GrowsTransitive ==
    ASSUME NEW s \in Store, NEW t \in Store, NEW u \in Store,
           Grows(s, t), Grows(t, u)
    PROVE  Grows(s, u)
<1>1. /\ s.authorityEpoch \in Nat /\ t.authorityEpoch \in Nat /\ u.authorityEpoch \in Nat
      /\ \A a \in Accounts : /\ s.nonceThreshold[a] \in Nat
                             /\ t.nonceThreshold[a] \in Nat
                             /\ u.nonceThreshold[a] \in Nat
  BY DEF Store
<1>2. s.authorityEpoch <= u.authorityEpoch
  BY <1>1 DEF Grows
<1>3. s.authorityEpoch = u.authorityEpoch => s.authority = u.authority
  BY <1>1 DEF Grows
<1>4. ASSUME NEW a \in Accounts
      PROVE  s.nonceThreshold[a] <= u.nonceThreshold[a]
  <2>1. s.nonceThreshold[a] <= t.nonceThreshold[a] /\ t.nonceThreshold[a] <= u.nonceThreshold[a]
    BY DEF Grows
  <2> QED BY <1>1, <2>1
<1> QED BY <1>2, <1>3, <1>4 DEF Grows

\* Once no execution may use a mandate, growing storage does not change that.
LEMMA GrowsKeepsRetired ==
    ASSUME NEW s \in Store, NEW t \in Store, Grows(s, t),
           NEW m \in Mandate, Retired(m, s)
    PROVE  Retired(m, t)
<1>1. /\ s.authorityEpoch \in Nat /\ t.authorityEpoch \in Nat
      /\ s.authority \in Accounts
      /\ \A a \in Accounts : s.nonceThreshold[a] \in Nat /\ t.nonceThreshold[a] \in Nat
  BY DEF Store
<1>2. m.authorityEpoch \in Nat /\ m.nonce \in Nat
  BY DEF Mandate
<1>3. CASE m.authorityEpoch < t.authorityEpoch
  BY <1>3 DEF Retired
<1>4. CASE ~(m.authorityEpoch < t.authorityEpoch)
  <2>1. /\ m.authorityEpoch = s.authorityEpoch /\ s.authorityEpoch = t.authorityEpoch
        /\ s.authority = t.authority
    BY <1>1, <1>2, <1>4 DEF Retired, Grows
  <2>2. \/ m \in s.mandateRevoked
        \/ <<s.authority, m.nonce>> \in s.nonceUsed
        \/ m.nonce < s.nonceThreshold[s.authority]
    BY <1>1, <1>2, <2>1 DEF Retired
  <2>3. s.nonceThreshold[s.authority] <= t.nonceThreshold[s.authority]
    BY <1>1 DEF Grows
  <2>4. \/ m \in t.mandateRevoked
        \/ <<t.authority, m.nonce>> \in t.nonceUsed
        \/ m.nonce < t.nonceThreshold[t.authority]
    BY <1>1, <1>2, <2>1, <2>2, <2>3 DEF Grows
  <2> QED BY <2>1, <2>4 DEF Retired
<1> QED BY <1>3, <1>4

\* The fields of an event.
LEMMA EventFields ==
    ASSUME TypeOK, NEW i \in Executions
    PROVE  /\ events[i] \in Event
           /\ events[i].mandate \in Mandate
           /\ events[i].mandate.authorityEpoch \in Nat
           /\ events[i].mandate.nonce \in Nat
           /\ events[i].mandate.maxCumulativeDrawdownBps \in Nat
           /\ events[i].postAssets \in Nat /\ events[i].period \in Nat
           /\ events[i].authority \in Accounts
<1>1. events[i] \in Event
  BY DEF TypeOK, Executions
<1>2. /\ events[i].mandate \in Mandate /\ events[i].postAssets \in Nat
      /\ events[i].period \in Nat /\ events[i].authority \in Accounts
  BY <1>1 DEF Event
<1> QED BY <1>1, <1>2 DEF Mandate

LEMMA GrowsKeepsSpent ==
    ASSUME TypeOK, NEW s \in Store, NEW t \in Store, Grows(s, t), Spent(s)
    PROVE  Spent(t)
<1> SUFFICES ASSUME NEW i \in Executions
             PROVE  /\ Key(events[i]) \in t.nonceUsed
                    /\ events[i].mandate.authorityEpoch <= t.authorityEpoch
                    /\ events[i].mandate.authorityEpoch = t.authorityEpoch
                         => events[i].authority = t.authority
  BY DEF Spent
<1>1. s.authorityEpoch \in Nat /\ t.authorityEpoch \in Nat
  BY DEF Store
<1>2. events[i].mandate.authorityEpoch \in Nat
  BY EventFields
<1>3. /\ Key(events[i]) \in s.nonceUsed
      /\ events[i].mandate.authorityEpoch <= s.authorityEpoch
      /\ events[i].mandate.authorityEpoch = s.authorityEpoch
           => events[i].authority = s.authority
  BY DEF Spent
<1> QED BY <1>1, <1>2, <1>3 DEF Grows

-----------------------------------------------------------------------------
(* The circuit breaker *)

LEMMA ProductMonotone ==
    ASSUME NEW x \in Nat, NEW y \in Nat, NEW k \in Nat, x <= y
    PROVE  x * k <= y * k
OBVIOUS

\* What a passed cumulative check says about any assets x the mark covers.
LEMMA BreakerBound ==
    ASSUME NEW e \in Nat, NEW p \in Nat, NEW b \in 0..BPS, NEW x \in Nat, x <= e,
           CheckCumulativeDrawdown(e, p, b)
    PROVE  p * BPS >= x * (BPS - b)
<1>1. BPS - b \in Nat /\ BPS \in Nat /\ b \in Nat /\ BPS - b <= BPS
  BY DEF BPS
<1>2. e * (BPS - b) = e * BPS - e * b
  BY <1>1
<1>3. x * (BPS - b) <= e * (BPS - b)
  BY <1>1, ProductMonotone
<1>4. CASE e <= p
  <2>1. e * (BPS - b) <= p * (BPS - b)
    BY <1>1, <1>4, ProductMonotone
  <2>2. (BPS - b) * p <= BPS * p
    BY <1>1, ProductMonotone
  <2>3. /\ x * (BPS - b) \in Int /\ e * (BPS - b) \in Int
        /\ p * (BPS - b) \in Int /\ p * BPS \in Int
        /\ (BPS - b) * p = p * (BPS - b) /\ BPS * p = p * BPS
    BY <1>1
  <2> QED BY <1>3, <2>1, <2>2, <2>3
<1>5. CASE e > p
  <2>1. (e - p) * BPS <= e * b
    BY <1>5 DEF CheckCumulativeDrawdown, LossWithin
  <2>2. (e - p) * BPS = e * BPS - p * BPS
    BY <1>1
  <2>3. /\ e * BPS \in Int /\ p * BPS \in Int /\ e * b \in Int
        /\ x * (BPS - b) \in Int
    BY <1>1
  <2> QED BY <1>2, <1>3, <2>1, <2>2, <2>3
<1> QED BY <1>4, <1>5

-----------------------------------------------------------------------------
(* Steps that neither begin nor end an execution *)

\* What administration, balance changes and the clock have in common.
Ordinary ==
    /\ Grows(store, store')
    /\ store.epochStart # 0 => store'.epochStart # 0
    /\ Prefix(ghost.baselines, ghost'.baselines)
    /\ Marked(store, ghost) => Marked(store', ghost')
    /\ Proposed(store, ghost) => Proposed(store', ghost')
    /\ entered => chain'.supply = chain.supply
    /\ UNCHANGED <<entered, frame, events>>

LEMMA PrefixReflexive ==
    ASSUME NEW s \in Seq(Nat)
    PROVE  Prefix(s, s)
BY DEF Prefix

LEMMA PrefixAppend ==
    ASSUME NEW s \in Seq(Nat), NEW x \in Nat
    PROVE  /\ Prefix(s, Append(s, x))
           /\ Len(Append(s, x)) = Len(s) + 1
           /\ Append(s, x)[Len(s) + 1] = x
           /\ Append(s, x) \in Seq(Nat)
BY AppendProperties DEF Prefix

LEMMA PrefixTransitive ==
    ASSUME NEW r \in Seq(Nat), NEW s \in Seq(Nat), NEW t \in Seq(Nat),
           Prefix(r, s), Prefix(s, t)
    PROVE  Prefix(r, t)
<1>1. Len(r) \in Nat /\ Len(s) \in Nat /\ Len(t) \in Nat
  OBVIOUS
<1>2. ASSUME NEW k \in 1..Len(r) PROVE r[k] = t[k]
  <2>1. k \in 1..Len(s)
    BY <1>1 DEF Prefix
  <2> QED BY <2>1 DEF Prefix
<1> QED BY <1>1, <1>2 DEF Prefix

\* Storage and observer stay as they are.
LEMMA OrdinaryBalances ==
    ASSUME TypeOK, UNCHANGED <<store, entered, frame, events, ghost>>,
           entered => chain'.supply = chain.supply
    PROVE  Ordinary
<1>1. Grows(store, store') /\ Prefix(ghost.baselines, ghost'.baselines)
  BY GrowsReflexive, PrefixReflexive, Fields DEF TypeOK
<1> QED BY <1>1 DEF Ordinary

\* A new proposal, a used nonce, a threshold or a revocation leaves the mark.
LEMMA MarkedUnlessReset ==
    ASSUME store'.epochStart = store.epochStart, store'.epochAssets = store.epochAssets,
           ghost'.baselines = ghost.baselines, Marked(store, ghost)
    PROVE  Marked(store', ghost')
BY DEF Marked

LEMMA OrdinaryAdminister ==
    ASSUME TypeOK, Periods, entered => Running, NEW sender \in Accounts, Administer(sender)
    PROVE  Ordinary
<1>0. /\ store \in Store /\ ghost \in Ghost /\ store' \in Store
      /\ Prefix(ghost.baselines, ghost.baselines)
  BY AdministerTypeOK, PrefixReflexive, Fields DEF TypeOK
<1>t. \A a \in Accounts : store.nonceThreshold[a] \in Nat
  BY Fields
<1>1. ASSUME NEW a \in Candidates, ProposeAuthority(sender, a) PROVE Ordinary
  <2>1. /\ store' = [store EXCEPT !.pendingAuthority = a]
        /\ ghost' = [ghost EXCEPT !.proposer = IF a = None THEN None ELSE sender]
        /\ sender = store.authority
        /\ UNCHANGED <<chain, now, entered, frame, events>>
    BY <1>1 DEF ProposeAuthority
  <2>a. /\ store'.epochStart = store.epochStart /\ store'.epochAssets = store.epochAssets
        /\ ghost'.baselines = ghost.baselines
    BY <1>0, <2>1 DEF Store, Ghost
  <2>b. Grows(store, store')
    BY <1>0, <1>t, <2>1 DEF Store, Grows
  <2>2. /\ store'.epochStart = store.epochStart /\ store'.epochAssets = store.epochAssets
        /\ ghost'.baselines = ghost.baselines
        /\ Grows(store, store')
    BY <2>a, <2>b
  <2>3. Proposed(store', ghost')
    BY <1>0, <2>1 DEF Proposed, Store, Ghost
  <2> QED BY <1>0, <2>1, <2>2, <2>3, MarkedUnlessReset DEF Ordinary
<1>2. ASSUME AcceptAuthority(sender) PROVE Ordinary
  <2>1. /\ store' = [store EXCEPT !.authority = store.pendingAuthority,
                                  !.pendingAuthority = None,
                                  !.authorityEpoch = store.authorityEpoch + 1]
        /\ UNCHANGED <<chain, now, entered, frame, events, ghost>>
    BY <1>2 DEF AcceptAuthority
  <2>2. /\ store'.epochStart = store.epochStart /\ store'.epochAssets = store.epochAssets
        /\ store'.pendingAuthority = None
        /\ store'.authorityEpoch = store.authorityEpoch + 1
        /\ store'.nonceUsed = store.nonceUsed /\ store'.mandateRevoked = store.mandateRevoked
        /\ store'.nonceThreshold = store.nonceThreshold
    BY <1>0, <2>1 DEF Store
  <2>3. Grows(store, store')
    BY <1>t, <2>2, Fields DEF Grows
  <2> QED BY <1>0, <2>1, <2>2, <2>3, MarkedUnlessReset DEF Ordinary, Proposed
<1>3. ASSUME ResetEpoch(sender) PROVE Ordinary
  <2>1. /\ store' = [store EXCEPT !.epochAssets = chain.assets, !.epochStart = now]
        /\ ghost' = [ghost EXCEPT !.baselines = Append(ghost.baselines, chain.assets)]
        /\ UNCHANGED <<chain, now, entered, frame, events>>
    BY <1>3 DEF ResetEpoch
  <2>2. /\ store'.epochStart = now /\ store'.epochAssets = chain.assets
        /\ ghost'.baselines = Append(ghost.baselines, chain.assets)
        /\ ghost'.proposer = ghost.proposer
        /\ store'.pendingAuthority = store.pendingAuthority
        /\ store'.authority = store.authority
        /\ store'.authorityEpoch = store.authorityEpoch
        /\ store'.nonceUsed = store.nonceUsed /\ store'.mandateRevoked = store.mandateRevoked
        /\ store'.nonceThreshold = store.nonceThreshold
    BY <1>0, <2>1 DEF Store, Ghost
  <2>3. /\ ghost.baselines \in Seq(Nat) /\ chain.assets \in Nat
        /\ now \in Nat /\ now # 0 /\ Len(ghost.baselines) \in Nat
    BY Fields DEF TypeOK
  <2>4. /\ Prefix(ghost.baselines, ghost'.baselines)
        /\ Len(ghost'.baselines) = Len(ghost.baselines) + 1
        /\ ghost'.baselines[Len(ghost.baselines) + 1] = chain.assets
    BY <2>2, <2>3, PrefixAppend
  <2>5. Grows(store, store')
    BY <1>t, <2>2, Fields DEF Grows
  <2>6. ASSUME NEW i \in Executions PROVE events[i].period # Len(ghost'.baselines)
    <3>1. events[i].period \in 1..Len(CommittedGhost.baselines)
      BY DEF Periods
    <3>2. Len(CommittedGhost.baselines) \in Nat
          /\ Len(CommittedGhost.baselines) <= Len(ghost.baselines)
      <4>1. CASE entered
        <5>1. frame.ghost.baselines \in Seq(Nat)
          BY <4>1, FrameFields DEF Ghost
        <5> QED BY <4>1, <5>1 DEF CommittedGhost, Running, Prefix
      <4>2. CASE ~entered
        BY <2>3, <4>2 DEF CommittedGhost
      <4> QED BY <4>1, <4>2
    <3> QED BY <2>3, <2>4, <3>1, <3>2
  <2>7. Marked(store', ghost')
    <3>1. Len(ghost'.baselines) > 0
      BY <2>3, <2>4
    <3>2. ghost'.baselines[Len(ghost'.baselines)] <= store'.epochAssets
      BY <2>2, <2>3, <2>4
    <3> QED BY <2>2, <2>3, <2>6, <3>1, <3>2 DEF Marked
  <2> QED BY <2>1, <2>2, <2>3, <2>4, <2>5, <2>7 DEF Ordinary, Proposed
<1>4. ASSUME NEW n \in Nonces, InvalidateNonce(sender, n) PROVE Ordinary
  <2>1. /\ store' = [store EXCEPT !.nonceUsed = store.nonceUsed \union {<<store.authority, n>>}]
        /\ UNCHANGED <<chain, now, entered, frame, events, ghost>>
    BY <1>4 DEF InvalidateNonce
  <2>2. /\ store'.epochStart = store.epochStart /\ store'.epochAssets = store.epochAssets
        /\ store'.pendingAuthority = store.pendingAuthority
        /\ store'.authority = store.authority
        /\ Grows(store, store')
    BY <1>0, <1>t, <2>1 DEF Store, Grows
  <2> QED BY <1>0, <2>1, <2>2, MarkedUnlessReset DEF Ordinary, Proposed
<1>5. ASSUME NEW t \in Thresholds, InvalidateNoncesBelow(sender, t) PROVE Ordinary
  <2>1. /\ store' = [store EXCEPT !.nonceThreshold =
                        [store.nonceThreshold EXCEPT ![store.authority] = t]]
        /\ t > store.nonceThreshold[store.authority]
        /\ UNCHANGED <<chain, now, entered, frame, events, ghost>>
    BY <1>0, <1>5 DEF InvalidateNoncesBelow, Store
  <2>2. /\ store'.epochStart = store.epochStart /\ store'.epochAssets = store.epochAssets
        /\ store'.pendingAuthority = store.pendingAuthority
        /\ store'.authority = store.authority
        /\ store'.authorityEpoch = store.authorityEpoch
        /\ store'.nonceUsed = store.nonceUsed /\ store'.mandateRevoked = store.mandateRevoked
        /\ store'.nonceThreshold = [store.nonceThreshold EXCEPT ![store.authority] = t]
    BY <1>0, <2>1 DEF Store
  <2>3. ASSUME NEW a \in Accounts
        PROVE  store.nonceThreshold[a] <= store'.nonceThreshold[a]
    BY <1>t, <2>1, <2>2, Fields, VaultAssumption
  <2>4. Grows(store, store')
    BY <2>2, <2>3, Fields DEF Grows
  <2> QED BY <1>0, <2>1, <2>2, <2>4, MarkedUnlessReset DEF Ordinary, Proposed
<1>6. ASSUME NEW m \in Revocable, RevokeMandate(sender, m) PROVE Ordinary
  <2>1. /\ store' = [store EXCEPT !.mandateRevoked = store.mandateRevoked \union {m}]
        /\ UNCHANGED <<chain, now, entered, frame, events, ghost>>
    BY <1>6 DEF RevokeMandate
  <2>2. /\ store'.epochStart = store.epochStart /\ store'.epochAssets = store.epochAssets
        /\ store'.pendingAuthority = store.pendingAuthority
        /\ store'.authority = store.authority
        /\ Grows(store, store')
    BY <1>0, <1>t, <2>1 DEF Store, Grows
  <2> QED BY <1>0, <2>1, <2>2, MarkedUnlessReset DEF Ordinary, Proposed
<1>7. ASSUME NEW to, NEW amount, SweepNative(sender, to, amount) PROVE Ordinary
  <2>1. chain'.supply = chain.supply
    BY <1>7 DEF SweepNative, Chain, TypeOK
  <2> QED BY <1>7, <2>1, OrdinaryBalances DEF SweepNative
<1> QED BY <1>1, <1>2, <1>3, <1>4, <1>5, <1>6, <1>7 DEF Administer

\* VaultBusy: shares are neither minted nor burned while an execution runs.
LEMMA OrdinaryMoves ==
    ASSUME TypeOK, NEW amount \in Amounts, MoveBalances(amount) \/ Shares(amount)
    PROVE  Ordinary
<1>0. chain \in Chain
  BY DEF TypeOK
<1>1. ASSUME MoveBalances(amount) PROVE Ordinary
  <2>1. chain'.supply = chain.supply
    BY <1>0, <1>1 DEF MoveBalances, TokenTransfer, PullApproved, AssetsArrive, Receive, Chain
  <2>2. UNCHANGED <<store, entered, frame, events, ghost>>
    BY <1>1 DEF MoveBalances, TokenTransfer, PullApproved, AssetsArrive, Receive
  <2> QED BY <2>1, <2>2, OrdinaryBalances
<1>2. ASSUME Shares(amount) PROVE Ordinary
  <2>1. ~entered /\ UNCHANGED <<store, entered, frame, events, ghost>>
    BY <1>2 DEF Shares, Deposit, Mint, Withdraw, Redeem, Issue, Burn
  <2> QED BY <2>1, OrdinaryBalances
<1> QED BY <1>1, <1>2

LEMMA OrdinaryClock ==
    ASSUME TypeOK, Tick \/ \E allowed \in BOOLEAN : TokenApprove(allowed)
    PROVE  Ordinary
<1>1. chain'.supply = chain.supply
  BY DEF Tick, TokenApprove, Chain, TypeOK
<1> QED BY <1>1, OrdinaryBalances DEF Tick, TokenApprove

-----------------------------------------------------------------------------
(* The invariant is inductive *)

LEMMA OrdinaryKeepsInv ==
    ASSUME VaultInv, TypeOK', Ordinary
    PROVE  VaultInv'
<1>0. TypeOK /\ store \in Store /\ store' \in Store /\ UNCHANGED <<entered, frame, events>>
  BY DEF VaultInv, TypeOK, Ordinary
<1>1. CASE ~entered
  <2>1. /\ Committed = store /\ Committed' = store'
        /\ CommittedGhost = ghost /\ CommittedGhost' = ghost'
    BY <1>0, <1>1 DEF Committed, CommittedGhost
  <2>2. Spent(store')
    BY <1>0, <2>1, GrowsKeepsSpent DEF VaultInv, Ordinary
  <2>3. Marked(store', ghost') /\ Proposed(store', ghost')
    BY DEF VaultInv, Ordinary
  <2>4. Periods'
    <3>1. ghost.baselines \in Seq(Nat) /\ ghost'.baselines \in Seq(Nat)
      BY <1>0 DEF TypeOK, Ghost
    <3>2. Len(ghost.baselines) <= Len(ghost'.baselines)
      BY DEF Ordinary, Prefix
    <3>3. ASSUME NEW i \in Executions PROVE events[i].period \in 1..Len(ghost'.baselines)
      BY <2>1, <3>1, <3>2 DEF VaultInv, Periods
    <3> QED BY <1>0, <2>1, <3>3 DEF Periods, Executions
  <2>5. BaselineProtected'
    <3>1. ASSUME NEW i \in Executions
          PROVE  ghost'.baselines[events[i].period] = ghost.baselines[events[i].period]
      BY <2>1 DEF VaultInv, Periods, Ordinary, Prefix
    <3> QED BY <1>0, <3>1 DEF VaultInv, BaselineProtected, Executions
  <2>6. NonceAtMostOnce' /\ EpochBarrier' /\ NoThousandCuts'
    BY <1>0 DEF VaultInv, NonceAtMostOnce, EpochBarrier, NoThousandCuts, Executions
  <2>7. Spent(Committed)' /\ Marked(store, ghost)' /\ Marked(Committed, CommittedGhost)'
        /\ Proposed(store, ghost)' /\ Proposed(Committed, CommittedGhost)'
    BY <1>0, <2>1, <2>2, <2>3 DEF Spent, Marked, Proposed, Executions
  <2> QED BY <1>0, <1>1, <2>4, <2>5, <2>6, <2>7 DEF VaultInv
<1>2. CASE entered
  <2>1. /\ Committed = frame.store /\ Committed' = frame.store
        /\ CommittedGhost = frame.ghost /\ CommittedGhost' = frame.ghost
    BY <1>0, <1>2 DEF Committed, CommittedGhost
  <2>2. Marked(store', ghost') /\ Proposed(store', ghost')
    BY DEF VaultInv, Ordinary
  <2>3. Running'
    <3>1. Grows(frame.store, store')
      BY <1>0, <1>2, FrameFields, GrowsTransitive DEF VaultInv, Running, Ordinary
    <3>2. Prefix(frame.ghost.baselines, ghost'.baselines)
      <4>1. /\ ghost.baselines \in Seq(Nat) /\ ghost'.baselines \in Seq(Nat)
            /\ frame.ghost.baselines \in Seq(Nat)
        BY <1>0, <1>2, FrameFields DEF TypeOK, Ghost
      <4> QED BY <1>2, <4>1, PrefixTransitive DEF VaultInv, Running, Ordinary
    <3>3. Key(frame) \in store'.nonceUsed
      BY <1>2 DEF VaultInv, Running, Ordinary, Grows
    <3>4. store'.epochStart # 0 /\ chain'.supply = frame.chain.supply
      BY <1>2 DEF VaultInv, Running, Ordinary
    <3>5. Key(frame)' = Key(frame) /\ Retired(frame.mandate, frame.store)' = Retired(frame.mandate, frame.store)
      BY <1>0 DEF Key, Retired
    <3> QED BY <1>0, <1>2, <3>1, <3>2, <3>3, <3>4, <3>5 DEF VaultInv, Running
  <2>4. Periods'
    BY <1>0, <2>1 DEF VaultInv, Periods, Executions
  <2>5. BaselineProtected'
    <3>1. ASSUME NEW i \in Executions
          PROVE  ghost'.baselines[events[i].period] = ghost.baselines[events[i].period]
      <4>1. events[i].period \in 1..Len(frame.ghost.baselines)
        BY <2>1 DEF VaultInv, Periods
      <4> QED BY <1>0, <1>2, <2>3, <4>1 DEF VaultInv, Running, Prefix
    <3> QED BY <1>0, <3>1 DEF VaultInv, BaselineProtected, Executions
  <2>6. NonceAtMostOnce' /\ EpochBarrier' /\ NoThousandCuts'
    BY <1>0 DEF VaultInv, NonceAtMostOnce, EpochBarrier, NoThousandCuts, Executions
  <2>7. Spent(Committed)' /\ Marked(store, ghost)' /\ Marked(Committed, CommittedGhost)'
        /\ Proposed(store, ghost)' /\ Proposed(Committed, CommittedGhost)'
    BY <1>0, <2>1, <2>2 DEF VaultInv, Spent, Marked, Proposed, Executions
  <2> QED BY <1>0, <2>3, <2>4, <2>5, <2>6, <2>7 DEF VaultInv
<1> QED BY <1>0, <1>1, <1>2 DEF TypeOK

\* Opening an execution: the snapshot it takes is the storage it began with.
LEMMA BeginKeepsInv ==
    ASSUME VaultInv, NEW sender \in Accounts, Begin(sender)
    PROVE  VaultInv'
<1>0. TypeOK /\ TypeOK'
  BY ExecuteTypeOK DEF VaultInv
<1>1. PICK m \in Mandates, actions \in Batches, signature \in Signature :
        \E proofs \in {Len(actions) - 1, Len(actions)},
           blob \in {n.extensionsHash : n \in Mandates} :
              Execute(sender, m, actions, proofs, signature, blob)
  BY DEF Begin
<1>2. PICK proofs, blob : Execute(sender, m, actions, proofs, signature, blob)
  BY <1>1
<1>3. ValidateMandate(sender, m, actions, proofs, signature, blob)
  BY <1>2 DEF Execute
<1>4. /\ m \in Mandate /\ blob = m.extensionsHash
      /\ m.nonce \in Nat /\ m.authorityEpoch \in Nat
      /\ m.maxDrawdownBps \in 0..BPS /\ m.maxCumulativeDrawdownBps \in 0..BPS
      /\ actions[1] \in Action
  BY <1>3, ExecuteInputs
<1>5. /\ m.authorityEpoch = store.authorityEpoch
      /\ m \notin store.mandateRevoked
      /\ m.nonce >= store.nonceThreshold[store.authority]
      /\ <<store.authority, m.nonce>> \notin store.nonceUsed
  BY <1>3 DEF ValidateMandate, ValidateFields, NonceFree
<1>6. /\ ~entered /\ entered' /\ UNCHANGED <<now, events>>
      /\ store' = InitEpoch(ConsumeNonce(store, store.authority, m.nonce))
      /\ chain' = CallAction(actions[1])
      /\ ghost' = IF store.epochStart = 0
                  THEN [ghost EXCEPT !.baselines = Append(ghost.baselines, chain.assets)]
                  ELSE ghost
      /\ frame' = [mandate |-> m, actions |-> actions, executor |-> sender,
                   authority |-> store.authority,
                   maxLoss |-> MaxSingleAbsoluteLoss(blob),
                   preAssets |-> chain.assets, i |-> 1,
                   store |-> store, chain |-> chain, ghost |-> ghost]
    BY <1>2 DEF Execute
<1>7. /\ frame'.mandate = m /\ frame'.authority = store.authority
      /\ frame'.store = store /\ frame'.chain = chain /\ frame'.ghost = ghost
      /\ frame'.preAssets = chain.assets /\ frame'.maxLoss = MaxSingleAbsoluteLoss(blob)
  BY <1>6
<1>8. /\ Committed = store /\ Committed' = store
      /\ CommittedGhost = ghost /\ CommittedGhost' = ghost
  BY <1>6, <1>7 DEF Committed, CommittedGhost
<1>9. /\ store \in Store /\ ghost \in Ghost /\ chain \in Chain
      /\ ghost.baselines \in Seq(Nat) /\ chain.assets \in Nat
      /\ Len(ghost.baselines) \in Nat /\ now \in Nat /\ now # 0
      /\ store.epochStart \in Nat /\ store.epochAssets \in Nat
      /\ \A a \in Accounts : store.nonceThreshold[a] \in Nat
      /\ store.authority \in Accounts /\ store.authorityEpoch \in Nat
  BY <1>0, Fields DEF TypeOK
<1>10. /\ store'.nonceUsed = store.nonceUsed \union {<<store.authority, m.nonce>>}
       /\ store'.authority = store.authority
       /\ store'.pendingAuthority = store.pendingAuthority
       /\ store'.authorityEpoch = store.authorityEpoch
       /\ store'.mandateRevoked = store.mandateRevoked
       /\ store'.nonceThreshold = store.nonceThreshold
       /\ store'.epochStart = IF store.epochStart = 0 THEN now ELSE store.epochStart
       /\ store'.epochAssets = IF store.epochStart = 0 THEN chain.assets ELSE store.epochAssets
  BY <1>6, <1>9 DEF ConsumeNonce, InitEpoch, Store
<1>11. /\ ghost'.proposer = ghost.proposer
       /\ ghost'.baselines = IF store.epochStart = 0
                             THEN Append(ghost.baselines, chain.assets)
                             ELSE ghost.baselines
  BY <1>6, <1>9 DEF Ghost
<1>12. Prefix(ghost.baselines, ghost'.baselines)
  BY <1>9, <1>11, PrefixAppend, PrefixReflexive
<1>13. Running'
  <2>1. Grows(store, store')
    BY <1>9, <1>10 DEF Grows
  <2>2. ~Retired(m, store)
    BY <1>4, <1>5, <1>9 DEF Retired
  <2>3. chain'.supply = chain.supply
    BY <1>6, <1>9 DEF CallAction, Chain
  <2>4. Key(frame') = <<store.authority, m.nonce>>
    BY <1>7 DEF Key
  <2>5. store'.epochStart # 0
    BY <1>9, <1>10
  <2> QED BY <1>4, <1>5, <1>7, <1>10, <1>12, <2>1, <2>2, <2>3, <2>4, <2>5 DEF Running, Retired, Key
<1>14. Marked(store', ghost')
  <2>1. CASE store.epochStart # 0
    BY <1>10, <1>11, <2>1 DEF VaultInv, Marked
  <2>2. CASE store.epochStart = 0
    <3>1. Len(ghost.baselines) = 0
      BY <2>2 DEF VaultInv, Marked
    <3>2. Executions = {}
      <4>1. \A i \in Executions : events[i].period \in 1..0
        BY <1>8, <3>1 DEF VaultInv, Periods
      <4> QED BY <4>1
    <3>3. Len(ghost'.baselines) = 1 /\ ghost'.baselines[1] = chain.assets
      BY <1>9, <1>11, <2>2, <3>1, PrefixAppend
    <3> QED BY <1>9, <1>10, <2>2, <3>2, <3>3 DEF Marked
  <2> QED BY <2>1, <2>2
<1>15. BaselineProtected'
  <2>1. ASSUME NEW i \in Executions
        PROVE  ghost'.baselines[events[i].period] = ghost.baselines[events[i].period]
    BY <1>8, <1>12 DEF VaultInv, Periods, Prefix
  <2> QED BY <1>6, <2>1 DEF VaultInv, BaselineProtected, Executions
<1>16. NonceAtMostOnce' /\ EpochBarrier' /\ NoThousandCuts' /\ Periods'
  BY <1>6, <1>8 DEF VaultInv, NonceAtMostOnce, EpochBarrier, NoThousandCuts, Executions, Periods
<1>17. Proposed(store', ghost')
  BY <1>10, <1>11 DEF VaultInv, Proposed
<1>18. Spent(Committed)' /\ Marked(store, ghost)' /\ Marked(Committed, CommittedGhost)'
        /\ Proposed(store, ghost)' /\ Proposed(Committed, CommittedGhost)'
  BY <1>6, <1>8, <1>14, <1>17 DEF VaultInv, Spent, Marked, Proposed, Executions
<1> QED BY <1>0, <1>13, <1>15, <1>16, <1>18 DEF VaultInv

\* The next call of a batch changes no more than the native balance.
LEMMA NextActionKeepsInv ==
    ASSUME VaultInv, NextAction
    PROVE  VaultInv'
<1>0. TypeOK /\ TypeOK'
  BY RunTypeOK DEF VaultInv
<1>1. /\ entered /\ entered' /\ UNCHANGED <<store, now, events, ghost>>
      /\ frame' = [frame EXCEPT !.i = frame.i + 1]
      /\ chain' = CallAction(frame.actions[frame.i + 1])
  BY DEF NextAction
<1>2. /\ frame'.mandate = frame.mandate /\ frame'.authority = frame.authority
      /\ frame'.store = frame.store /\ frame'.chain = frame.chain
      /\ frame'.ghost = frame.ghost /\ frame'.preAssets = frame.preAssets
      /\ frame'.maxLoss = frame.maxLoss
  BY <1>0, <1>1, FrameFields DEF Frame
<1>3. chain'.supply = chain.supply
  BY <1>0, <1>1 DEF CallAction, Chain, TypeOK
<1>4. Running'
  BY <1>1, <1>2, <1>3 DEF VaultInv, Running, Retired, Key
<1>5. /\ Committed' = Committed /\ CommittedGhost' = CommittedGhost
      /\ Executions' = Executions
  BY <1>1, <1>2 DEF Committed, CommittedGhost, Executions
<1>6. /\ Spent(Committed)' /\ NonceAtMostOnce' /\ EpochBarrier'
      /\ Marked(store, ghost)' /\ Marked(Committed, CommittedGhost)'
      /\ Periods' /\ NoThousandCuts' /\ BaselineProtected'
      /\ Proposed(store, ghost)' /\ Proposed(Committed, CommittedGhost)'
  BY <1>1, <1>5 DEF VaultInv, Spent, NonceAtMostOnce, EpochBarrier, Marked, Periods,
                    NoThousandCuts, BaselineProtected, Proposed
<1> QED BY <1>0, <1>4, <1>6 DEF VaultInv

\* Undoing an execution returns to a state the invariant already covers.
LEMMA RevertKeepsInv ==
    ASSUME VaultInv, Revert
    PROVE  VaultInv'
<1>0. TypeOK /\ TypeOK'
  BY RunTypeOK DEF VaultInv
<1>1. /\ entered /\ ~entered' /\ UNCHANGED <<now, events>>
      /\ store' = frame.store /\ ghost' = frame.ghost
  BY DEF Revert
<1>2. /\ Committed = frame.store /\ Committed' = frame.store
      /\ CommittedGhost = frame.ghost /\ CommittedGhost' = frame.ghost
      /\ Executions' = Executions
  BY <1>1 DEF Committed, CommittedGhost, Executions
<1>3. BaselineProtected'
  <2>1. ASSUME NEW i \in Executions
        PROVE  frame.ghost.baselines[events[i].period] = ghost.baselines[events[i].period]
    BY <1>1, <1>2 DEF VaultInv, Periods, Running, Prefix
  <2> QED BY <1>1, <1>2, <2>1 DEF VaultInv, BaselineProtected
<1>4. /\ Spent(Committed)' /\ NonceAtMostOnce' /\ EpochBarrier'
      /\ Marked(store, ghost)' /\ Marked(Committed, CommittedGhost)'
      /\ Periods' /\ NoThousandCuts'
      /\ Proposed(store, ghost)' /\ Proposed(Committed, CommittedGhost)'
  BY <1>1, <1>2 DEF VaultInv, Spent, NonceAtMostOnce, EpochBarrier, Marked, Periods,
                    NoThousandCuts, Proposed
<1> QED BY <1>0, <1>1, <1>3, <1>4 DEF VaultInv

\* What the appended event adds to the log.
LEMMA CommittedEvents ==
    ASSUME TypeOK, PostExecution
    PROVE  /\ Executions' = 1..(Len(events) + 1) /\ Len(events) \in Nat
           /\ \A i \in Executions : events'[i] = events[i]
           /\ events'[Len(events) + 1] = MandateExecuted
           /\ \A i \in Executions' : i \in Executions \/ i = Len(events) + 1
<1>1. entered /\ events' = Append(events, MandateExecuted) /\ events \in Seq(Event)
  BY DEF PostExecution, TypeOK
<1>2. MandateExecuted \in Event
  <2>1. Len(ghost.baselines) \in Nat /\ chain.assets \in Nat
    BY Fields
  <2> QED BY <1>1, <2>1, FrameFields DEF MandateExecuted, Event
<1>3. /\ Len(events') = Len(events) + 1 /\ Len(events) \in Nat
      /\ \A i \in 1..Len(events) : events'[i] = events[i]
      /\ events'[Len(events) + 1] = MandateExecuted
  BY <1>1, <1>2, AppendProperties
<1> QED BY <1>3 DEF Executions

\* Closing an execution whose circuit breaker held.
LEMMA CommitKeepsInv ==
    ASSUME VaultInv, PostExecution
    PROVE  VaultInv'
<1> DEFINE n == Len(events) + 1
<1> DEFINE new == events'[n]
<1>0. TypeOK /\ TypeOK'
  BY RunTypeOK DEF VaultInv
<1>1. /\ entered /\ ~entered' /\ UNCHANGED <<chain, now, ghost>>
      /\ store' = [store EXCEPT !.epochAssets = HighWaterMark(store.epochAssets, chain.assets)]
      /\ BreakerHolds
  BY DEF PostExecution
<1>2. /\ Executions' = 1..n /\ Len(events) \in Nat
      /\ \A i \in Executions : events'[i] = events[i]
      /\ new = MandateExecuted
      /\ \A i \in Executions' : i \in Executions \/ i = n
  BY <1>0, CommittedEvents
<1>3. /\ new.mandate = frame.mandate /\ new.authority = frame.authority
      /\ new.postAssets = chain.assets /\ new.period = Len(ghost.baselines)
  BY <1>2 DEF MandateExecuted
<1>4. /\ Committed = frame.store /\ CommittedGhost = frame.ghost
      /\ Committed' = store' /\ CommittedGhost' = ghost
  BY <1>1 DEF Committed, CommittedGhost
<1>5. /\ store'.authority = store.authority /\ store'.authorityEpoch = store.authorityEpoch
      /\ store'.nonceUsed = store.nonceUsed /\ store'.epochStart = store.epochStart
      /\ store'.pendingAuthority = store.pendingAuthority
      /\ store'.epochAssets = HighWaterMark(store.epochAssets, chain.assets)
  BY <1>0, <1>1 DEF TypeOK, Store
<1>6. /\ store.epochAssets \in Nat /\ chain.assets \in Nat
      /\ store'.epochAssets >= store.epochAssets /\ store'.epochAssets >= chain.assets
      /\ store'.epochAssets \in Nat
      /\ Len(ghost.baselines) \in Nat /\ ghost.baselines \in Seq(Nat)
      /\ store \in Store /\ frame.store \in Store
      /\ frame.ghost.baselines \in Seq(Nat)
  <2>1. /\ store.epochAssets \in Nat /\ chain.assets \in Nat
        /\ ghost.baselines \in Seq(Nat) /\ Len(ghost.baselines) \in Nat
    BY <1>0, Fields
  <2>2. /\ store'.epochAssets >= store.epochAssets /\ store'.epochAssets >= chain.assets
        /\ store'.epochAssets \in Nat
    BY <1>5, <2>1, HighWaterMarkIsMax
  <2>3. store \in Store /\ frame.store \in Store /\ frame.ghost \in Ghost
    BY <1>0, <1>1, FrameFields DEF TypeOK
  <2>4. frame.ghost.baselines \in Seq(Nat)
    BY <2>3 DEF Ghost
  <2> QED BY <2>1, <2>2, <2>3, <2>4
<1>7. Running
  BY <1>1 DEF VaultInv
<1>8. Spent(store)
  BY <1>0, <1>4, <1>6, <1>7, GrowsKeepsSpent DEF VaultInv, Running
<1>9. Spent(Committed)'
  <2>1. ASSUME NEW i \in Executions'
        PROVE  /\ <<events'[i].authority, events'[i].mandate.nonce>> \in store'.nonceUsed
               /\ events'[i].mandate.authorityEpoch <= store'.authorityEpoch
               /\ events'[i].mandate.authorityEpoch = store'.authorityEpoch
                    => events'[i].authority = store'.authority
    <3>1. CASE i \in Executions
      BY <1>2, <1>5, <1>8, <3>1 DEF Spent, Key
    <3>2. CASE i = n
      BY <1>3, <1>5, <1>7, <3>2 DEF Running, Grows, Key
    <3> QED BY <1>2, <2>1, <3>1, <3>2
  <2> QED BY <1>4, <2>1 DEF Spent, Key
<1>10. NonceAtMostOnce'
  <2>1. ASSUME NEW i \in Executions
        PROVE  <<events[i].authority, events[i].mandate.nonce>>
                 # <<frame.authority, frame.mandate.nonce>>
    <3>1. Key(events[i]) \in frame.store.nonceUsed
      BY <1>4 DEF VaultInv, Spent
    <3>2. <<frame.authority, frame.mandate.nonce>> \notin frame.store.nonceUsed
      BY <1>7 DEF Running, Retired
    <3> QED BY <3>1, <3>2 DEF Key
  <2>2. ASSUME NEW i \in Executions', NEW j \in Executions',
               events'[i].authority = events'[j].authority,
               events'[i].mandate.nonce = events'[j].mandate.nonce
        PROVE  i = j
    <3>1. CASE i \in Executions /\ j \in Executions
      BY <1>2, <2>2, <3>1 DEF VaultInv, NonceAtMostOnce
    <3>2. CASE ~(i \in Executions /\ j \in Executions)
      BY <1>2, <1>3, <2>1, <2>2, <3>2
    <3> QED BY <3>1, <3>2
  <2> QED BY <2>2 DEF NonceAtMostOnce
<1>11. EpochBarrier'
  <2>1. ASSUME NEW i \in Executions
        PROVE  /\ events[i].mandate.authorityEpoch = frame.mandate.authorityEpoch
                    => events[i].authority = frame.authority
               /\ events[i].mandate.authorityEpoch <= frame.mandate.authorityEpoch
    BY <1>4, <1>7 DEF VaultInv, Spent, Running
  <2>2. ASSUME NEW i \in Executions', NEW j \in Executions'
        PROVE  /\ events'[i].mandate.authorityEpoch = events'[j].mandate.authorityEpoch
                    => events'[i].authority = events'[j].authority
               /\ i < j => events'[i].mandate.authorityEpoch <= events'[j].mandate.authorityEpoch
    <3>1. CASE i \in Executions /\ j \in Executions
      BY <1>2, <3>1 DEF VaultInv, EpochBarrier
    <3>2. CASE i \in Executions /\ j = n
      BY <1>2, <1>3, <2>1, <3>2
    <3>3. CASE i = n /\ j \in Executions
      BY <1>2, <1>3, <2>1, <3>3 DEF Executions
    <3>4. CASE i = n /\ j = n
      BY <1>2, <3>4
    <3> QED BY <1>2, <2>2, <3>1, <3>2, <3>3, <3>4
  <2> QED BY <2>2 DEF EpochBarrier
<1>12. Marked(store, ghost)' /\ Marked(Committed, CommittedGhost)'
  <2>1. Marked(store, ghost)
    BY DEF VaultInv
  <2>2. ASSUME NEW i \in Executions', events'[i].period = Len(ghost.baselines)
        PROVE  events'[i].postAssets <= store'.epochAssets
    <3>1. CASE i \in Executions
      <4>1. events[i].postAssets <= store.epochAssets /\ events[i].postAssets \in Nat
        BY <1>0, <1>2, <2>1, <2>2, <3>1, EventFields DEF Marked
      <4> QED BY <1>2, <1>6, <3>1, <4>1
    <3>2. CASE i = n
      BY <1>3, <1>6, <3>2
    <3> QED BY <1>2, <3>1, <3>2
  <2>3. /\ store'.epochStart # 0 /\ Len(ghost.baselines) > 0
        /\ ghost.baselines[Len(ghost.baselines)] <= store'.epochAssets
    <3>1. /\ store.epochStart # 0 /\ Len(ghost.baselines) > 0
          /\ ghost.baselines[Len(ghost.baselines)] <= store.epochAssets
      BY <1>7, <2>1 DEF Marked, Running
    <3>2. ghost.baselines[Len(ghost.baselines)] \in Nat
      BY <1>6, <3>1
    <3> QED BY <1>5, <1>6, <3>1, <3>2
  <2> QED BY <1>1, <1>4, <2>2, <2>3 DEF Marked
<1>13. Periods'
  <2>1. Len(ghost.baselines) > 0
    BY <1>7 DEF VaultInv, Marked, Running
  <2>2. ASSUME NEW i \in Executions PROVE events[i].period \in 1..Len(ghost.baselines)
    <3>1. events[i].period \in 1..Len(frame.ghost.baselines)
      BY <1>4 DEF VaultInv, Periods
    <3>2. Len(frame.ghost.baselines) \in Nat /\ Len(frame.ghost.baselines) <= Len(ghost.baselines)
      BY <1>6, <1>7 DEF Running, Prefix
    <3> QED BY <1>6, <3>1, <3>2
  <2>3. ASSUME NEW i \in Executions' PROVE events'[i].period \in 1..Len(ghost.baselines)
    BY <1>2, <1>3, <1>6, <2>1, <2>2
  <2> QED BY <1>1, <1>4, <2>3 DEF Periods
<1>14. ASSUME NEW x \in Nat, x <= store.epochAssets
       PROVE  chain.assets * BPS >= x * (BPS - frame.mandate.maxCumulativeDrawdownBps)
  <2>1. frame.mandate.maxCumulativeDrawdownBps \in 0..BPS
    BY <1>7 DEF Running
  <2>2. CheckCumulativeDrawdown(store.epochAssets, chain.assets, frame.mandate.maxCumulativeDrawdownBps)
    BY <1>1 DEF BreakerHolds
  <2> QED BY <1>6, <1>14, <2>1, <2>2, BreakerBound
<1>15. NoThousandCuts'
  <2>1. ASSUME NEW i \in Executions, events[i].period = Len(ghost.baselines)
        PROVE  chain.assets * BPS
                 >= events[i].postAssets * (BPS - frame.mandate.maxCumulativeDrawdownBps)
    <3>1. events[i].postAssets <= store.epochAssets /\ events[i].postAssets \in Nat
      BY <1>0, <2>1, EventFields DEF VaultInv, Marked
    <3> QED BY <1>14, <3>1
  <2>2. ASSUME NEW i \in Executions', NEW j \in Executions',
               i < j, events'[i].period = events'[j].period
        PROVE  events'[j].postAssets * BPS
                 >= events'[i].postAssets * (BPS - events'[j].mandate.maxCumulativeDrawdownBps)
    <3>1. CASE i \in Executions /\ j \in Executions
      BY <1>2, <2>2, <3>1 DEF VaultInv, NoThousandCuts
    <3>2. CASE i \in Executions /\ j = n
      BY <1>2, <1>3, <2>1, <2>2, <3>2
    <3>3. CASE i = n
      BY <1>2, <2>2, <3>3 DEF Executions
    <3> QED BY <1>2, <2>2, <3>1, <3>2, <3>3
  <2> QED BY <2>2 DEF NoThousandCuts
<1>16. BaselineProtected'
  <2>1. chain.assets * BPS >= ghost.baselines[Len(ghost.baselines)]
                                * (BPS - frame.mandate.maxCumulativeDrawdownBps)
    <3>1. /\ Len(ghost.baselines) > 0
          /\ ghost.baselines[Len(ghost.baselines)] <= store.epochAssets
      BY <1>7 DEF VaultInv, Marked, Running
    <3>2. ghost.baselines[Len(ghost.baselines)] \in Nat
      BY <1>6, <3>1
    <3> QED BY <1>14, <3>1, <3>2
  <2>2. ASSUME NEW i \in Executions'
        PROVE  events'[i].postAssets * BPS
                 >= ghost.baselines[events'[i].period]
                      * (BPS - events'[i].mandate.maxCumulativeDrawdownBps)
    <3>1. CASE i \in Executions
      BY <1>2, <3>1 DEF VaultInv, BaselineProtected
    <3>2. CASE i = n
      BY <1>3, <2>1, <3>2
    <3> QED BY <1>2, <2>2, <3>1, <3>2
  <2> QED BY <1>1, <2>2 DEF BaselineProtected
<1>17. Proposed(store, ghost)' /\ Proposed(Committed, CommittedGhost)'
  BY <1>1, <1>4, <1>5 DEF VaultInv, Proposed
<1> QED BY <1>0, <1>1, <1>9, <1>10, <1>11, <1>12, <1>13, <1>15, <1>16, <1>17 DEF VaultInv

LEMMA InitKeepsInv == Init => VaultInv
<1> SUFFICES ASSUME Init PROVE VaultInv
  OBVIOUS
<1>1. TypeOK
  BY InitTypeOK
<1>2. /\ events = << >> /\ ~entered /\ ghost.baselines = << >>
      /\ store.epochStart = 0 /\ store.pendingAuthority = None
  BY DEF Init
<1>3. Executions = {}
  BY <1>2 DEF Executions
<1>4. Committed = store /\ CommittedGhost = ghost
  BY <1>2 DEF Committed, CommittedGhost
<1>5. Marked(store, ghost) /\ Proposed(store, ghost)
  BY <1>2, <1>3 DEF Marked, Proposed
<1> QED BY <1>1, <1>2, <1>3, <1>4, <1>5
        DEF VaultInv, Spent, NonceAtMostOnce, EpochBarrier, Periods, NoThousandCuts,
            BaselineProtected, Marked

\* Which steps there are, sorted by the lemma that covers them.
LEMMA NextIsCovered ==
    ASSUME VaultInv, Next
    PROVE  \/ Ordinary /\ TypeOK'
           \/ \E sender \in Accounts : Begin(sender)
           \/ NextAction \/ PostExecution \/ Revert
<1>0. TypeOK /\ Periods /\ (entered => Running)
  BY DEF VaultInv
<1>1. ASSUME NEW sender \in Accounts, Administer(sender)
      PROVE  Ordinary /\ TypeOK'
  BY <1>0, <1>1, OrdinaryAdminister, AdministerTypeOK
<1>2. ASSUME NEW amount \in Amounts, MoveBalances(amount) \/ Shares(amount)
      PROVE  Ordinary /\ TypeOK'
  BY <1>0, <1>2, OrdinaryMoves, BalancesTypeOK
<1>3. ASSUME Tick \/ \E allowed \in BOOLEAN : TokenApprove(allowed)
      PROVE  Ordinary /\ TypeOK'
  BY <1>0, <1>3, OrdinaryClock, RunTypeOK
<1> QED BY <1>1, <1>2, <1>3 DEF Next

\* VaultInv holds in every reachable state.
THEOREM InvariantHolds == Spec => []VaultInv
<1>1. VaultInv /\ [Next]_vars => VaultInv'
  <2> SUFFICES ASSUME VaultInv, [Next]_vars PROVE VaultInv'
    OBVIOUS
  <2>1. CASE UNCHANGED vars
    <3>1. TypeOK /\ TypeOK'
      BY <2>1 DEF VaultInv, TypeOK, vars
    <3>2. Ordinary
      BY <2>1, <3>1, OrdinaryBalances DEF vars
    <3> QED BY <3>1, <3>2, OrdinaryKeepsInv
  <2>2. CASE Next
    BY <2>2, NextIsCovered, OrdinaryKeepsInv, BeginKeepsInv, NextActionKeepsInv,
       RevertKeepsInv, CommitKeepsInv
  <2> QED BY <2>1, <2>2
<1> QED BY InitKeepsInv, <1>1, PTL DEF Spec

-----------------------------------------------------------------------------
(* Theorems *)

\* A nonce of an authority is consumed by at most one committed execution
\* (_consumeNonce), whatever the adapters call back and whoever holds the
\* authority in between.
THEOREM NonceIsConsumedOnce == Spec => []NonceAtMostOnce
<1>1. VaultInv => NonceAtMostOnce
  BY DEF VaultInv
<1> QED BY InvariantHolds, <1>1, PTL

\* The executions of one epoch share their authority, and the epochs of the
\* MandateExecuted events never decrease (acceptAuthority, authority_).
THEOREM EpochsSeparateAuthorities == Spec => []EpochBarrier
<1>1. VaultInv => EpochBarrier
  BY DEF VaultInv
<1> QED BY InvariantHolds, <1>1, PTL

\* The cumulative limit holds between any two executions of one epoch
\* (checkCumulativeDrawdown against _epochAssets).
THEOREM CumulativeDrawdownHolds == Spec => []NoThousandCuts
<1>1. VaultInv => NoThousandCuts
  BY DEF VaultInv
<1> QED BY InvariantHolds, <1>1, PTL

\* ... and from the assets the epoch opened with (resetEpoch, execute).
THEOREM BaselineHolds == Spec => []BaselineProtected
<1>1. VaultInv => BaselineProtected
  BY DEF VaultInv
<1> QED BY InvariantHolds, <1>1, PTL

\* A pending authority was proposed by the authority that still holds
\* (proposeAuthority, acceptAuthority).
THEOREM ProposalsAreCurrent == Spec => []PendingByCurrentAuthority
<1>1. VaultInv => PendingByCurrentAuthority
  BY DEF VaultInv, Proposed, PendingByCurrentAuthority
<1> QED BY InvariantHolds, <1>1, PTL

\* execute() uses only mandates that are not retired, and retires them.
THEOREM ExecutionRetires == Spec => []ExecutedOnceThenRetired
<1>1. VaultInv => ExecutedOnceThenRetired
  <2> SUFFICES ASSUME VaultInv PROVE ExecutedOnceThenRetired
    OBVIOUS
  <2>1. TypeOK /\ Spent(Committed) /\ (entered => Running)
    BY DEF VaultInv
  <2>2. Committed.authorityEpoch \in Nat
    BY <2>1, Fields, FrameFields DEF Committed, Store
  <2>3. ASSUME NEW i \in Executions PROVE Retired(events[i].mandate, Committed)
    <3>1. events[i].mandate.authorityEpoch \in Nat
      BY <2>1, EventFields
    <3>2. /\ <<events[i].authority, events[i].mandate.nonce>> \in Committed.nonceUsed
          /\ events[i].mandate.authorityEpoch <= Committed.authorityEpoch
          /\ events[i].mandate.authorityEpoch = Committed.authorityEpoch
               => events[i].authority = Committed.authority
      BY <2>1 DEF Spent, Key
    <3> QED BY <2>2, <3>1, <3>2 DEF Retired
  <2> QED BY <2>1, <2>3 DEF ExecutedOnceThenRetired, Running
<1> QED BY InvariantHolds, <1>1, PTL

\* What a transaction commits only adds to the storage it began with.
LEMMA CommittedGrows ==
    ASSUME VaultInv, Next
    PROVE  Grows(Committed, Committed') /\ Committed \in Store /\ Committed' \in Store
<1>0. TypeOK /\ TypeOK' /\ (entered => Running) /\ (entered => frame.store \in Store)
  <2>1. VaultInv'
    BY NextIsCovered, OrdinaryKeepsInv, BeginKeepsInv, NextActionKeepsInv,
       RevertKeepsInv, CommitKeepsInv
  <2>2. TypeOK /\ TypeOK' /\ (entered => Running)
    BY <2>1 DEF VaultInv
  <2> QED BY <2>2, FrameFields
<1>1. Committed \in Store /\ store \in Store /\ store' \in Store
  BY <1>0 DEF Committed, TypeOK
<1>2. ASSUME Ordinary PROVE Grows(Committed, Committed') /\ Committed' \in Store
  BY <1>0, <1>1, <1>2, GrowsReflexive DEF Committed, Ordinary
<1>3. ASSUME NEW sender \in Accounts, Begin(sender)
      PROVE  Committed' = Committed
  BY <1>3 DEF Begin, Execute, Committed
<1>4. ASSUME NextAction PROVE Committed' = Committed
  <2>1. frame \in Frame /\ frame' = [frame EXCEPT !.i = frame.i + 1] /\ entered /\ entered'
    BY <1>0, <1>4 DEF NextAction, TypeOK
  <2> QED BY <2>1 DEF Committed, Frame
<1>5. ASSUME PostExecution PROVE Grows(Committed, Committed') /\ Committed' \in Store
  <2>1. /\ Committed = frame.store /\ Committed' = store'
        /\ store' = [store EXCEPT !.epochAssets = HighWaterMark(store.epochAssets, chain.assets)]
        /\ Grows(frame.store, store)
    BY <1>0, <1>5 DEF PostExecution, Committed, Running
  <2>2. /\ store'.authority = store.authority /\ store'.authorityEpoch = store.authorityEpoch
        /\ store'.nonceUsed = store.nonceUsed /\ store'.mandateRevoked = store.mandateRevoked
        /\ store'.nonceThreshold = store.nonceThreshold
    BY <1>1, <2>1 DEF Store
  <2> QED BY <1>1, <2>1, <2>2 DEF Grows
<1>6. ASSUME Revert PROVE Committed' = Committed
  BY <1>6 DEF Revert, Committed
<1> QED BY <1>1, <1>2, <1>3, <1>4, <1>5, <1>6, NextIsCovered, GrowsReflexive

\* A mandate that is spent, revoked, below the threshold or of a passed epoch
\* stays so, whatever transactions follow (nonces, revocations, epochs).
THEOREM RetirementIsFinal == Spec => RetiredForever
<1>1. ASSUME VaultInv, [Next]_vars
      PROVE  [\A m \in Mandates : Retired(m, Committed) => Retired(m, Committed')]_vars
  <2>1. CASE UNCHANGED vars
    BY <2>1
  <2>2. CASE Next
    <3>1. ASSUME NEW m \in Mandates, Retired(m, Committed) PROVE Retired(m, Committed')
      BY <1>1, <2>2, <3>1, CommittedGrows, GrowsKeepsRetired, VaultAssumption
    <3> QED BY <3>1
  <2> QED BY <1>1, <2>1, <2>2
<1> QED BY InvariantHolds, <1>1, PTL DEF Spec, RetiredForever

\* A loss within a limit, weighted with the shares that carry it.
LEMMA PerShare ==
    ASSUME NEW pre \in Nat, NEW post \in Nat, NEW b \in 0..BPS, NEW shares \in Nat,
           CheckSingleDrawdown(pre, post, b)
    PROVE  post * shares * BPS >= pre * shares * (BPS - b)
<1>1. CheckCumulativeDrawdown(pre, post, b)
  BY DEF CheckSingleDrawdown, CheckCumulativeDrawdown
<1>2. post * BPS >= pre * (BPS - b)
  BY <1>1, BreakerBound
<1> DEFINE x == pre * (BPS - b)
<1> DEFINE y == post * BPS
<1>3. BPS - b \in Nat /\ BPS \in Nat
  BY DEF BPS
<1>4. x \in Nat /\ y \in Nat
  BY <1>3
<1>5. x * shares <= y * shares
  <2> HIDE DEF x, y
  <2>1. x <= y
    BY <1>2, <1>4 DEF x, y
  <2> QED BY <1>4, <2>1, ProductMonotone
<1>6. post * shares * BPS = y * shares /\ pre * shares * (BPS - b) = x * shares
  BY <1>3
<1> QED BY <1>4, <1>5, <1>6

\* What a committed execution costs a share, and the vault, stays inside the
\* signed limits (_postExecution, VaultBusy).
THEOREM ShareValueHolds == Spec => ShareValueKept
<1> DEFINE Kept == LET m == frame.mandate
                       before == frame.chain
                   IN  /\ chain'.assets * before.supply * BPS
                            >= before.assets * chain'.supply * (BPS - m.maxDrawdownBps)
                       /\ chain'.assets + MaxSingleAbsoluteLoss(m.extensionsHash) >= before.assets
<1>1. ASSUME VaultInv, [Next]_vars PROVE [(entered /\ ~entered') => Kept]_vars
  <2> SUFFICES ASSUME Next, entered, ~entered' PROVE Kept
    BY <1>1
  <2>1. PostExecution \/ Revert
    <3>1. ~Ordinary
      BY DEF Ordinary
    <3>2. \A sender \in Accounts : ~Begin(sender)
      BY DEF Begin, Execute
    <3>3. ~NextAction
      BY DEF NextAction
    <3> QED BY <1>1, <3>1, <3>2, <3>3, NextIsCovered
  <2>2. TypeOK /\ Running
    BY <1>1 DEF VaultInv
  <2>3. /\ frame.chain.assets \in Nat /\ frame.chain.supply \in Nat
        /\ chain.assets \in Nat /\ frame.mandate.maxDrawdownBps \in 0..BPS
        /\ frame.maxLoss \in Nat
    <3>1. frame.chain \in Chain /\ frame.maxLoss \in Nat
      BY <2>2, FrameFields
    <3> QED BY <2>2, <3>1, Fields DEF Chain, Running
  <2>4. frame.maxLoss = MaxSingleAbsoluteLoss(frame.mandate.extensionsHash)
    BY <2>2 DEF Running
  <2>5. CASE PostExecution
    <3>1. /\ chain' = chain /\ chain.supply = frame.chain.supply
          /\ frame.preAssets = frame.chain.assets
          /\ CheckSingleDrawdown(frame.chain.assets, chain.assets, frame.mandate.maxDrawdownBps)
          /\ CheckSingleAbsoluteLoss(frame.chain.assets, chain.assets, frame.maxLoss)
      BY <2>2, <2>5 DEF PostExecution, BreakerHolds, Running
    <3>2. chain.assets * frame.chain.supply * BPS
            >= frame.chain.assets * frame.chain.supply * (BPS - frame.mandate.maxDrawdownBps)
      BY <2>3, <3>1, PerShare
    <3>3. chain.assets + frame.maxLoss >= frame.chain.assets
      BY <2>3, <3>1 DEF CheckSingleAbsoluteLoss
    <3> QED BY <2>4, <3>1, <3>2, <3>3
  <2>6. CASE Revert
    <3>1. chain' = frame.chain
      BY <2>6 DEF Revert
    <3>2. CheckSingleDrawdown(frame.chain.assets, frame.chain.assets, frame.mandate.maxDrawdownBps)
      BY <2>3 DEF CheckSingleDrawdown
    <3>3. frame.chain.assets * frame.chain.supply * BPS
            >= frame.chain.assets * frame.chain.supply * (BPS - frame.mandate.maxDrawdownBps)
      BY <2>3, <3>2, PerShare
    <3>4. frame.chain.assets + frame.maxLoss >= frame.chain.assets
      BY <2>3
    <3> QED BY <2>4, <3>1, <3>3, <3>4
  <2> QED BY <2>1, <2>5, <2>6
<1> QED BY InvariantHolds, <1>1, PTL DEF Spec, ShareValueKept

-----------------------------------------------------------------------------
(* What the authority signed bounds what ran *)

\* What the bytes of an extension hold.
LEMMA ExtensionFields ==
    ASSUME NEW exts \in Seq(Extension), NEW i \in 1..Len(exts)
    PROVE  exts[i].id \in Nat /\ exts[i].limit \in Nat
<1>1. exts[i] \in Extension
  OBVIOUS
<1> QED BY <1>1 DEF Extension

\* Adjacent ids ascend, so all do: the first that does not would have a
\* neighbour that does.
LEMMA IdsAscend ==
    ASSUME NEW exts \in Seq(Extension), Canonical(exts),
           NEW x \in 1..Len(exts), NEW y \in 1..Len(exts), x < y
    PROVE  exts[x].id < exts[y].id
<1> DEFINE T == {j \in 1..Len(exts) : x < j /\ ~(exts[x].id < exts[j].id)}
<1>1. /\ Len(exts) \in Nat
      /\ \A j \in 1..Len(exts) : exts[j].id \in Nat
  BY ExtensionFields
<1>2. T \subseteq Nat
  BY <1>1
<1>3. ASSUME T # {} PROVE FALSE
  <2>1. PICK j \in T : \A k \in T : ~(<<k, j>> \in OpToRel(<, Nat))
    BY <1>2, <1>3, NatLessThanWellFounded, WFMin
  <2>2. /\ j \in 2..Len(exts) /\ j - 1 \in 1..Len(exts)
        /\ exts[j - 1].id < exts[j].id
    BY <1>1 DEF Canonical
  <2>3. j - 1 \notin T
    <3>1. <<j - 1, j>> \in Nat \X Nat /\ j - 1 < j
      BY <1>1, <2>2
    <3>2. <<j - 1, j>> \in OpToRel(<, Nat)
      BY <3>1 DEF OpToRel
    <3> QED BY <2>1, <3>2
  <2>4. CASE j - 1 = x
    BY <2>2, <2>4
  <2>5. CASE x < j - 1
    <3>1. exts[x].id < exts[j - 1].id
      BY <2>2, <2>3, <2>5
    <3> QED BY <1>1, <2>2, <3>1
  <2> QED BY <1>1, <2>2, <2>4, <2>5
<1> QED BY <1>3

\* No id repeats in a parsed blob: the loop applies every extension it knows.
LEMMA KnownAreApplied ==
    ASSUME NEW blob \in Blob, ParseExtensions(blob), NEW x \in 1..Len(blob.exts)
    PROVE  Applied(blob, blob.exts[x].id) = {x}
<1>1. blob.exts \in Seq(Extension) /\ Canonical(blob.exts) /\ Len(blob.exts) \in Nat
  BY DEF Blob, ParseExtensions
<1>2. \A i \in 1..Len(blob.exts) : blob.exts[i].id \in Nat
  BY <1>1, ExtensionFields
<1>3. ASSUME NEW i \in 1..Len(blob.exts), blob.exts[i].id = blob.exts[x].id PROVE i = x
  <2>1. ~(i < x)
    BY <1>1, <1>2, <1>3, IdsAscend
  <2>2. ~(x < i)
    BY <1>1, <1>2, <1>3, IdsAscend
  <2> QED BY <1>1, <2>1, <2>2
<1>4. (x + 1)..Len(blob.exts) \subseteq 1..Len(blob.exts) \ {x}
  BY <1>1
<1> QED BY <1>3, <1>4 DEF Applied

\* What execute() checks of its caller and its actions before the first call.
Mandated(m, executor, actions) ==
    /\ IF m.executor = None THEN actions = m.payloadDigest ELSE executor = m.executor
    /\ \A k \in 1..Len(actions) :
          /\ actions[k].value = 0
          /\ \E leaf \in m.allowedAdaptersRoot : leaf[1] = actions[k].adapter
    /\ m.extensionsHash.size # 0 =>
          /\ ParseExtensions(m.extensionsHash)
          /\ \A i \in Applied(m.extensionsHash, SelectorAllowlistId) :
                EnforceSelectorAllowlist(actions, m.extensionsHash.exts[i])

LEMMA ValidatedIsMandated ==
    ASSUME NEW sender, NEW m, NEW actions, NEW proofs, NEW signature, NEW blob,
           ValidateMandate(sender, m, actions, proofs, signature, blob)
    PROVE  Mandated(m, sender, actions)
<1>1. /\ IF m.executor = None THEN actions = m.payloadDigest ELSE sender = m.executor
  BY DEF ValidateMandate, ValidateFields, ExecutorOK, BoundedIfOpen, ValidatePayloadDigest
<1>2. ASSUME NEW k \in 1..Len(actions)
      PROVE  /\ actions[k].value = 0
             /\ \E leaf \in m.allowedAdaptersRoot : leaf[1] = actions[k].adapter
  <2>1. /\ <<actions[k].adapter, CodeHash[actions[k].adapter]>> \in m.allowedAdaptersRoot
        /\ actions[k].value = 0
    BY DEF ValidateMandate, ValidateAllowlists, ValidateAdapters, AdapterAllowed
  <2> QED BY <2>1
<1> QED BY <1>1, <1>2 DEF Mandated, ValidateMandate, ValidateAllowlists

\* SignedPerimeter of one event.
InPerimeter(e) ==
    LET m == e.mandate
        signed == m.extensionsHash
    IN  /\ IF m.executor = None THEN e.actions = m.payloadDigest
           ELSE e.executor = m.executor
        /\ \A k \in 1..Len(e.actions) : \E leaf \in m.allowedAdaptersRoot :
              leaf[1] = e.actions[k].adapter
        /\ signed.size # 0 => \A x \in 1..Len(signed.exts) :
              LET ext == signed.exts[x] IN
              CASE ext.id = SelectorAllowlistId ->
                     \A k \in 1..Len(e.actions) :
                        <<e.actions[k].adapter, e.actions[k].selector>> \in ext.allowed
                [] ext.id = AbsoluteLossId -> e.preAssets <= e.postAssets + ext.limit
                [] OTHER -> ~ext.required

\* The event of a mandated execution whose circuit breaker held.
LEMMA ExecutedInPerimeter ==
    ASSUME VaultInv, PostExecution, Mandated(frame.mandate, frame.executor, frame.actions)
    PROVE  InPerimeter(MandateExecuted)
<1> DEFINE signed == frame.mandate.extensionsHash
<1>1. /\ entered /\ frame \in Frame /\ Running /\ TypeOK
      /\ CheckSingleAbsoluteLoss(frame.preAssets, chain.assets, frame.maxLoss)
      /\ frame.maxLoss = MaxSingleAbsoluteLoss(signed)
  BY DEF VaultInv, TypeOK, PostExecution, BreakerHolds, Running
<1>2. /\ frame.preAssets \in Nat /\ chain.assets \in Nat /\ signed \in Blob
      /\ signed.exts \in Seq(Extension)
  <2>1. frame.preAssets \in Nat /\ frame.mandate \in Mandate
    BY <1>1 DEF Frame
  <2>2. signed \in Blob
    BY <2>1 DEF Mandate
  <2> QED BY <1>1, <2>1, <2>2, Fields DEF Blob
<1>3. /\ MandateExecuted.mandate = frame.mandate /\ MandateExecuted.actions = frame.actions
      /\ MandateExecuted.executor = frame.executor
      /\ MandateExecuted.preAssets = frame.preAssets
      /\ MandateExecuted.postAssets = chain.assets
  BY DEF MandateExecuted
<1>4. ASSUME signed.size # 0, NEW x \in 1..Len(signed.exts)
      PROVE  CASE signed.exts[x].id = SelectorAllowlistId ->
                    \A k \in 1..Len(frame.actions) :
                       <<frame.actions[k].adapter, frame.actions[k].selector>>
                         \in signed.exts[x].allowed
               [] signed.exts[x].id = AbsoluteLossId ->
                    frame.preAssets <= chain.assets + signed.exts[x].limit
               [] OTHER -> ~signed.exts[x].required
  <2>1. ParseExtensions(signed) /\ Applied(signed, signed.exts[x].id) = {x}
    BY <1>2, <1>4, KnownAreApplied DEF Mandated
  <2>2. SelectorAllowlistId # AbsoluteLossId
    BY DEF SelectorAllowlistId, AbsoluteLossId
  <2>3. CASE signed.exts[x].id = SelectorAllowlistId
    BY <1>4, <2>1, <2>2, <2>3 DEF Mandated, EnforceSelectorAllowlist
  <2>4. CASE signed.exts[x].id = AbsoluteLossId
    <3>1. frame.maxLoss = signed.exts[x].limit
      BY <1>1, <1>4, <2>1, <2>4 DEF MaxSingleAbsoluteLoss
    <3>2. signed.exts[x].limit \in Nat
      BY <1>2, <1>4, ExtensionFields
    <3>3. frame.preAssets <= chain.assets + signed.exts[x].limit
      BY <1>1, <1>2, <3>1, <3>2 DEF CheckSingleAbsoluteLoss
    <3> QED BY <2>2, <2>4, <3>3
  <2>5. CASE signed.exts[x].id \notin SupportedIds
    <3>1. ~signed.exts[x].required
      BY <1>4, <2>1, <2>5 DEF ParseExtensions
    <3> QED BY <2>5, <3>1 DEF SupportedIds
  <2> QED BY <2>3, <2>4, <2>5 DEF SupportedIds
<1> QED BY <1>3, <1>4 DEF InPerimeter, Mandated

PerimeterInv ==
    /\ entered => Mandated(frame.mandate, frame.executor, frame.actions)
    /\ \A i \in Executions : InPerimeter(events[i])

\* PerimeterInv holds in every reachable state.
THEOREM PerimeterInvariant == Spec => []PerimeterInv
<1>1. Init => PerimeterInv
  BY DEF Init, PerimeterInv, Executions
<1>2. ASSUME VaultInv, PerimeterInv, [Next]_vars PROVE PerimeterInv'
  <2>0. TypeOK
    BY <1>2 DEF VaultInv
  <2>1. CASE UNCHANGED vars
    BY <1>2, <2>1 DEF PerimeterInv, Executions, vars
  <2>2. CASE Ordinary
    BY <1>2, <2>2 DEF Ordinary, PerimeterInv, Executions
  <2>3. ASSUME NEW sender \in Accounts, Begin(sender) PROVE PerimeterInv'
    <3>1. PICK m \in Mandates, actions \in Batches, signature \in Signature :
            \E proofs \in {Len(actions) - 1, Len(actions)},
               blob \in {n.extensionsHash : n \in Mandates} :
                  Execute(sender, m, actions, proofs, signature, blob)
      BY <2>3 DEF Begin
    <3>2. PICK proofs, blob : Execute(sender, m, actions, proofs, signature, blob)
      BY <3>1
    <3>3. Mandated(m, sender, actions)
      BY <3>2, ValidatedIsMandated DEF Execute
    <3>4. /\ frame'.mandate = m /\ frame'.executor = sender /\ frame'.actions = actions
          /\ events' = events
      BY <3>2 DEF Execute
    <3> QED BY <1>2, <3>3, <3>4 DEF PerimeterInv, Executions
  <2>4. CASE NextAction
    <3>1. /\ entered /\ events' = events /\ frame \in Frame
          /\ frame' = [frame EXCEPT !.i = frame.i + 1]
      BY <2>0, <2>4 DEF NextAction, TypeOK
    <3>2. /\ frame'.mandate = frame.mandate /\ frame'.executor = frame.executor
          /\ frame'.actions = frame.actions
      BY <3>1 DEF Frame
    <3> QED BY <1>2, <3>1, <3>2 DEF PerimeterInv, Executions
  <2>5. CASE PostExecution
    <3>1. InPerimeter(MandateExecuted)
      BY <1>2, <2>5, ExecutedInPerimeter DEF PerimeterInv, PostExecution
    <3>2. ~entered'
      BY <2>5 DEF PostExecution
    <3>3. ASSUME NEW i \in Executions' PROVE InPerimeter(events'[i])
      BY <1>2, <2>0, <2>5, <3>1, CommittedEvents DEF PerimeterInv
    <3> QED BY <3>2, <3>3 DEF PerimeterInv
  <2>6. CASE Revert
    BY <1>2, <2>6 DEF Revert, PerimeterInv, Executions
  <2> QED BY <1>2, <2>1, <2>2, <2>3, <2>4, <2>5, <2>6, NextIsCovered
<1> QED BY InvariantHolds, <1>1, <1>2, PTL DEF Spec

\* Every execution stays inside what its mandate signed: who may execute, the
\* actions, the adapters, their selectors and the absolute loss
\* (validateFields, _validateAllowlists, _parseExtensions, _postExecution).
THEOREM PerimeterHolds == Spec => []SignedPerimeter
<1>1. PerimeterInv => SignedPerimeter
  BY DEF PerimeterInv, SignedPerimeter, InPerimeter
<1> QED BY PerimeterInvariant, <1>1, PTL

-----------------------------------------------------------------------------
(* Native currency *)

\* The execution under way was signed by an account without code, and the
\* authority has not changed since: nobody who is called can sweep.
OwnerAway ==
    frame.authority \notin Contracts /\ store.authorityEpoch = frame.store.authorityEpoch

NativeInv == entered /\ OwnerAway => chain.eth >= frame.chain.eth

LEMMA NativeNumbers ==
    ASSUME TypeOK
    PROVE  /\ chain.eth \in Nat /\ chain \in Chain
           /\ entered => frame.chain.eth \in Nat
<1>1. chain \in Chain
  BY DEF TypeOK
<1>2. entered => frame.chain \in Chain
  BY FrameFields
<1> QED BY <1>1, <1>2 DEF Chain

\* No step inside such an execution takes native currency.
LEMMA NothingSwept ==
    ASSUME VaultInv, PerimeterInv, Next, entered, entered', OwnerAway
    PROVE  chain'.eth >= chain.eth
<1>0. TypeOK /\ Running /\ chain \in Chain /\ chain.eth \in Nat
  BY NativeNumbers DEF VaultInv
<1>1. store.authority = frame.authority /\ store.authority \notin Contracts
  BY <1>0 DEF Running, Grows, OwnerAway
<1>2. ASSUME NEW sender \in Accounts, Administer(sender) PROVE chain' = chain
  <2>1. ASSUME NEW to, NEW amount PROVE ~SweepNative(sender, to, amount)
    BY <1>1 DEF SweepNative, CanCall
  <2> QED BY <1>2, <2>1 DEF Administer, ProposeAuthority, AcceptAuthority, ResetEpoch,
                            InvalidateNonce, InvalidateNoncesBelow, RevokeMandate
<1>3. ASSUME NEW sender \in Accounts PROVE ~Begin(sender)
  BY DEF Begin, Execute
<1>4. CASE NextAction
  <2>1. /\ frame \in Frame /\ frame.i + 1 \in 1..Len(frame.actions)
    <3>1. frame \in Frame
      BY <1>0 DEF TypeOK
    <3>2. frame.i \in Nat /\ frame.actions \in Seq(Action)
      BY <3>1 DEF Frame
    <3>3. Len(frame.actions) \in Nat /\ frame.i < Len(frame.actions)
      BY <1>4, <3>2 DEF NextAction
    <3> QED BY <3>1, <3>2, <3>3
  <2>2. frame.actions[frame.i + 1].value = 0
    BY <2>1 DEF PerimeterInv, Mandated
  <2>3. chain' = [chain EXCEPT !.eth = chain.eth - 0]
    BY <1>4, <2>2 DEF NextAction, CallAction
  <2>4. chain'.eth = chain.eth - 0
    BY <1>0, <2>3 DEF Chain
  <2> QED BY <1>0, <2>4
<1>5. ASSUME NEW amount \in Amounts, MoveBalances(amount) \/ Shares(amount)
      PROVE  chain'.eth >= chain.eth
  <2>1. ~Shares(amount)
    BY DEF Shares, Deposit, Mint, Withdraw, Redeem
  <2>2. amount \in Nat
    BY VaultAssumption
  <2>3. CASE Receive(amount)
    <3>1. chain'.eth = chain.eth + amount
      BY <1>0, <2>3 DEF Receive, Chain
    <3> QED BY <1>0, <2>2, <3>1
  <2>4. CASE TokenTransfer(amount) \/ PullApproved(amount) \/ AssetsArrive(amount)
    <3>1. chain'.eth = chain.eth
      BY <1>0, <2>4 DEF TokenTransfer, PullApproved, AssetsArrive, Chain
    <3> QED BY <1>0, <3>1
  <2> QED BY <1>5, <2>1, <2>3, <2>4 DEF MoveBalances
<1>6. ASSUME NEW allowed \in BOOLEAN, TokenApprove(allowed) PROVE chain'.eth >= chain.eth
  <2>1. chain'.eth = chain.eth
    BY <1>0, <1>6 DEF TokenApprove, Chain
  <2> QED BY <1>0, <2>1
<1>7. ~PostExecution /\ ~Revert /\ ~Tick
  BY DEF PostExecution, Revert, Tick
<1> QED BY <1>0, <1>2, <1>3, <1>4, <1>5, <1>6, <1>7 DEF Next

LEMMA NextKeepsNative ==
    ASSUME VaultInv, VaultInv', PerimeterInv, PerimeterInv', NativeInv, Next
    PROVE  NativeInv'
<1> SUFFICES ASSUME entered', OwnerAway' PROVE chain'.eth >= frame'.chain.eth
  BY DEF NativeInv
<1>0. TypeOK /\ TypeOK' /\ chain.eth \in Nat /\ chain'.eth \in Nat
  <2>1. TypeOK /\ TypeOK'
    BY DEF VaultInv
  <2>2. chain \in Chain /\ chain' \in Chain
    BY <2>1 DEF TypeOK
  <2> QED BY <2>1, <2>2 DEF Chain
<1>1. CASE entered
  <2>1. /\ frame'.chain = frame.chain /\ frame'.store = frame.store
        /\ frame'.authority = frame.authority
        /\ store.authorityEpoch <= store'.authorityEpoch
    <3>1. CASE Ordinary
      BY <3>1 DEF Ordinary, Grows
    <3>2. CASE NextAction
      <4>1. frame \in Frame /\ frame' = [frame EXCEPT !.i = frame.i + 1] /\ store' = store
        BY <1>0, <1>1, <3>2 DEF NextAction, TypeOK
      <4>2. store.authorityEpoch \in Nat
        BY <1>0, Fields
      <4> QED BY <4>1, <4>2 DEF Frame
    <3>3. /\ ~PostExecution /\ ~Revert
          /\ \A sender \in Accounts : ~Begin(sender)
      BY <1>1 DEF PostExecution, Revert, Begin, Execute
    <3> QED BY <3>1, <3>2, <3>3, NextIsCovered
  <2>2. OwnerAway
    <3>1. /\ frame.store.authorityEpoch \in Nat /\ store.authorityEpoch \in Nat
          /\ store'.authorityEpoch \in Nat
      BY <1>0, <1>1, Fields, FrameFields DEF Store, TypeOK
    <3>2. frame.store.authorityEpoch <= store.authorityEpoch
      BY <1>1 DEF VaultInv, Running, Grows
    <3> QED BY <2>1, <3>1, <3>2 DEF OwnerAway
  <2>3. chain'.eth >= chain.eth /\ chain.eth >= frame.chain.eth /\ frame.chain.eth \in Nat
    BY <1>0, <1>1, <2>2, NothingSwept, NativeNumbers DEF NativeInv
  <2> QED BY <1>0, <2>1, <2>3
<1>2. CASE ~entered
  <2>1. PICK sender \in Accounts : Begin(sender)
    BY <1>2, NextIsCovered DEF Ordinary, NextAction, PostExecution, Revert
  <2>2. PICK m \in Mandates, actions \in Batches, signature \in Signature :
          \E proofs \in {Len(actions) - 1, Len(actions)},
             blob \in {n.extensionsHash : n \in Mandates} :
                Execute(sender, m, actions, proofs, signature, blob)
    BY <2>1 DEF Begin
  <2>3. PICK proofs, blob : Execute(sender, m, actions, proofs, signature, blob)
    BY <2>2
  <2>4. /\ frame'.chain = chain /\ chain' = [chain EXCEPT !.eth = chain.eth - actions[1].value]
    BY <2>3 DEF Execute, CallAction
  <2>5. actions[1].value = 0
    <3>1. Mandated(m, sender, actions) /\ Len(actions) \in 1..MAX_ACTIONS
      BY <2>3, ValidatedIsMandated DEF Execute, ValidateMandate, ValidateFields, SizesOK
    <3>2. 1 \in 1..Len(actions)
      BY <3>1, LimitsAssumption
    <3> QED BY <3>1, <3>2 DEF Mandated
  <2>6. chain'.eth = chain.eth - 0
    BY <1>0, <2>4, <2>5 DEF TypeOK, Chain
  <2> QED BY <1>0, <2>4, <2>6
<1> QED BY <1>1, <1>2

\* An execution signed by an account without code, that leaves the authority
\* in place, leaves the native currency it found (NonZeroActionValue, sweepNative).
THEOREM NativeIsKept == Spec => NativeKept
<1>1. Init => NativeInv
  BY DEF Init, NativeInv
<1>2. ASSUME VaultInv, VaultInv', PerimeterInv, PerimeterInv', NativeInv, [Next]_vars
      PROVE  NativeInv'
  <2>1. CASE UNCHANGED vars
    BY <1>2, <2>1 DEF NativeInv, OwnerAway, vars
  <2> QED BY <1>2, <2>1, NextKeepsNative
<1> DEFINE Kept == (/\ entered /\ ~entered'
                    /\ frame.authority \notin Contracts
                    /\ store'.authorityEpoch = frame.store.authorityEpoch)
                      => chain'.eth >= frame.chain.eth
<1>3. ASSUME VaultInv, NativeInv, [Next]_vars PROVE [Kept]_vars
  <2> SUFFICES ASSUME Next, entered, ~entered', frame.authority \notin Contracts,
                      store'.authorityEpoch = frame.store.authorityEpoch
               PROVE  chain'.eth >= frame.chain.eth
    BY <1>3
  <2>0. TypeOK /\ frame.chain.eth \in Nat /\ store \in Store
    BY <1>3, NativeNumbers DEF VaultInv, TypeOK
  <2>1. PostExecution \/ Revert
    BY <1>3, NextIsCovered DEF Ordinary, Begin, Execute, NextAction
  <2>2. CASE PostExecution
    <3>1. /\ chain' = chain
          /\ store' = [store EXCEPT !.epochAssets = HighWaterMark(store.epochAssets, chain.assets)]
      BY <2>2 DEF PostExecution
    <3>2. store'.authorityEpoch = store.authorityEpoch
      BY <2>0, <3>1 DEF Store
    <3> QED BY <1>3, <3>1, <3>2 DEF NativeInv, OwnerAway
  <2>3. CASE Revert
    BY <2>0, <2>3 DEF Revert
  <2> QED BY <2>1, <2>2, <2>3
<1> QED BY InvariantHolds, PerimeterInvariant, <1>1, <1>2, <1>3, PTL DEF Spec, NativeKept
-----------------------------------------------------------------------------
(* The vault implements Custody *)

LEMMA FloorDiv ==
    ASSUME NEW x \in Nat, NEW y \in Nat, y > 0
    PROVE  x \div y \in Nat /\ (x \div y) * y <= x /\ x - (x \div y) * y <= y - 1
<1> DEFINE q == x \div y
           r == x % y
<1>1. q \in Nat /\ r \in 0..(y - 1) /\ x = y * q + r
  OBVIOUS
<1> HIDE DEF q, r
<1>2. y * q = q * y /\ q * y \in Nat
  BY <1>1
<1>3. q * y <= x /\ x - q * y <= y - 1
  BY <1>1, <1>2
<1> QED BY <1>1, <1>3 DEF q

LEMMA CeilCovers ==
    ASSUME NEW x \in Nat, NEW y \in Nat, y > 0
    PROVE  CeilDiv(x, y) \in Nat /\ CeilDiv(x, y) * y >= x
<1> DEFINE z == x + y - 1
           q == z \div y
<1>1. z \in Nat
  OBVIOUS
<1>2. q \in Nat /\ z - q * y <= y - 1
  <2> HIDE DEF z
  <2> QED BY <1>1, FloorDiv
<1> HIDE DEF q
<1>3. q * y \in Nat
  BY <1>2
<1>4. q * y >= x
  BY <1>2, <1>3
<1> QED BY <1>2, <1>4 DEF q, CeilDiv

\* Assets that come in for shares, at a rate no better than the vault's.
LEMMA IssueIsFair ==
    ASSUME NEW a \in Nat, NEW s \in Nat, NEW x \in Nat, NEW h \in Nat,
           h * (a + 1) <= x * (s + 1)
    PROVE  (a + x + 1) * (s + 1) >= (a + 1) * (s + h + 1)
<1>1. (a + x + 1) * (s + 1) = (a + 1) * (s + 1) + x * (s + 1)
  OBVIOUS
<1>2. (a + 1) * (s + h + 1) = (a + 1) * (s + 1) + h * (a + 1)
  OBVIOUS
<1>3. (a + 1) * (s + 1) \in Nat /\ x * (s + 1) \in Nat /\ h * (a + 1) \in Nat
  OBVIOUS
<1> QED BY <1>1, <1>2, <1>3

\* Assets that leave for shares, at a rate no better than the vault's.
LEMMA BurnIsFair ==
    ASSUME NEW a \in Nat, NEW s \in Nat, NEW x \in Nat, NEW h \in Nat,
           x <= a, h <= s, x * (s + 1) <= h * (a + 1)
    PROVE  (a - x + 1) * (s + 1) >= (a + 1) * (s - h + 1)
<1>1. (a - x + 1) * (s + 1) = (a + 1) * (s + 1) - x * (s + 1)
  OBVIOUS
<1>2. (a + 1) * (s - h + 1) = (a + 1) * (s + 1) - h * (a + 1)
  OBVIOUS
<1>3. (a + 1) * (s + 1) \in Nat /\ x * (s + 1) \in Nat /\ h * (a + 1) \in Nat
  OBVIOUS
<1> QED BY <1>1, <1>2, <1>3

\* The conversions round against whoever trades with the vault.
LEMMA TradesAreFair ==
    ASSUME TypeOK, NEW amount \in Amounts, Shares(amount)
    PROVE  /\ ~entered /\ UNCHANGED <<store, entered, frame, events>>
           /\ chain'.approved = chain.approved
           /\ (chain'.assets + 1) * (chain.supply + 1) >= (chain.assets + 1) * (chain'.supply + 1)
<1> DEFINE a == chain.assets
           s == chain.supply
<1>0. /\ amount \in Nat /\ a \in Nat /\ s \in Nat /\ a + 1 \in Nat /\ s + 1 \in Nat
      /\ a + 1 > 0 /\ s + 1 > 0 /\ chain \in Chain
      /\ amount * (s + 1) \in Nat /\ amount * (a + 1) \in Nat
  <2>1. amount \in Nat /\ a \in Nat /\ s \in Nat /\ chain \in Chain
    BY VaultAssumption, Fields DEF TypeOK
  <2> QED BY <2>1
<1>1. ~entered /\ UNCHANGED <<store, entered, frame, events>>
  BY DEF Shares, Deposit, Mint, Withdraw, Redeem, Issue, Burn
<1>2. ASSUME NEW x \in Nat, NEW h \in Nat, Issue(x, h), h * (a + 1) <= x * (s + 1)
      PROVE  /\ chain'.approved = chain.approved
             /\ (chain'.assets + 1) * (s + 1) >= (a + 1) * (chain'.supply + 1)
  <2>1. chain'.assets = a + x /\ chain'.supply = s + h /\ chain'.approved = chain.approved
    BY <1>0, <1>2 DEF Issue, Chain
  <2> QED BY <1>0, <1>2, <2>1, IssueIsFair
<1>3. ASSUME NEW x \in Nat, NEW h \in Nat, Burn(x, h), x * (s + 1) <= h * (a + 1)
      PROVE  /\ chain'.approved = chain.approved
             /\ (chain'.assets + 1) * (s + 1) >= (a + 1) * (chain'.supply + 1)
  <2>1. /\ chain'.assets = a - x /\ chain'.supply = s - h /\ chain'.approved = chain.approved
        /\ x <= a /\ h <= s
    BY <1>0, <1>3 DEF Burn, Chain
  <2> QED BY <1>0, <1>3, <2>1, BurnIsFair
<1> HIDE DEF a, s
<1>4. CASE Deposit(amount)
  <2>1. SharesDown(amount) \in Nat /\ SharesDown(amount) * (a + 1) <= amount * (s + 1)
    BY <1>0, FloorDiv DEF SharesDown, a, s
  <2> QED BY <1>0, <1>1, <1>2, <1>4, <2>1 DEF Deposit, a, s
<1>5. CASE Mint(amount)
  <2>1. AssetsUp(amount) \in Nat /\ AssetsUp(amount) * (s + 1) >= amount * (a + 1)
    BY <1>0, CeilCovers DEF AssetsUp, a, s
  <2> QED BY <1>0, <1>1, <1>2, <1>5, <2>1 DEF Mint, a, s
<1>6. CASE Withdraw(amount)
  <2>1. SharesUp(amount) \in Nat /\ SharesUp(amount) * (a + 1) >= amount * (s + 1)
    BY <1>0, CeilCovers DEF SharesUp, a, s
  <2> QED BY <1>0, <1>1, <1>3, <1>6, <2>1 DEF Withdraw, a, s
<1>7. CASE Redeem(amount)
  <2>1. AssetsDown(amount) \in Nat /\ AssetsDown(amount) * (s + 1) <= amount * (a + 1)
    BY <1>0, FloorDiv DEF AssetsDown, a, s
  <2> QED BY <1>0, <1>1, <1>3, <1>7, <2>1 DEF Redeem, a, s
<1> QED BY <1>4, <1>5, <1>6, <1>7 DEF Shares
\* The committed assets, shares and allowance are well typed.
LEMMA FundFields ==
    ASSUME TypeOK
    PROVE  /\ CommittedChain \in Chain /\ CommittedFund \in C!Fund
           /\ CommittedFund.assets = CommittedChain.assets
           /\ CommittedFund.shares = CommittedChain.supply
           /\ CommittedFund.allowance = CommittedChain.approved
<1>1. CommittedChain \in Chain
  BY FrameFields DEF CommittedChain, TypeOK
<1> QED BY <1>1 DEF CommittedFund, C!Fund, Chain

\* Steps Custody does not see.
LEMMA CustodyRests ==
    ASSUME Committed' = Committed, CommittedFund' = CommittedFund, events' = events
    PROVE  UNCHANGED C!custody_vars
<1>1. RetiredMandates' = RetiredMandates
  BY DEF RetiredMandates
<1>2. Log' = Log
  BY DEF Log, Executions
<1> QED BY <1>1, <1>2 DEF C!custody_vars

LEMMA CommittedDevelops ==
    ASSUME VaultInv, Next
    PROVE  C!Develops
<1>1. Grows(Committed, Committed') /\ Committed \in Store /\ Committed' \in Store
  BY CommittedGrows
<1>2. \A m \in Mandates : Retired(m, Committed) => Retired(m, Committed')
  BY <1>1, GrowsKeepsRetired, VaultAssumption
<1>3. RetiredMandates \subseteq RetiredMandates'
  BY <1>2 DEF RetiredMandates
<1>4. {m \in Mandates : m.authorityEpoch < Committed'.authorityEpoch} \subseteq RetiredMandates'
  BY DEF RetiredMandates, Retired
<1>5. /\ Committed.authorityEpoch <= Committed'.authorityEpoch
      /\ Committed.authorityEpoch = Committed'.authorityEpoch
           => Committed.authority = Committed'.authority
  BY <1>1 DEF Grows
<1> QED BY <1>3, <1>4, <1>5 DEF C!Develops

LEMMA PresentedStays == ASSUME TypeOK, Presented, [Next]_vars PROVE Presented'
<1>1. ASSUME NEW sender \in Accounts, Begin(sender) PROVE Presented'
  BY <1>1 DEF Begin, Execute, Presented
<1>2. ASSUME NextAction PROVE Presented'
  <2>1. frame \in Frame /\ frame' = [frame EXCEPT !.i = frame.i + 1] /\ entered
    BY <1>2 DEF NextAction, TypeOK
  <2> QED BY <2>1 DEF Presented, Frame
<1>3. ASSUME PostExecution \/ Revert PROVE Presented'
  BY <1>3 DEF PostExecution, Revert, Presented
<1>4. ASSUME UNCHANGED <<entered, frame>> PROVE Presented'
  BY <1>4 DEF Presented
<1>5. ASSUME NEW sender \in Accounts, Administer(sender) PROVE UNCHANGED <<entered, frame>>
  BY <1>5 DEF Administer, ProposeAuthority, AcceptAuthority, ResetEpoch, InvalidateNonce,
              InvalidateNoncesBelow, RevokeMandate, SweepNative
<1>6. ASSUME NEW amount \in Amounts, MoveBalances(amount) \/ Shares(amount)
      PROVE  UNCHANGED <<entered, frame>>
  BY <1>6 DEF MoveBalances, TokenTransfer, PullApproved, AssetsArrive, Receive,
              Shares, Deposit, Mint, Withdraw, Redeem, Issue, Burn
<1>7. ASSUME Tick \/ \E allowed \in BOOLEAN : TokenApprove(allowed)
      PROVE  UNCHANGED <<entered, frame>>
  BY <1>7 DEF Tick, TokenApprove
<1> QED BY <1>1, <1>2, <1>3, <1>4, <1>5, <1>6, <1>7 DEF Next, vars

\* A committed execution is one Perform.
LEMMA CommitPerforms ==
    ASSUME VaultInv, VaultInv', Presented, PostExecution
    PROVE  \E m \in Mandates : C!Perform(m)
<1> DEFINE m == frame.mandate
<1>0. TypeOK /\ TypeOK' /\ Running /\ m \in Mandates /\ entered /\ ~entered'
  BY DEF VaultInv, Presented, PostExecution
<1>1. /\ Committed = frame.store /\ CommittedChain = frame.chain
      /\ Committed' = store' /\ CommittedChain' = chain /\ chain' = chain
      /\ frame.authority = frame.store.authority
      /\ events' = Append(events, MandateExecuted)
  BY <1>0 DEF Committed, CommittedChain, PostExecution, Running
<1>2. m \notin RetiredMandates /\ m.authorityEpoch = Committed.authorityEpoch
  BY <1>0, <1>1 DEF RetiredMandates, Running
<1>3. C!Develops
  BY CommittedDevelops DEF Next
<1>4. events \in Seq(Event) /\ MandateExecuted.mandate = m
      /\ MandateExecuted.authority = Committed.authority
  BY <1>0, <1>1 DEF MandateExecuted, TypeOK
<1>5. Log' = Append(Log, [mandate |-> m, authority |-> Committed.authority])
  <2> DEFINE e == MandateExecuted
             row == [mandate |-> m, authority |-> Committed.authority]
  <2>1. /\ events' = Append(events, e) /\ events \in Seq(Event) /\ Len(events) \in Nat
        /\ row = [mandate |-> e.mandate, authority |-> e.authority]
    BY <1>1, <1>4
  <2> HIDE DEF e, row
  <2>2. /\ Len(events') = Len(events) + 1
        /\ \A i \in 1..Len(events) : events'[i] = events[i]
        /\ events'[Len(events) + 1] = e
    BY <2>1
  <2> DEFINE n == Len(events)
  <2>3. Log = [i \in 1..n |-> [mandate |-> events[i].mandate, authority |-> events[i].authority]]
    BY DEF Log, Executions
  <2>4. Log' = [i \in 1..(n + 1) |-> [mandate |-> events'[i].mandate, authority |-> events'[i].authority]]
    BY <2>2 DEF Log, Executions
  <2>5. /\ DOMAIN Log = 1..n /\ n \in Nat
        /\ Log \in Seq({Log[i] : i \in 1..n} \union {row}) /\ Len(Log) = n
    <3> HIDE DEF n
    <3>1. n \in Nat
      BY <2>1 DEF n
    <3> QED BY <2>3, <3>1
  <2>6. Append(Log, row) = [i \in 1..(n + 1) |-> IF i = n + 1 THEN row ELSE Log[i]]
    <3> DEFINE S == {Log[i] : i \in 1..n} \union {row}
               t == Append(Log, row)
    <3> HIDE DEF n, row
    <3>1. row \in S /\ Log \in Seq(S)
      BY <2>5
    <3> HIDE DEF S
    <3>2. /\ t \in Seq(S) /\ Len(t) = n + 1 /\ t[n + 1] = row
          /\ \A i \in 1..n : t[i] = Log[i]
      BY <2>5, <3>1, AppendProperties
    <3> HIDE DEF t
    <3>3. t = [i \in 1..(n + 1) |-> t[i]]
      BY <3>2
    <3>4. ASSUME NEW i \in 1..(n + 1) PROVE t[i] = IF i = n + 1 THEN row ELSE Log[i]
      <4>1. i # n + 1 => i \in 1..n
        BY <2>5
      <4> QED BY <3>2, <4>1
    <3> QED BY <3>3, <3>4 DEF t
  <2>7. ASSUME NEW i \in 1..(n + 1)
        PROVE  [mandate |-> events'[i].mandate, authority |-> events'[i].authority]
                 = IF i = n + 1 THEN row ELSE Log[i]
    <3>1. CASE i = n + 1
      BY <2>1, <2>2, <3>1
    <3>2. CASE i # n + 1
      <4>1. i \in 1..n
        BY <2>5, <3>2
      <4> QED BY <2>2, <2>3, <3>2, <4>1
    <3> QED BY <3>1, <3>2
  <2> QED BY <2>4, <2>6, <2>7 DEF row
<1>6. m \in RetiredMandates'
  <2>1. Key(frame) \in store.nonceUsed /\ Key(frame) = <<frame.authority, m.nonce>>
        /\ Grows(frame.store, store) /\ m.authorityEpoch = frame.store.authorityEpoch
    BY <1>0 DEF Running, Key
  <2>2. /\ store'.authority = store.authority /\ store'.authorityEpoch = store.authorityEpoch
        /\ store'.nonceUsed = store.nonceUsed
    BY <1>0 DEF PostExecution, TypeOK, Store
  <2>3. store.authorityEpoch \in Nat /\ frame.store.authorityEpoch \in Nat
    BY <1>0, Fields, FrameFields DEF Store
  <2>4. Retired(m, store')
    <3>1. /\ frame.store.authorityEpoch <= store.authorityEpoch
          /\ frame.store.authorityEpoch = store.authorityEpoch => frame.authority = store.authority
      BY <1>1, <2>1 DEF Grows
    <3>2. CASE m.authorityEpoch < store'.authorityEpoch
      BY <3>2 DEF Retired
    <3>3. CASE m.authorityEpoch = store'.authorityEpoch
      <4>1. <<store'.authority, m.nonce>> \in store'.nonceUsed
        BY <2>1, <2>2, <3>1, <3>3
      <4> QED BY <3>3, <4>1 DEF Retired
    <3> QED BY <2>1, <2>2, <2>3, <3>1, <3>2, <3>3
  <2> QED BY <1>0, <1>1, <2>4 DEF RetiredMandates
<1>7. /\ CommittedFund' \in C!Fund
      /\ CommittedFund'.shares = CommittedFund.shares
      /\ CommittedFund'.assets * BPS >= CommittedFund.assets * (BPS - m.maxDrawdownBps)
      /\ CommittedFund'.assets + MaxSingleAbsoluteLoss(m.extensionsHash) >= CommittedFund.assets
  <2>1. /\ CommittedFund.assets = frame.chain.assets /\ CommittedFund.shares = frame.chain.supply
        /\ CommittedFund'.assets = chain.assets /\ CommittedFund'.shares = chain.supply
    BY <1>1 DEF CommittedFund
  <2>2. /\ chain.supply = frame.chain.supply /\ m.maxDrawdownBps \in 0..BPS
        /\ frame.maxLoss = MaxSingleAbsoluteLoss(m.extensionsHash) /\ frame.maxLoss \in Nat
        /\ chain.assets \in Nat /\ frame.chain.assets \in Nat
        /\ frame.preAssets = frame.chain.assets
    BY <1>0, Fields, FrameFields DEF Running, Chain
  <2>3. /\ CheckSingleDrawdown(frame.chain.assets, chain.assets, m.maxDrawdownBps)
        /\ CheckSingleAbsoluteLoss(frame.chain.assets, chain.assets, frame.maxLoss)
    BY <2>2 DEF PostExecution, BreakerHolds
  <2>4. chain.assets * BPS >= frame.chain.assets * (BPS - m.maxDrawdownBps)
    <3>1. CheckCumulativeDrawdown(frame.chain.assets, chain.assets, m.maxDrawdownBps)
      BY <2>3 DEF CheckSingleDrawdown, CheckCumulativeDrawdown
    <3> QED BY <2>2, <3>1, BreakerBound
  <2>5. chain.assets + frame.maxLoss >= frame.chain.assets
    BY <2>2, <2>3 DEF CheckSingleAbsoluteLoss
  <2>6. CommittedFund' \in C!Fund
    <3>1. chain.approved \in BOOLEAN /\ chain.supply \in Nat
      BY <1>0, Fields
    <3> QED BY <1>1, <2>2, <3>1 DEF CommittedFund, C!Fund
  <2> QED BY <2>1, <2>2, <2>4, <2>5, <2>6
<1>8. C!BPS = BPS
      /\ C!MaxSingleAbsoluteLoss(m.extensionsHash) = MaxSingleAbsoluteLoss(m.extensionsHash)
  BY DEF C!BPS, BPS, C!MaxSingleAbsoluteLoss, MaxSingleAbsoluteLoss, C!Applied, Applied,
         C!AbsoluteLossId, AbsoluteLossId
<1>9. C!Perform(m)
  BY <1>2, <1>3, <1>5, <1>6, <1>7, <1>8 DEF C!Perform
<1> QED BY <1>0, <1>9
\* The authority's calls between two executions.
LEMMA AdministerIsCustody ==
    ASSUME VaultInv, ~entered, NEW sender \in Accounts, Administer(sender)
    PROVE  C!Administer
<1>1. TypeOK /\ chain \in Chain
  BY DEF VaultInv, TypeOK
<1>2. /\ UNCHANGED <<entered, events>>
      /\ chain'.assets = chain.assets /\ chain'.supply = chain.supply
      /\ chain'.approved = chain.approved
  BY <1>1 DEF Administer, ProposeAuthority, AcceptAuthority, ResetEpoch, InvalidateNonce,
              InvalidateNoncesBelow, RevokeMandate, SweepNative, Chain
<1>3. CommittedChain = chain /\ CommittedChain' = chain'
  BY <1>2 DEF CommittedChain
<1>4. CommittedFund' = CommittedFund
  BY <1>2, <1>3 DEF CommittedFund
<1>5. Log' = Log
  BY <1>2 DEF Log, Executions
<1>6. C!Develops
  BY CommittedDevelops DEF Next
<1> QED BY <1>4, <1>5, <1>6 DEF C!Administer

\* Balances that move between two executions.
LEMMA MovesAreCustody ==
    ASSUME VaultInv, VaultInv', ~entered,
           NEW amount \in Amounts, MoveBalances(amount) \/ Shares(amount)
    PROVE  C!Trade \/ C!UseAllowance \/ UNCHANGED C!custody_vars
<1>0. /\ TypeOK /\ TypeOK' /\ chain \in Chain /\ chain' \in Chain /\ amount \in Nat
      /\ chain.assets \in Nat /\ chain.supply \in Nat
  BY Fields, VaultAssumption DEF VaultInv, TypeOK
<1>1. UNCHANGED <<store, entered, frame, events>>
  BY DEF MoveBalances, TokenTransfer, PullApproved, AssetsArrive, Receive,
         Shares, Deposit, Mint, Withdraw, Redeem, Issue, Burn
<1>2. /\ CommittedChain = chain /\ CommittedChain' = chain'
      /\ Committed = store /\ Committed' = store'
  BY <1>1 DEF CommittedChain, Committed
<1>3. /\ CommittedFund = [assets |-> chain.assets, shares |-> chain.supply, allowance |-> chain.approved]
      /\ CommittedFund' = [assets |-> chain'.assets, shares |-> chain'.supply, allowance |-> chain'.approved]
      /\ CommittedFund' \in C!Fund
  BY <1>0, <1>2 DEF CommittedFund, C!Fund, Chain
<1>4. RetiredMandates' = RetiredMandates /\ Log' = Log
  BY <1>1, <1>2 DEF RetiredMandates, Log, Executions
<1>5. ASSUME chain'.approved = chain.approved,
             (chain'.assets + 1) * (chain.supply + 1) >= (chain.assets + 1) * (chain'.supply + 1)
      PROVE  C!Trade
  BY <1>1, <1>2, <1>3, <1>4, <1>5 DEF C!Trade, C!NoShareLoses
<1>6. CASE Shares(amount)
  BY <1>0, <1>5, <1>6, TradesAreFair
<1>7. CASE AssetsArrive(amount)
  <2>1. /\ chain'.assets = chain.assets + amount /\ chain'.supply = chain.supply
        /\ chain'.approved = chain.approved
    BY <1>0, <1>7 DEF AssetsArrive, Chain
  <2>2. (chain.assets + 1) * (chain.supply + 1) <= (chain.assets + amount + 1) * (chain.supply + 1)
    BY <1>0, ProductMonotone
  <2> QED BY <1>0, <1>5, <2>1, <2>2
<1>8. CASE PullApproved(amount)
  <2>1. /\ chain' = [chain EXCEPT !.assets = chain.assets - amount]
        /\ chain.approved /\ amount <= chain.assets
    BY <1>8 DEF PullApproved
  <2>2. /\ chain'.assets = chain.assets - amount /\ chain'.supply = chain.supply
        /\ chain'.approved = chain.approved
    BY <1>0, <2>1 DEF Chain
  <2>3. amount \in 0..chain.assets
    BY <1>0, <2>1
  <2>4. CommittedFund'
          = [assets |-> chain.assets - amount, shares |-> chain.supply, allowance |-> chain.approved]
    BY <1>3, <2>2
  <2>5. CommittedFund' = [CommittedFund EXCEPT !.assets = CommittedFund.assets - amount]
    <3>1. ASSUME NEW a, NEW b, NEW c, NEW d
          PROVE  [[assets |-> a, shares |-> b, allowance |-> c] EXCEPT !.assets = d]
                   = [assets |-> d, shares |-> b, allowance |-> c]
      OBVIOUS
    <3>2. CommittedFund.assets = chain.assets
      BY <1>3
    <3> QED BY <1>3, <2>4, <3>1, <3>2
  <2>6. CommittedFund.allowance /\ amount \in 0..CommittedFund.assets
    BY <1>3, <2>1, <2>3
  <2> QED BY <1>1, <1>2, <1>4, <2>5, <2>6 DEF C!UseAllowance
<1>9. CASE Receive(amount)
  <2>1. CommittedFund' = CommittedFund
    BY <1>0, <1>3, <1>9 DEF Receive, Chain
  <2> QED BY <1>1, <1>2, <2>1, CustodyRests
<1>10. ~TokenTransfer(amount)
  BY DEF TokenTransfer
<1> QED BY <1>6, <1>7, <1>8, <1>9, <1>10 DEF MoveBalances

\* Nothing that happens inside an execution, or undoes one, shows.
LEMMA RunningIsHidden ==
    ASSUME VaultInv, [Next]_vars, entered \/ entered', ~PostExecution
    PROVE  UNCHANGED C!custody_vars
<1>0. TypeOK
  BY DEF VaultInv
<1>1. ASSUME NEW sender \in Accounts, Begin(sender) PROVE UNCHANGED C!custody_vars
  <2>1. /\ ~entered /\ entered' /\ events' = events
        /\ frame'.store = store /\ frame'.chain = chain
    BY <1>1 DEF Begin, Execute
  <2>2. Committed' = Committed /\ CommittedChain' = CommittedChain
    BY <2>1 DEF Committed, CommittedChain
  <2> QED BY <2>1, <2>2, CustodyRests DEF CommittedFund
<1>2. ASSUME NextAction PROVE UNCHANGED C!custody_vars
  <2>1. /\ frame \in Frame /\ frame' = [frame EXCEPT !.i = frame.i + 1]
        /\ entered /\ entered' /\ events' = events
    BY <1>0, <1>2 DEF NextAction, TypeOK
  <2>2. frame'.store = frame.store /\ frame'.chain = frame.chain
    BY <2>1 DEF Frame
  <2>3. Committed' = Committed /\ CommittedChain' = CommittedChain
    BY <2>1, <2>2 DEF Committed, CommittedChain
  <2> QED BY <2>1, <2>3, CustodyRests DEF CommittedFund
<1>3. ASSUME Revert PROVE UNCHANGED C!custody_vars
  <2>1. Committed' = Committed /\ CommittedChain' = CommittedChain /\ events' = events
    BY <1>3 DEF Revert, Committed, CommittedChain
  <2> QED BY <2>1, CustodyRests DEF CommittedFund
<1>4. ASSUME Ordinary \/ UNCHANGED vars PROVE UNCHANGED C!custody_vars
  <2>1. UNCHANGED <<entered, frame, events>> /\ entered
    BY <1>4 DEF Ordinary, vars
  <2>2. Committed' = Committed /\ CommittedChain' = CommittedChain
    BY <2>1 DEF Committed, CommittedChain
  <2> QED BY <2>1, <2>2, CustodyRests DEF CommittedFund
<1> QED BY <1>1, <1>2, <1>3, <1>4, NextIsCovered

LEMMA StepImplementsCustody ==
    ASSUME VaultInv, VaultInv', Presented, [Next]_vars
    PROVE  C!Next \/ UNCHANGED C!custody_vars
<1>1. CASE PostExecution
  BY <1>1, CommitPerforms DEF C!Next
<1>2. CASE ~PostExecution /\ (entered \/ entered')
  BY <1>2, RunningIsHidden
<1>3. CASE ~PostExecution /\ ~entered /\ ~entered'
  <2>1. ASSUME NEW sender \in Accounts, Administer(sender) PROVE C!Next
    BY <1>3, <2>1, AdministerIsCustody DEF C!Next
  <2>2. \A sender \in Accounts : ~Begin(sender)
    BY <1>3 DEF Begin, Execute
  <2>3. ~NextAction /\ ~Revert /\ \A allowed \in BOOLEAN : ~TokenApprove(allowed)
    BY <1>3 DEF NextAction, Revert, TokenApprove
  <2>4. ASSUME NEW amount \in Amounts, MoveBalances(amount) \/ Shares(amount)
        PROVE  C!Next \/ UNCHANGED C!custody_vars
    BY <1>3, <2>4, MovesAreCustody DEF C!Next
  <2>5. ASSUME Tick \/ UNCHANGED vars PROVE UNCHANGED C!custody_vars
    <3>1. UNCHANGED <<store, chain, entered, frame, events>>
      BY <2>5 DEF Tick, vars
    <3>2. Committed' = Committed /\ CommittedFund' = CommittedFund /\ events' = events
      BY <3>1 DEF Committed, CommittedFund, CommittedChain
    <3> QED BY <3>2, CustodyRests
  <2> QED BY <1>3, <2>1, <2>2, <2>3, <2>4, <2>5 DEF Next
<1> QED BY <1>1, <1>2, <1>3

\* The vault implements Custody: seen from its shares and its authority an
\* execution is one step, bounded and signed, whatever the adapters call back
\* and however the conversions round (execute, _postExecution, VaultBusy).
THEOREM VaultImplementsCustody == Spec => ImplementsCustody
<1>1. Init => C!Init /\ Presented
  <2> SUFFICES ASSUME Init PROVE C!Init /\ Presented
    OBVIOUS
  <2>1. ~entered /\ events = << >>
    BY DEF Init
  <2>2. Committed = store /\ CommittedChain = chain
    BY <2>1 DEF Committed, CommittedChain
  <2>3. RetiredMandates = {}
    <3>1. ASSUME NEW m \in Mandates PROVE ~Retired(m, store)
      <4>1. m.authorityEpoch \in Nat /\ m.nonce \in Nat
        BY VaultAssumption DEF Mandate
      <4>2. /\ store.authorityEpoch = 0 /\ store.nonceUsed = {} /\ store.mandateRevoked = {}
            /\ store.nonceThreshold[store.authority] = 0
        BY VaultAssumption DEF Init
      <4> QED BY <4>1, <4>2 DEF Retired
    <3> QED BY <2>2, <3>1 DEF RetiredMandates
  <2>4. Log = << >>
    BY <2>1 DEF Log, Executions
  <2>5. /\ Committed.authority = InitialAuthority /\ Committed.authorityEpoch = 0
        /\ CommittedFund = [assets |-> 0, shares |-> 0, allowance |-> FALSE]
    BY <2>2 DEF Init, CommittedFund
  <2> QED BY <2>1, <2>3, <2>4, <2>5 DEF C!Init, Presented
<1>2. VaultInv /\ Presented /\ [Next]_vars => Presented'
  BY PresentedStays DEF VaultInv
<1>3. VaultInv /\ VaultInv' /\ Presented /\ [Next]_vars => [C!Next]_(C!custody_vars)
  BY StepImplementsCustody
<1> QED BY <1>1, <1>2, <1>3, InvariantHolds, PTL DEF Spec, ImplementsCustody, C!Spec
=============================================================================
