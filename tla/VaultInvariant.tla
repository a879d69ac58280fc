--------------------------- MODULE VaultInvariant ---------------------------
(***************************************************************************)
(* The inductive invariant behind the safety properties of MandatedVault.  *)
(* Model-checked as an invariant, proved in VaultSafetyProofs.           *)
(***************************************************************************)
EXTENDS MandatedVault

\* What marks an event, or the running execution, as spent.
Key(e) == <<e.authority, e.mandate.nonce>>

\* How storage may develop: epochs only grow and the authority changes only
\* with them; nonces, revocations and thresholds are never given back.
Grows(s, t) ==
    /\ s.authorityEpoch <= t.authorityEpoch
    /\ s.authorityEpoch = t.authorityEpoch => s.authority = t.authority
    /\ s.nonceUsed \subseteq t.nonceUsed
    /\ s.mandateRevoked \subseteq t.mandateRevoked
    /\ \A a \in Accounts : s.nonceThreshold[a] <= t.nonceThreshold[a]

\* Every execution left its mark in storage s.
Spent(s) ==
    \A i \in Executions :
        /\ Key(events[i]) \in s.nonceUsed
        /\ events[i].mandate.authorityEpoch <= s.authorityEpoch
        /\ events[i].mandate.authorityEpoch = s.authorityEpoch
             => events[i].authority = s.authority

\* The mark of storage s bounds the results of the epoch g observes last.
Marked(s, g) ==
    /\ s.epochStart = 0 => Len(g.baselines) = 0
    /\ s.epochStart # 0 => /\ Len(g.baselines) > 0
                           /\ g.baselines[Len(g.baselines)] <= s.epochAssets
    /\ \A i \in Executions :
          events[i].period = Len(g.baselines) => events[i].postAssets <= s.epochAssets

Proposed(s, g) == s.pendingAuthority # None => g.proposer = s.authority

CommittedGhost == IF entered THEN frame.ghost ELSE ghost

Prefix(short, long) ==
    /\ Len(short) <= Len(long)
    /\ \A k \in 1..Len(short) : short[k] = long[k]

\* The execution that is running.
Running ==
    /\ Grows(frame.store, store)
    /\ frame.authority = frame.store.authority
    /\ ~Retired(frame.mandate, frame.store)
    /\ frame.mandate.authorityEpoch = frame.store.authorityEpoch
    /\ Key(frame) \in store.nonceUsed
    /\ Prefix(frame.ghost.baselines, ghost.baselines)
    /\ store.epochStart # 0
    /\ chain.supply = frame.chain.supply
    /\ frame.preAssets = frame.chain.assets
    /\ frame.maxLoss = MaxSingleAbsoluteLoss(frame.mandate.extensionsHash)
    /\ frame.mandate.maxDrawdownBps \in 0..BPS
    /\ frame.mandate.maxCumulativeDrawdownBps \in 0..BPS

Periods == \A i \in Executions : events[i].period \in 1..Len(CommittedGhost.baselines)

\* Every part holds in storage as it is and in the storage a revert restores.
VaultInv ==
    /\ TypeOK
    /\ entered => Running
    /\ Spent(Committed) /\ NonceAtMostOnce /\ EpochBarrier
    /\ Marked(store, ghost) /\ Marked(Committed, CommittedGhost)
    /\ Periods /\ NoThousandCuts /\ BaselineProtected
    /\ Proposed(store, ghost) /\ Proposed(Committed, CommittedGhost)
=============================================================================
