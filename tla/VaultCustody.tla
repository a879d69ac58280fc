---------------------------- MODULE VaultCustody ----------------------------
(***************************************************************************)
(* MandatedVault as an implementation of Custody.  While an execution runs *)
(* the custody is the one a revert would restore: nothing an adapter does  *)
(* shows before the circuit breaker let it pass, and then all of it shows  *)
(* at once.  Checked as a property of a run, proved in VaultSafetyProofs.  *)
(***************************************************************************)
EXTENDS VaultInvariant

CommittedChain == IF entered THEN frame.chain ELSE chain

RetiredMandates == {m \in Mandates : Retired(m, Committed)}

CommittedFund ==
    [assets |-> CommittedChain.assets, shares |-> CommittedChain.supply,
     allowance |-> CommittedChain.approved]

Log == [i \in Executions |->
           [mandate |-> events[i].mandate, authority |-> events[i].authority]]

\* The mandate of a running execution is one that callers may present.
Presented == entered => frame.mandate \in Mandates

C == INSTANCE Custody WITH
        authority <- Committed.authority, epoch <- Committed.authorityEpoch,
        retired <- RetiredMandates, fund <- CommittedFund, executed <- Log

\* The vault keeps the promises of Custody: with callbacks into every entry
\* point, reverts, share trades rounded at the edge of a unit and allowances
\* that outlive their batch, an execution is one bounded step of the authority
\* that signed it, and no other step takes value from a share (execute, the
\* VaultBusy guards, the conversions of ERC4626Upgradeable, acceptAuthority).
ImplementsCustody == C!Spec
=============================================================================
