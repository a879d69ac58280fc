------------------------------ MODULE Custody ------------------------------
(***************************************************************************)
(* What a mandated vault promises to whoever holds its shares and to the   *)
(* authority that signs for it, said without transactions, callbacks,      *)
(* nonces or epochs of loss: an executed mandate is one step, taken under  *)
(* the authority of that moment, bounded in what it may cost, and never    *)
(* taken again; every other step leaves the shares worth what they were,   *)
(* except the use of an allowance an executed mandate left behind.         *)
(***************************************************************************)
EXTENDS MandateRules

CONSTANTS
    InitialAuthority,
    Mandates          \* the mandates anyone may present

VARIABLES
    authority,  \* the account that signs
    epoch,      \* how often the authority changed hands
    retired,    \* the mandates that can no longer be executed
    fund,       \* the assets, the shares, whether an allowance is left
    executed    \* the mandates executed, each with the authority it ran under

custody_vars == <<authority, epoch, retired, fund, executed>>

Fund == [assets: Nat, shares: Nat, allowance: BOOLEAN]

Init ==
    /\ authority = InitialAuthority /\ epoch = 0
    /\ retired = {}
    /\ fund = [assets |-> 0, shares |-> 0, allowance |-> FALSE]
    /\ executed = << >>

\* What the authority does to itself: it changes hands only with the epoch,
\* and a mandate is retired for good, at the latest when its epoch passes.
Develops ==
    /\ epoch <= epoch'
    /\ epoch = epoch' => authority = authority'
    /\ retired \subseteq retired'
    /\ {m \in Mandates : m.authorityEpoch < epoch'} \subseteq retired'

Administer == UNCHANGED <<fund, executed>> /\ Develops

\* A mandate is executed: once, in its own epoch, for at most the loss it
\* allows, and without a share issued or burned.  The batch may have changed
\* the authority, retired other mandates and left an allowance.
Perform(m) ==
    /\ m \notin retired /\ m.authorityEpoch = epoch
    /\ Develops /\ m \in retired'
    /\ executed' = Append(executed, [mandate |-> m, authority |-> authority])
    /\ fund' \in Fund /\ fund'.shares = fund.shares
    /\ fund'.assets * BPS >= fund.assets * (BPS - m.maxDrawdownBps)
    /\ fund'.assets + MaxSingleAbsoluteLoss(m.extensionsHash) >= fund.assets

\* Deposits, withdrawals and gifts: no share is worth less afterwards, the
\* one virtual asset and share of the conversion counted in.
NoShareLoses(after) ==
    (after.assets + 1) * (fund.shares + 1) >= (fund.assets + 1) * (after.shares + 1)

Trade ==
    /\ fund' \in Fund /\ fund'.allowance = fund.allowance
    /\ NoShareLoses(fund')
    /\ UNCHANGED <<authority, epoch, retired, executed>>

\* Whoever was left with an allowance takes what it covers.
UseAllowance ==
    /\ fund.allowance
    /\ \E taken \in 0..fund.assets : fund' = [fund EXCEPT !.assets = @ - taken]
    /\ UNCHANGED <<authority, epoch, retired, executed>>

Next ==
    \/ Administer
    \/ \E m \in Mandates : Perform(m)
    \/ Trade
    \/ UseAllowance

Spec == Init /\ [][Next]_custody_vars
=============================================================================
