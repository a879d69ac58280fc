------------------------------- MODULE MCVault -------------------------------
(***************************************************************************)
(* Values for the constants of MandatedVault.  The account "eoa" is an     *)
(* externally owned authority and executor, "hook" a contract that serves  *)
(* as an adapter that calls back and as an authority, "token" the asset.   *)
(***************************************************************************)
EXTENDS VaultCustody

Leaf(c) == <<c, CodeHash[c]>>

Ext(id, limit, allowed, proofs) ==
    [id |-> id, limit |-> limit, allowed |-> allowed, proofs |-> proofs,
     required |-> TRUE, decodes |-> TRUE]

Encode(exts) == [decodes |-> TRUE, exts |-> exts, size |-> 1]

NoExtensions == [decodes |-> FALSE, exts |-> << >>, size |-> 0]

Call(adapter, selector) == [adapter |-> adapter, selector |-> selector, value |-> 0]

\* A mandate for "eoa" to run any batch on the given adapters.
Base(epoch, nonce, single, cumulative, root) ==
    [nonce |-> nonce, executor |-> "eoa", deadline |-> 0, authorityEpoch |-> epoch,
     maxDrawdownBps |-> single, maxCumulativeDrawdownBps |-> cumulative,
     allowedAdaptersRoot |-> root, payloadDigest |-> NoPayload,
     extensionsHash |-> NoExtensions]

Both == {Leaf("token"), Leaf("hook")}

MCAccounts == {"eoa", "hook", "token"}
MCContracts == {"hook", "token"}
MCNone == "none"
MCCodeHash == [c \in Contracts |-> c]

\* Where no token is at stake the asset is the one contract there is.
TwoAccounts == {"eoa", "hook"}
OneContract == {"hook"}
MCSelectors == {"transfer", "approve", "swap"}

Swap == << Call("hook", "swap") >>
Transfer == << Call("token", "transfer") >>
ApproveSwap == << Call("token", "approve"), Call("hook", "swap") >>

-----------------------------------------------------------------------------
NoMandates == {}
Nobody == {None}   \* a proposal of address(0) withdraws the pending one
Anybody == Accounts \union {None}

(* Authority, nonces and revocation: nothing at stake in tokens. *)

AuthorityMandates ==
    {Base(0, 0, 0, 0, {Leaf("hook")}),
     Base(1, 0, 0, 0, {Leaf("hook")}),
     Base(2, 0, 0, 0, {Leaf("hook")}),
     Base(0, 1, 0, 0, {Leaf("hook")})}
AuthorityBatches == {Swap}

(* Losses: half of the assets per execution and per epoch, or everything. *)
LossMandates ==
    {[Base(0, 0, 5000, 5000, Both) EXCEPT
        !.extensionsHash = Encode(<<Ext(AbsoluteLossId, 1, {}, 0)>>)],
     Base(0, 1, 5000, 5000, Both)}
LossBatches == {Transfer, ApproveSwap}

-----------------------------------------------------------------------------
(* Every way a mandate, a batch or a blob can be refused. *)

CallWithValue == [adapter |-> "hook", value |-> 1, selector |-> "swap"]
ShortData == << Call("hook", None) >>
PaidSwap == << CallWithValue >>
SwapTwice == Swap \o Swap
SwapThrice == SwapTwice \o Swap
PerimeterBatches ==
    {<< >>, Swap, Transfer, ShortData, PaidSwap, << Call("eoa", "swap") >>,
     SwapTwice, SwapThrice}

Plain == Base(0, 0, 10000, 10000, Both)
OnlySwap == Ext(SelectorAllowlistId, 0, {<<"hook", "swap">>}, 1)
AnyCall == Ext(SelectorAllowlistId, 0, MCContracts \X MCSelectors, 1)
Unknown(required) == [Ext(7, 0, {}, 0) EXCEPT !.required = required]
Garbled == [OnlySwap EXCEPT !.decodes = FALSE]

PerimeterBlobs ==
    {Encode(<<OnlySwap>>), Encode(<<OnlySwap, AnyCall>>),
     Encode(<<Ext(AbsoluteLossId, 1, {}, 0), OnlySwap>>),
     Encode(<<OnlySwap, Unknown(TRUE)>>), Encode(<<OnlySwap, Unknown(FALSE)>>),
     Encode(<<Garbled>>), Encode(<<AnyCall, Unknown(FALSE), Unknown(FALSE)>>),
     [Encode(<<OnlySwap>>) EXCEPT !.decodes = FALSE],
     [Encode(<<OnlySwap>>) EXCEPT !.size = 3]}

PerimeterMandates ==
    {[Plain EXCEPT !.extensionsHash = b] : b \in PerimeterBlobs}
    \union {Plain,
            [Plain EXCEPT !.executor = None],
            [Plain EXCEPT !.executor = None, !.payloadDigest = Swap],
            [Plain EXCEPT !.payloadDigest = Transfer],
            [Plain EXCEPT !.deadline = 1],
            [Plain EXCEPT !.allowedAdaptersRoot = {Leaf("hook")}],
            [Plain EXCEPT !.allowedAdaptersRoot = NoRoot],
            [Plain EXCEPT !.maxDrawdownBps = 5000, !.maxCumulativeDrawdownBps = 2500],
            [Plain EXCEPT !.maxDrawdownBps = 10001, !.maxCumulativeDrawdownBps = 10001]}

(* Two losses of one half each, in one epoch. *)
PeakMandates == {Base(0, n, 5000, 5000, {Leaf("token")}) : n \in 0..1}
TransferOnly == {Transfer}
=============================================================================
