---------------------------- MODULE MandateRules ----------------------------
(***************************************************************************)
(* The pure rules MandatedVaultClone.execute() applies to its inputs: the  *)
(* checks of MandateLib, AdapterLib and DrawdownLib and the parsing of the *)
(* extensions blob.  Nothing here reads or writes the vault's state.       *)
(*                                                                         *)
(* Hashes are modelled by what they commit to: a mandate hash is the       *)
(* mandate, an actions digest is the sequence of actions, a Merkle root is *)
(* the set of its leaves (a proof for a leaf exists exactly when the leaf  *)
(* is in the set), an extensions hash is the blob.                         *)
(***************************************************************************)
EXTENDS Naturals, Sequences

CONSTANTS
    Accounts,       \* addresses that send calls or are called
    Contracts,      \* the addresses that hold code
    None,           \* address(0), and "data shorter than four bytes"
    CodeHash,       \* the code hash of every contract
    Selectors,      \* function selectors
    MAX_ACTIONS,
    MAX_EXTENSIONS,
    MAX_EXTENSIONS_BYTES,
    MaxUint256      \* 2^256 - 1 in the code

ASSUME AccountsAssumption == Contracts \subseteq Accounts /\ None \notin Accounts
ASSUME LimitsAssumption == 
    /\ MAX_ACTIONS \in Nat 
    /\ MAX_EXTENSIONS \in Nat 
    /\ MAX_EXTENSIONS_BYTES \in Nat
    /\ MaxUint256 \in Nat

BPS == 10000

\* The two extensions this vault supports, in the order of their ids.
AbsoluteLossId == 1
SelectorAllowlistId == 2
SupportedIds == {AbsoluteLossId, SelectorAllowlistId}

Action == [adapter: Accounts, value: Nat, selector: Selectors \union {None}]

\* data is what the bytes of an extension decode to; "proofs" counts the
\* selector proofs, one per action when the extension fits the batch.
Extension ==
    [id: Nat, required: BOOLEAN, decodes: BOOLEAN,
     allowed: SUBSET (Accounts \X Selectors), proofs: Nat, limit: Nat]

Blob == [size: Nat, decodes: BOOLEAN, exts: Seq(Extension)]

Mandate ==
    [executor: Accounts \union {None}, nonce: Nat, deadline: Nat,
     authorityEpoch: Nat, maxDrawdownBps: Nat, maxCumulativeDrawdownBps: Nat,
     allowedAdaptersRoot: SUBSET (Contracts \X {CodeHash[c] : c \in Contracts}),
     payloadDigest: Seq(Action), extensionsHash: Blob]

\* bytes32(0) in the fields that hold hashes: no payload bound, no root.
NoPayload == << >>
NoRoot == {}

-----------------------------------------------------------------------------
(* MandateLib *)

DeadlineOK(m, now) == m.deadline # 0 => now <= m.deadline

ExecutorOK(m, sender) == m.executor # None => sender = m.executor

\* An open mandate must fix the actions it allows.
BoundedIfOpen(m) == ~(m.executor = None /\ m.payloadDigest = NoPayload)

BpsOK(m) ==
    /\ m.maxDrawdownBps <= BPS
    /\ m.maxCumulativeDrawdownBps <= BPS
    /\ m.maxCumulativeDrawdownBps >= m.maxDrawdownBps

SizesOK(actions, proofs, blob) ==
    /\ Len(actions) \in 1..MAX_ACTIONS
    /\ proofs = Len(actions)
    /\ blob.size <= MAX_EXTENSIONS_BYTES

ValidateFields(m, currentEpoch, sender, now, actions, proofs, blob) ==
    /\ DeadlineOK(m, now)
    /\ ExecutorOK(m, sender)
    /\ BoundedIfOpen(m)
    /\ m.authorityEpoch = currentEpoch
    /\ BpsOK(m)
    /\ m.allowedAdaptersRoot # NoRoot
    /\ SizesOK(actions, proofs, blob)

ValidatePayloadDigest(m, actions) ==
    m.payloadDigest # NoPayload => m.payloadDigest = actions

-----------------------------------------------------------------------------
(* AdapterLib *)

\* Mutant: NonZeroActionValue is not raised.
AdapterAllowedAnyValue(action, root) ==
    /\ action.adapter \in Contracts
    /\ <<action.adapter, CodeHash[action.adapter]>> \in root

\* Code, no native value, and the (adapter, code hash) leaf in the signed root.
AdapterAllowed(action, root) ==
    /\ action.adapter \in Contracts
    /\ action.value = 0
    /\ <<action.adapter, CodeHash[action.adapter]>> \in root

ValidateAdapters(actions, root) ==
    \A i \in 1..Len(actions) : AdapterAllowed(actions[i], root)

EnforceSelectorAllowlist(actions, ext) ==
    /\ ext.proofs = Len(actions)
    /\ \A i \in 1..Len(actions) :
          /\ actions[i].selector # None
          /\ <<actions[i].adapter, actions[i].selector>> \in ext.allowed

-----------------------------------------------------------------------------
(* _parseExtensions and _validateAllowlists of MandatedVaultClone *)

\* Mutant: ids may repeat, as long as they do not descend.
CanonicalWithRepeats(exts) == \A i \in 2..Len(exts) : exts[i - 1].id <= exts[i].id

Canonical(exts) == \A i \in 2..Len(exts) : exts[i - 1].id < exts[i].id

ParseExtensions(blob) ==
    /\ blob.decodes
    /\ Len(blob.exts) <= MAX_EXTENSIONS
    /\ Canonical(blob.exts)
    /\ \A i \in 1..Len(blob.exts) :
          /\ blob.exts[i].required => blob.exts[i].id \in SupportedIds
          /\ blob.exts[i].id \in SupportedIds => blob.exts[i].decodes

\* The extensions of a blob that the loop applies for one supported id: the
\* last one, the later assignment winning.
Applied(blob, id) ==
    {i \in 1..Len(blob.exts) :
        /\ blob.exts[i].id = id
        /\ \A j \in (i + 1)..Len(blob.exts) : blob.exts[j].id # id}

\* The absolute loss limit of a batch: uint256.max without the extension.
MaxSingleAbsoluteLoss(blob) ==
    LET at == Applied(blob, AbsoluteLossId)
    IN  IF blob.size = 0 \/ at = {} THEN MaxUint256
        ELSE blob.exts[CHOOSE i \in at : TRUE].limit

ValidateAllowlists(m, actions, blob) ==
    /\ ValidateAdapters(actions, m.allowedAdaptersRoot)
    /\ blob.size # 0 =>
          /\ ParseExtensions(blob)
          /\ \A i \in Applied(blob, SelectorAllowlistId) :
                EnforceSelectorAllowlist(actions, blob.exts[i])

-----------------------------------------------------------------------------
(* DrawdownLib.  Multiplication is checked: a product above uint256.max    *)
(* reverts the execution, so it counts as a refusal here.                  *)

Fits(product) == product <= MaxUint256

\* Mutant: unchecked multiplication, the product wraps.
LossWithinWrapped(base, post, bps) ==
    ((base - post) * BPS) % (MaxUint256 + 1) <= (base * bps) % (MaxUint256 + 1)

\* loss / base <= bps / 10_000, in the integer form of the code.
LossWithin(base, post, bps) ==
    /\ Fits((base - post) * BPS)
    /\ Fits(base * bps)
    /\ (base - post) * BPS <= base * bps

CheckSingleDrawdown(preAssets, postAssets, maxDrawdownBps) ==
    (preAssets # 0 /\ preAssets > postAssets) =>
        LossWithin(preAssets, postAssets, maxDrawdownBps)

CheckSingleAbsoluteLoss(preAssets, postAssets, maxLoss) ==
    preAssets > postAssets => preAssets - postAssets <= maxLoss

CheckCumulativeDrawdown(epochAssets, postAssets, maxCumulativeBps) ==
    (epochAssets # 0 /\ epochAssets > postAssets) =>
        LossWithin(epochAssets, postAssets, maxCumulativeBps)

\* Mutant: the mark never rises.
HighWaterMarkStays(epochAssets, postAssets) == epochAssets

\* The high-water mark checkCumulativeDrawdown returns.
HighWaterMark(epochAssets, postAssets) ==
    IF postAssets > epochAssets THEN postAssets ELSE epochAssets
=============================================================================
