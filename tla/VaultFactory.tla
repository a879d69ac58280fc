---------------------------- MODULE VaultFactory ----------------------------
(***************************************************************************)
(* VaultFactory: clones MandatedVaultClone at CREATE2 addresses and keeps  *)
(* a registry of what it cloned.  createVault() is one transaction without *)
(* callbacks (the only outside call it causes is the static call that      *)
(* reads the decimals of the asset), so it is one step.                    *)
(*                                                                         *)
(* A hash is modelled by what it commits to: the salt of a clone is the    *)
(* tuple of the arguments it is computed from, and its address is the salt *)
(* (factory and implementation are fixed).  Anybody can also clone the     *)
(* implementation without the factory; such a clone has an address of its  *)
(* own and starts uninitialized.                                           *)
(***************************************************************************)
EXTENDS Naturals, Sequences, FiniteSets

CONSTANTS
    Callers,      \* accounts that call the factory
    Assets,       \* ERC-20 tokens
    Labels,       \* pairs of name and symbol
    Authorities,  \* authorities given to initialize()
    Salts,        \* user salts
    Foreign,      \* addresses of clones made without the factory
    None          \* address(0)

ASSUME FactoryAssumption ==
    /\ None \notin Assets /\ None \notin Authorities
    /\ Foreign \cap (Callers \X Assets \X Labels \X Authorities \X Salts) = {}

VARIABLES
    vaultCount, isVault, vaultsByCreator,  \* storage of the factory
    code                                   \* the clones: what initialize() left in each

vars == <<vaultCount, isVault, vaultsByCreator, code>>

ClonesOfFactory == Callers \X Assets \X Labels \X Authorities \X Salts
Addresses == ClonesOfFactory \union Foreign

\* The storage of a clone before initialize().
Blank == [initialized |-> FALSE, asset |-> None, authority |-> None]

Clone == [initialized: BOOLEAN, asset: Assets \union {None},
          authority: Authorities \union {None}]

\* What initialize() leaves.
Configured(asset, authority) ==
    [initialized |-> TRUE, asset |-> asset, authority |-> authority]

TypeOK ==
    /\ vaultCount \in Nat
    /\ isVault \in SUBSET Addresses
    /\ vaultsByCreator \in [Callers -> Seq(Addresses)]
    /\ DOMAIN code \in SUBSET Addresses
    /\ code \in [DOMAIN code -> Clone]

Init ==
    /\ vaultCount = 0
    /\ isVault = {}
    /\ vaultsByCreator = [c \in Callers |-> << >>]
    /\ code = << >>

\* Mutant: the salt does not commit to the creator.
ComputeSaltAnyCreator(creator, asset, label, authority, salt) ==
    <<CHOOSE c \in Callers : TRUE, asset, label, authority, salt>>

ComputeSalt(creator, asset, label, authority, salt) ==
    <<creator, asset, label, authority, salt>>

PredictVaultAddress(creator, asset, label, authority, salt) ==
    ComputeSalt(creator, asset, label, authority, salt)

\* The clones when the one at "vault" is created or written.
WithClone(vault, clone) ==
    [v \in DOMAIN code \union {vault} |-> IF v = vault THEN clone ELSE code[v]]

\* The factory's storage after it registered the vault.
Register(sender, vault) ==
    /\ isVault' = isVault \union {vault}
    /\ vaultsByCreator' = [vaultsByCreator EXCEPT ![sender] = Append(@, vault)]
    /\ vaultCount' = vaultCount + 1

\* Mutant: cloning over an existing vault does not fail.
CreateVaultAgain(sender, asset, label, authority, salt) ==
    LET vault == PredictVaultAddress(sender, asset, label, authority, salt) IN
    /\ asset # None /\ authority # None
    /\ code' = WithClone(vault, Configured(asset, authority))
    /\ Register(sender, vault)

\* CREATE2 fails where code exists; initialize() refuses address(0).
CreateVault(sender, asset, label, authority, salt) ==
    LET vault == PredictVaultAddress(sender, asset, label, authority, salt) IN
    /\ vault \notin DOMAIN code
    /\ asset # None /\ authority # None
    /\ code' = WithClone(vault, Configured(asset, authority))
    /\ Register(sender, vault)

\* Somebody clones the implementation without the factory.
CloneElsewhere(address) ==
    /\ address \notin DOMAIN code
    /\ code' = WithClone(address, Blank)
    /\ UNCHANGED <<vaultCount, isVault, vaultsByCreator>>

\* Anybody may call initialize() of any clone; it runs once.
Initialize(vault, asset, authority) ==
    /\ vault \in DOMAIN code
    /\ ~code[vault].initialized
    /\ asset # None /\ authority # None
    /\ code' = WithClone(vault, Configured(asset, authority))
    /\ UNCHANGED <<vaultCount, isVault, vaultsByCreator>>

Next ==
    \/ \E sender \in Callers, asset \in Assets \union {None}, label \in Labels,
          authority \in Authorities \union {None}, salt \in Salts :
             CreateVault(sender, asset, label, authority, salt)
    \/ \E address \in Foreign : CloneElsewhere(address)
    \/ \E vault \in DOMAIN code, asset \in Assets \union {None},
          authority \in Authorities \union {None} : Initialize(vault, asset, authority)

Spec == Init /\ [][Next]_vars
-----------------------------------------------------------------------------
\* The three views of the registry agree: the count is the number of vaults,
\* every vault is listed under one creator, once, and only vaults are listed
\* (_isVault, _vaultsByCreator and _vaultCount in createVault).
RegistryConsistent ==
    /\ vaultCount = Cardinality(isVault)
    /\ \A v \in isVault : \E c \in Callers : \E i \in 1..Len(vaultsByCreator[c]) :
          vaultsByCreator[c][i] = v
    /\ \A c, d \in Callers :
          \A i \in 1..Len(vaultsByCreator[c]), j \in 1..Len(vaultsByCreator[d]) :
             /\ vaultsByCreator[c][i] \in isVault
             /\ vaultsByCreator[c][i] = vaultsByCreator[d][j] => (c = d /\ i = j)

\* A predicted address holds nothing, or the vault it was predicted for: a
\* registered clone, with the predicted asset and authority, listed under
\* that creator, whoever else called the factory or the clones (_computeSalt).
PredictionKept ==
    \A c \in Callers, asset \in Assets, label \in Labels, a \in Authorities, s \in Salts :
        LET v == PredictVaultAddress(c, asset, label, a, s) IN
        v \in DOMAIN code =>
            /\ v \in isVault
            /\ code[v] = Configured(asset, a)
            /\ \E i \in 1..Len(vaultsByCreator[c]) : vaultsByCreator[c][i] = v

\* A clone that was initialized keeps its asset and its first authority: no
\* later call makes somebody else's account its first authority (initializer).
InitializedOnce ==
    [][\A v \in DOMAIN code : code[v].initialized =>
          v \in DOMAIN code' /\ code'[v] = code[v]]_vars
=============================================================================
