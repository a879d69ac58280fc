-------------------------- MODULE VaultFactoryProofs --------------------------
(***************************************************************************)
(* The registry of VaultFactory, for every set of callers, assets and      *)
(* authorities.  The three properties are proved together: the count is    *)
(* the size of the registry only because a registered vault has code, and  *)
(* a predicted address stays configured only because it is initialized.    *)
(***************************************************************************)
EXTENDS VaultFactory, FiniteSetTheorems, TLAPS

\* A registered vault has code, and there are finitely many.
VaultsHaveCode == isVault \subseteq DOMAIN code /\ IsFiniteSet(isVault)

FactoryInv == TypeOK /\ RegistryConsistent /\ PredictionKept /\ VaultsHaveCode

(* An address is registered by a transaction that leaves the lists of the   *)
(* other creators alone and appends to the list of the sender (createVault).*)
LEMMA ListsAfterRegister ==
    ASSUME TypeOK, NEW sender \in Callers, NEW vault \in Addresses, Register(sender, vault)
    PROVE  /\ vaultsByCreator' \in [Callers -> Seq(Addresses)]
           /\ \A c \in Callers \ {sender} : vaultsByCreator'[c] = vaultsByCreator[c]
           /\ Len(vaultsByCreator'[sender]) = Len(vaultsByCreator[sender]) + 1
           /\ Len(vaultsByCreator[sender]) \in Nat
           /\ \A i \in 1..Len(vaultsByCreator[sender]) :
                 vaultsByCreator'[sender][i] = vaultsByCreator[sender][i]
           /\ vaultsByCreator'[sender][Len(vaultsByCreator[sender]) + 1] = vault
<1> DEFINE old == vaultsByCreator[sender]
<1>1. old \in Seq(Addresses)
  BY DEF TypeOK
<1>2. vaultsByCreator' = [vaultsByCreator EXCEPT ![sender] = Append(old, vault)]
  BY DEF Register
<1>3. vaultsByCreator'[sender] = Append(old, vault)
  BY <1>2 DEF TypeOK
<1>4. Append(old, vault) \in Seq(Addresses)
  BY <1>1
<1>5. vaultsByCreator' \in [Callers -> Seq(Addresses)]
  BY <1>2, <1>4 DEF TypeOK
<1>6. \A c \in Callers \ {sender} : vaultsByCreator'[c] = vaultsByCreator[c]
  BY <1>2 DEF TypeOK
<1>7. /\ Len(Append(old, vault)) = Len(old) + 1
      /\ Len(old) \in Nat
      /\ \A i \in 1..Len(old) : Append(old, vault)[i] = old[i]
      /\ Append(old, vault)[Len(old) + 1] = vault
  BY <1>1
<1> QED
  BY <1>3, <1>5, <1>6, <1>7

(* The address of a clone of the factory determines the arguments it was    *)
(* predicted from (_computeSalt).                                           *)
LEMMA PredictionIsInjective ==
    ASSUME NEW c, NEW asset, NEW label, NEW a, NEW s,
           NEW c2, NEW asset2, NEW label2, NEW a2, NEW s2,
           PredictVaultAddress(c, asset, label, a, s)
               = PredictVaultAddress(c2, asset2, label2, a2, s2)
    PROVE  c = c2 /\ asset = asset2 /\ label = label2 /\ a = a2 /\ s = s2
BY DEF PredictVaultAddress, ComputeSalt

(* The empty registry of the constructor.                                   *)
LEMMA InitKeepsFactoryInv == Init => FactoryInv
<1> SUFFICES ASSUME Init PROVE FactoryInv
  OBVIOUS
<1>1. code = << >> /\ DOMAIN code = {}
  BY DEF Init
<1>2. isVault = {} /\ IsFiniteSet(isVault) /\ Cardinality(isVault) = 0
  BY FS_EmptySet DEF Init
<1>3. \A c \in Callers : vaultsByCreator[c] = << >> /\ Len(vaultsByCreator[c]) = 0
  BY DEF Init
<1>4. TypeOK
  BY <1>1, <1>2 DEF Init, TypeOK
<1>5. RegistryConsistent
  BY <1>2, <1>3 DEF Init, RegistryConsistent
<1>6. PredictionKept
  BY <1>1 DEF PredictionKept
<1> QED
  BY <1>1, <1>2, <1>4, <1>5, <1>6 DEF FactoryInv, VaultsHaveCode

(* The vault that createVault() made was not registered before, so every    *)
(* view of the registry grows by it (createVault).                          *)
LEMMA CreateKeepsFactoryInv ==
    ASSUME FactoryInv, NEW sender \in Callers, NEW asset \in Assets \union {None},
           NEW label \in Labels, NEW authority \in Authorities \union {None},
           NEW salt \in Salts, CreateVault(sender, asset, label, authority, salt)
    PROVE  FactoryInv'
<1> DEFINE vault == PredictVaultAddress(sender, asset, label, authority, salt)
           old == vaultsByCreator[sender]
           list == vaultsByCreator'[sender]
<1>1. /\ vault \notin DOMAIN code
      /\ asset \in Assets /\ authority \in Authorities
      /\ Register(sender, vault)
      /\ code' = WithClone(vault, Configured(asset, authority))
  BY DEF CreateVault
<1>2. vault \in Addresses
  BY <1>1 DEF PredictVaultAddress, ComputeSalt, Addresses, ClonesOfFactory
<1>3. TypeOK /\ RegistryConsistent /\ PredictionKept /\ VaultsHaveCode
  BY DEF FactoryInv
<1> HIDE DEF vault
<1>4. vault \notin isVault
  BY <1>1, <1>3 DEF VaultsHaveCode
<1>5. /\ vaultsByCreator' \in [Callers -> Seq(Addresses)]
      /\ \A c \in Callers \ {sender} : vaultsByCreator'[c] = vaultsByCreator[c]
      /\ Len(list) = Len(old) + 1
      /\ Len(old) \in Nat
      /\ \A i \in 1..Len(old) : list[i] = old[i]
      /\ list[Len(old) + 1] = vault
  BY <1>1, <1>2, <1>3, ListsAfterRegister
<1>6. /\ DOMAIN code' = DOMAIN code \union {vault}
      /\ code'[vault] = Configured(asset, authority)
      /\ \A v \in DOMAIN code : code'[v] = code[v]
  BY <1>1 DEF WithClone
<1>7. TypeOK'
  <2>1. vaultCount' \in Nat /\ isVault' \in SUBSET Addresses
    BY <1>1, <1>2, <1>3 DEF TypeOK, Register
  <2>2. DOMAIN code' \in SUBSET Addresses
    BY <1>2, <1>3, <1>6 DEF TypeOK
  <2>3. Configured(asset, authority) \in Clone
    BY <1>1 DEF Configured, Clone
  <2>4. code' \in [DOMAIN code' -> Clone]
    BY <1>1, <1>3, <2>3 DEF TypeOK, WithClone
  <2> QED
    BY <1>5, <2>1, <2>2, <2>4 DEF TypeOK
<1>8. VaultsHaveCode'
  <2>1. isVault' = isVault \union {vault}
    BY <1>1 DEF Register
  <2> QED
    BY <1>3, <1>6, <2>1, FS_AddElement DEF VaultsHaveCode
<1>9. RegistryConsistent'
  <2>1. isVault' = isVault \union {vault} /\ vaultCount' = vaultCount + 1
    BY <1>1 DEF Register
  <2>2. vaultCount' = Cardinality(isVault')
    BY <1>3, <1>4, <2>1, FS_AddElement DEF RegistryConsistent, VaultsHaveCode
  <2>3. ASSUME NEW v \in isVault'
        PROVE  \E c \in Callers : \E i \in 1..Len(vaultsByCreator'[c]) :
                  vaultsByCreator'[c][i] = v
    <3>1. CASE v = vault
      BY <1>5, <3>1
    <3>2. CASE v # vault
      <4>1. PICK c \in Callers : \E i \in 1..Len(vaultsByCreator[c]) : vaultsByCreator[c][i] = v
        BY <1>3, <2>1, <3>2 DEF RegistryConsistent
      <4>2. CASE c = sender
        BY <1>5, <4>1, <4>2
      <4>3. CASE c # sender
        BY <1>5, <4>1, <4>3
      <4> QED BY <4>2, <4>3
    <3> QED BY <3>1, <3>2
  <2>4. ASSUME NEW c \in Callers, NEW i \in 1..Len(vaultsByCreator'[c])
        PROVE  \/ /\ i \in 1..Len(vaultsByCreator[c])
                  /\ vaultsByCreator'[c][i] = vaultsByCreator[c][i]
                  /\ vaultsByCreator'[c][i] \in isVault
               \/ /\ c = sender /\ i = Len(old) + 1
                  /\ vaultsByCreator'[c][i] = vault
    BY <1>3, <1>5 DEF RegistryConsistent
  <2>5. ASSUME NEW c \in Callers, NEW d \in Callers,
               NEW i \in 1..Len(vaultsByCreator'[c]), NEW j \in 1..Len(vaultsByCreator'[d])
        PROVE  /\ vaultsByCreator'[c][i] \in isVault'
               /\ vaultsByCreator'[c][i] = vaultsByCreator'[d][j] => (c = d /\ i = j)
    <3>1. vaultsByCreator'[c][i] \in isVault'
      BY <2>1, <2>4
    <3>2. ASSUME vaultsByCreator'[c][i] = vaultsByCreator'[d][j] PROVE c = d /\ i = j
      <4>1. CASE vaultsByCreator'[c][i] = vault
        BY <1>4, <2>4, <3>2, <4>1
      <4>2. CASE vaultsByCreator'[c][i] # vault
        <5>1. /\ i \in 1..Len(vaultsByCreator[c])
              /\ vaultsByCreator'[c][i] = vaultsByCreator[c][i]
          BY <2>4, <4>2
        <5>2. /\ j \in 1..Len(vaultsByCreator[d])
              /\ vaultsByCreator'[d][j] = vaultsByCreator[d][j]
          BY <2>4, <3>2, <4>2
        <5>3. vaultsByCreator[c][i] = vaultsByCreator[d][j]
          BY <3>2, <5>1, <5>2
        <5>4. \A k \in 1..Len(vaultsByCreator[c]), l \in 1..Len(vaultsByCreator[d]) :
                 vaultsByCreator[c][k] = vaultsByCreator[d][l] => c = d /\ k = l
          BY <1>3, SMT DEF RegistryConsistent
        <5> QED
          BY <5>1, <5>2, <5>3, <5>4, Zenon
      <4> QED BY <4>1, <4>2
    <3> QED BY <3>1, <3>2
  <2> QED
    BY <2>2, <2>3, <2>5 DEF RegistryConsistent
<1>10. PredictionKept'
  <2> SUFFICES ASSUME NEW c \in Callers, NEW asset2 \in Assets, NEW label2 \in Labels,
                      NEW a \in Authorities, NEW s \in Salts,
                      PredictVaultAddress(c, asset2, label2, a, s) \in DOMAIN code'
               PROVE  LET v == PredictVaultAddress(c, asset2, label2, a, s) IN
                        /\ v \in isVault'
                        /\ code'[v] = Configured(asset2, a)
                        /\ \E i \in 1..Len(vaultsByCreator'[c]) : vaultsByCreator'[c][i] = v
    BY DEF PredictionKept, PredictVaultAddress, ComputeSalt, Configured
  <2> DEFINE v == PredictVaultAddress(c, asset2, label2, a, s)
  <2>1. isVault' = isVault \union {vault}
    BY <1>1 DEF Register
  <2>2. CASE v = vault
    <3>1. c = sender /\ asset2 = asset /\ a = authority
      BY <2>2, PredictionIsInjective DEF vault
    <3> HIDE DEF v
    <3>2. v \in isVault' /\ code'[v] = Configured(asset2, a)
      BY <1>6, <2>1, <2>2, <3>1
    <3>3. Len(old) + 1 \in 1..Len(vaultsByCreator'[c])
          /\ vaultsByCreator'[c][Len(old) + 1] = v
      BY <1>5, <2>2, <3>1
    <3> QED
      BY <3>2, <3>3 DEF v
  <2>3. CASE v # vault
    <3>1. v \in DOMAIN code
      BY <1>6, <2>3
    <3>2. v \in isVault /\ code[v] = Configured(asset2, a)
      BY <1>3, <3>1 DEF PredictionKept
    <3>3. PICK i \in 1..Len(vaultsByCreator[c]) : vaultsByCreator[c][i] = v
      BY <1>3, <3>1 DEF PredictionKept
    <3> HIDE DEF v
    <3>4. \E k \in 1..Len(vaultsByCreator'[c]) : vaultsByCreator'[c][k] = v
      <4>1. CASE c = sender
        BY <1>5, <3>3, <4>1
      <4>2. CASE c # sender
        BY <1>5, <3>3, <4>2
      <4> QED BY <4>1, <4>2
    <3>5. v \in isVault' /\ code'[v] = Configured(asset2, a)
      BY <1>6, <2>1, <3>1, <3>2
    <3> QED
      BY <3>4, <3>5 DEF v
  <2> QED
    BY <2>2, <2>3
<1> QED
  BY <1>7, <1>8, <1>9, <1>10 DEF FactoryInv

(* A call that leaves the registry alone, and at most creates or configures *)
(* a clone that was not initialized, keeps the invariant.                   *)
LEMMA CloneKeepsFactoryInv ==
    ASSUME FactoryInv, NEW vault \in Addresses, NEW clone \in Clone,
           UNCHANGED <<vaultCount, isVault, vaultsByCreator>>,
           code' = WithClone(vault, clone),
           \/ vault \in Foreign
           \/ vault \in DOMAIN code /\ ~code[vault].initialized
    PROVE  FactoryInv'
<1>1. TypeOK /\ RegistryConsistent /\ PredictionKept /\ VaultsHaveCode
  BY DEF FactoryInv
<1>2. /\ DOMAIN code' = DOMAIN code \union {vault}
      /\ \A v \in DOMAIN code : v # vault => code'[v] = code[v]
  BY DEF WithClone
<1>3. TypeOK'
  <2>1. code' \in [DOMAIN code' -> Clone]
    BY <1>1 DEF TypeOK, WithClone
  <2> QED
    BY <1>1, <1>2, <2>1 DEF TypeOK
<1>4. RegistryConsistent'
  BY <1>1 DEF RegistryConsistent
<1>5. VaultsHaveCode'
  BY <1>1, <1>2 DEF VaultsHaveCode
<1>6. PredictionKept'
  <2> SUFFICES ASSUME NEW c \in Callers, NEW asset \in Assets, NEW label \in Labels,
                      NEW a \in Authorities, NEW s \in Salts,
                      PredictVaultAddress(c, asset, label, a, s) \in DOMAIN code'
               PROVE  LET v == PredictVaultAddress(c, asset, label, a, s) IN
                        /\ v \in isVault'
                        /\ code'[v] = Configured(asset, a)
                        /\ \E i \in 1..Len(vaultsByCreator'[c]) : vaultsByCreator'[c][i] = v
    BY DEF PredictionKept, PredictVaultAddress, ComputeSalt, Configured
  <2> DEFINE v == PredictVaultAddress(c, asset, label, a, s)
  <2>1. v \notin Foreign
    BY FactoryAssumption DEF PredictVaultAddress, ComputeSalt
  <2>2. v \in DOMAIN code => /\ v \in isVault
                             /\ code[v] = Configured(asset, a)
                             /\ \E i \in 1..Len(vaultsByCreator[c]) : vaultsByCreator[c][i] = v
    BY <1>1 DEF PredictionKept
  <2> HIDE DEF v
  <2>3. v \in DOMAIN code /\ v # vault
    <3>1. v \in DOMAIN code'
      BY DEF v
    <3>2. v = vault => v \in DOMAIN code /\ ~code[v].initialized
      BY <2>1
    <3>3. Configured(asset, a).initialized
      BY DEF Configured
    <3> QED
      BY <1>2, <2>2, <3>1, <3>2, <3>3
  <2>4. /\ v \in isVault'
        /\ code'[v] = Configured(asset, a)
        /\ \E i \in 1..Len(vaultsByCreator'[c]) : vaultsByCreator'[c][i] = v
    BY <1>2, <2>2, <2>3
  <2> QED
    BY <2>4 DEF v
<1> QED
  BY <1>3, <1>4, <1>5, <1>6 DEF FactoryInv

(* Every call to the factory or to a clone keeps the invariant.             *)
LEMMA NextKeepsFactoryInv == FactoryInv /\ [Next]_vars => FactoryInv'
<1> SUFFICES ASSUME FactoryInv, [Next]_vars PROVE FactoryInv'
  OBVIOUS
<1>1. ASSUME NEW sender \in Callers, NEW asset \in Assets \union {None},
             NEW label \in Labels, NEW authority \in Authorities \union {None},
             NEW salt \in Salts, CreateVault(sender, asset, label, authority, salt)
      PROVE  FactoryInv'
  BY <1>1, CreateKeepsFactoryInv
<1>2. ASSUME NEW address \in Foreign, CloneElsewhere(address) PROVE FactoryInv'
  <2>1. address \in Addresses /\ Blank \in Clone
    BY DEF Addresses, Blank, Clone
  <2> QED
    BY <1>2, <2>1, CloneKeepsFactoryInv DEF CloneElsewhere
<1>3. ASSUME NEW vault \in DOMAIN code, NEW asset \in Assets \union {None},
             NEW authority \in Authorities \union {None}, Initialize(vault, asset, authority)
      PROVE  FactoryInv'
  <2>1. vault \in Addresses
    BY DEF FactoryInv, TypeOK
  <2>2. Configured(asset, authority) \in Clone
    BY DEF Configured, Clone
  <2> QED
    BY <1>3, <2>1, <2>2, CloneKeepsFactoryInv DEF Initialize
<1>4. CASE UNCHANGED vars
  BY <1>4 DEF vars, FactoryInv, TypeOK, RegistryConsistent, PredictionKept, VaultsHaveCode
<1> QED
  BY <1>1, <1>2, <1>3, <1>4 DEF Next

(* The three facts about the registry hold in every reachable state.        *)
THEOREM FactoryInvariant == Spec => []FactoryInv
BY InitKeepsFactoryInv, NextKeepsFactoryInv, PTL DEF Spec

(* The views of the registry agree, however calls interleave (createVault). *)
THEOREM RegistryIsConsistent == Spec => []RegistryConsistent
<1>1. FactoryInv => RegistryConsistent
  BY DEF FactoryInv
<1> QED
  BY <1>1, FactoryInvariant, PTL

(* A predicted address holds nothing or the predicted vault (_computeSalt). *)
THEOREM PredictionIsKept == Spec => []PredictionKept
<1>1. FactoryInv => PredictionKept
  BY DEF FactoryInv
<1> QED
  BY <1>1, FactoryInvariant, PTL

(* No later call configures an initialized clone again (initializer).       *)
THEOREM InitializesOnce == Spec => InitializedOnce
<1> DEFINE Kept == \A v \in DOMAIN code : code[v].initialized =>
                      v \in DOMAIN code' /\ code'[v] = code[v]
<1>1. [Next]_vars => [Kept]_vars
  <2> SUFFICES ASSUME Next PROVE Kept
    OBVIOUS
  <2>1. ASSUME NEW sender \in Callers, NEW asset \in Assets \union {None},
               NEW label \in Labels, NEW authority \in Authorities \union {None},
               NEW salt \in Salts, CreateVault(sender, asset, label, authority, salt)
        PROVE  Kept
    BY <2>1 DEF CreateVault, WithClone
  <2>2. ASSUME NEW address \in Foreign, CloneElsewhere(address) PROVE Kept
    BY <2>2 DEF CloneElsewhere, WithClone
  <2>3. ASSUME NEW vault \in DOMAIN code, NEW asset \in Assets \union {None},
               NEW authority \in Authorities \union {None}, Initialize(vault, asset, authority)
        PROVE  Kept
    BY <2>3 DEF Initialize, WithClone
  <2> QED
    BY <2>1, <2>2, <2>3 DEF Next
<1> QED
  BY <1>1, PTL DEF Spec, InitializedOnce
=============================================================================
