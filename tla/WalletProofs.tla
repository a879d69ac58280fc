------------------------------ MODULE WalletProofs ------------------------------
(***************************************************************************)
(* WalletInv is inductive and withdrawals are covered; what the commands   *)
(* report is so, and a funding plan is of one reading: in every environment*)
(* and for any number of commands.                                         *)
(***************************************************************************)
EXTENDS Wallet, TLAPS

\* A configuration that was accepted and has a signer pays from the account
\* whose balances it reads.
LEMMA OnePurse ==
    ASSUME NEW e \in Environments, Accepted(e), AuthSigner(e) # None
    PROVE  Payer(e) = FundingAddress(e)
<1>1. e \in Environment /\ None \notin Modes
  BY WalletAssumption
<1>2. e.mode \in Modes \union {None} /\ e.key \in BOOLEAN /\ e.account \in BOOLEAN
        /\ e.privy \in BOOLEAN
  BY <1>1 DEF Environment
<1>3. CASE WalletMode(e) = "predict-account" /\ e.account
  BY <1>3 DEF Payer, FundingAddress
<1>4. CASE WalletMode(e) = "eoa" /\ e.key
  <2>1. ~e.account
    <3>1. CASE e.mode = None
      BY <1>1, <1>2, <1>4, <3>1 DEF Accepted, InferredAccepted, HasPredictAccountCredentials
    <3>2. CASE e.mode # None
      <4>1. e.mode = "eoa"
        BY <1>4, <3>2 DEF WalletMode
      <4> QED BY <4>1 DEF Accepted, EoaAccepted, HasPredictAccountCredentials
    <3> QED BY <3>1, <3>2
  <2> QED BY <1>4, <2>1 DEF Payer, FundingAddress, SignerAddress
<1> QED BY <1>3, <1>4 DEF AuthSigner

\* What the fields of an environment may be.
LEMMA Addresses ==
    ASSUME TypeOK
    PROVE  /\ env' = env => env' \in Environments
           /\ FundingAddress(env) \in Accounts /\ SignerAddress(env) \in Accounts
           /\ Payer(env) \in Accounts
           /\ Address(env) \in VaultAddresses
<1>1. env \in Environments /\ env.vault \in VaultAddresses \union {None}
  BY WalletAssumption DEF TypeOK, Environment
<1>2. FundingAddress(env) \in Accounts /\ SignerAddress(env) \in Accounts /\ Payer(env) \in Accounts
  BY DEF FundingAddress, SignerAddress, Payer, Accounts
<1>3. Address(env) \in VaultAddresses
  BY <1>1 DEF Address, VaultAddresses
<1> QED BY <1>1, <1>2, <1>3

\* A withdrawal is asked for with an asset and an amount.
LEMMA WithdrawalIntent ==
    ASSUME NEW i \in Intent, i.kind = "withdraw"
    PROVE  i.asset \in {"bnb", "usdt"} /\ i.amount \in Nat /\ i.all \in BOOLEAN
BY WalletAssumption DEF Intent, Kinds

\* The amount is a number, whatever was read.
LEMMA AmountIsNat ==
    ASSUME NEW i \in Intent, i.kind = "withdraw", NEW s \in Seen
    PROVE  WithdrawalAmount(i, s) \in Nat
<1>1. i.amount \in Nat
  BY WithdrawalIntent
<1>2. s.bnb \in Nat /\ s.usdt \in Nat /\ Headroom \in Nat
  BY WalletAssumption DEF Seen
<1> QED BY <1>1, <1>2 DEF WithdrawalAmount

\* Going on and leaving keep the types of what they change.
LEMMA MoveTypes ==
    ASSUME TypeOK, NEW c \in Commands,
           \/ \E place \in Places : Proceed(c, place)
           \/ \E how \in Outcomes : Leave(c, how)
    PROVE  at' \in [Commands -> Places] /\ outcome' \in [Commands -> Outcomes \union {None}]
<1>1. CASE \E place \in Places : Proceed(c, place)
  BY <1>1 DEF TypeOK, Proceed, Go
<1>2. CASE \E how \in Outcomes : Leave(c, how)
  BY <1>2 DEF TypeOK, Leave, Go, Places
<1> QED BY <1>1, <1>2

\* Every call of the orchestration is a place of a command.
LEMMA CallPlaces ==
    /\ \A n \in 1..5 : PlanCalls[n] \in Places
    /\ \A n \in 1..5 : PlanCalls[n] \notin {"idle", "check", "send", "close", "done"}
<1>1. /\ PlanCalls[1] = "context" /\ PlanCalls[2] = "policy" /\ PlanCalls[3] = "plan"
      /\ PlanCalls[4] = "session" /\ PlanCalls[5] = "next"
  BY DEF PlanCalls
<1>2. \A n \in 1..5 : n = 1 \/ n = 2 \/ n = 3 \/ n = 4 \/ n = 5
  OBVIOUS
<1> QED BY <1>1, <1>2 DEF Places

LEMMA ConcernedAddresses == ASSUME TypeOK PROVE Concerned(env) \subseteq VaultAddresses
BY Addresses DEF Concerned, VaultAddresses

\* What a command learns keeps its type.
LEMMA KnownTypes ==
    ASSUME TypeOK, NEW c \in Commands,
           NEW exists \in BOOLEAN, exists = (vaults[Address(env)] # None),
           NEW prepared \in VaultAddresses \union {None}, Knows(c, exists, prepared)
    PROVE  seen' \in [Commands -> Seen]
<1> DEFINE epoch == IF exists THEN vaults[Address(env)] ELSE 0
           s == [seen[c] EXCEPT !.exists = exists, !.prepared = prepared, !.epoch = epoch]
<1>1. Address(env) \in VaultAddresses
  BY Addresses
<1>2. epoch \in Nat
  BY <1>1 DEF TypeOK
<1>3. seen' = [seen EXCEPT ![c] = s]
  BY DEF Knows
<1> HIDE DEF epoch
<1>4. seen[c] \in Seen
  BY DEF TypeOK
<1>5. s \in Seen
  BY <1>2, <1>4 DEF Seen
<1> HIDE DEF s
<1> QED BY <1>3, <1>5 DEF TypeOK

\* A plan is made of what the command knows.
LEMMA PlanTypes ==
    ASSUME TypeOK, NEW c \in Commands
    PROVE  PlanOf(c) \in Plan
<1>1. Address(env) \in VaultAddresses /\ FundingAddress(env) \in Accounts
  BY Addresses
<1>2. seen[c].epoch \in Nat /\ seen[c].usdt \in Nat /\ Target \in Nat
  BY WalletAssumption DEF TypeOK, Seen
<1> QED BY <1>1, <1>2 DEF PlanOf, Plan

\* A transfer that was mined debits what was there.
LEMMA TransferTypes ==
    ASSUME WalletInv, NEW c \in Commands, TransferMined(c)
    PROVE  /\ bnb' \in [Accounts -> Nat] /\ usdt' \in [Accounts -> Nat]
           /\ seen' \in [Commands -> Seen]
           /\ \E how \in Outcomes : Leave(c, how)
<1> DEFINE amount == WithdrawalAmount(intent[c], seen[c])
           payer == Payer(env)
           asset == intent[c].asset
           funded == IF asset = "usdt" THEN usdt[payer] >= amount
                     ELSE bnb[payer] >= amount + GasOf(payer)
<1>1. intent[c] \in Intent /\ intent[c].kind = "withdraw" /\ at[c] = "send"
  BY DEF WalletInv, Underway, TransferMined
<1>2. seen[c] \in Seen /\ TypeOK
  BY DEF WalletInv, TypeOK
<1>3. amount \in Nat
  BY <1>1, <1>2, AmountIsNat
<1>4. payer \in Accounts /\ SignerAddress(env) \in Accounts
  BY <1>2, Addresses
<1>5. /\ bnb[SignerAddress(env)] >= Gas
      /\ \E moved \in IF funded THEN BOOLEAN ELSE {FALSE} :
           /\ bnb' = [a \in Accounts |-> bnb[a] - GasOf(a)
                        - (IF moved /\ asset = "bnb" /\ a = payer THEN amount ELSE 0)]
           /\ usdt' = IF moved /\ asset = "usdt" THEN [usdt EXCEPT ![payer] = @ - amount] ELSE usdt
           /\ seen' = [seen EXCEPT ![c].sent = moved]
           /\ \E how \in {ReceiptOutcome(intent[c], moved), "raised"} : Leave(c, how)
  BY DEF TransferMined
<1>6. PICK moved \in IF funded THEN BOOLEAN ELSE {FALSE} :
           /\ bnb' = [a \in Accounts |-> bnb[a] - GasOf(a)
                        - (IF moved /\ asset = "bnb" /\ a = payer THEN amount ELSE 0)]
           /\ usdt' = IF moved /\ asset = "usdt" THEN [usdt EXCEPT ![payer] = @ - amount] ELSE usdt
           /\ seen' = [seen EXCEPT ![c].sent = moved]
           /\ \E how \in {ReceiptOutcome(intent[c], moved), "raised"} : Leave(c, how)
  BY <1>5
<1>7. moved \in BOOLEAN /\ (moved => funded)
  OBVIOUS
<1> HIDE DEF amount, payer, asset, funded
<1>8. bnb \in [Accounts -> Nat] /\ usdt \in [Accounts -> Nat]
  BY <1>2 DEF TypeOK
<1>9. \A a \in Accounts : GasOf(a) \in Nat /\ bnb[a] >= GasOf(a)
  BY <1>4, <1>5, <1>8, WalletAssumption DEF GasOf
<1>10. moved /\ asset = "bnb" => bnb[payer] >= amount + GasOf(payer)
  BY <1>7 DEF funded
<1>11. moved /\ asset = "usdt" => usdt[payer] >= amount
  BY <1>7 DEF funded
<1>12. ASSUME NEW a \in Accounts PROVE bnb'[a] \in Nat
  <2>1. bnb'[a] = bnb[a] - GasOf(a) - (IF moved /\ asset = "bnb" /\ a = payer THEN amount ELSE 0)
    BY <1>6
  <2>2. bnb[a] \in Nat /\ GasOf(a) \in Nat /\ bnb[a] >= GasOf(a)
    BY <1>8, <1>9
  <2>3. CASE moved /\ asset = "bnb" /\ a = payer
    BY <2>1, <2>2, <2>3, <1>3, <1>10
  <2>4. CASE ~(moved /\ asset = "bnb" /\ a = payer)
    BY <2>1, <2>2, <2>4
  <2> QED BY <2>3, <2>4
<1>13. bnb' \in [Accounts -> Nat]
  BY <1>6, <1>12
<1>14. usdt' \in [Accounts -> Nat]
  BY <1>3, <1>4, <1>6, <1>8, <1>11
<1>15. seen' \in [Commands -> Seen]
  BY <1>2, <1>6, <1>7 DEF TypeOK, Seen
<1>16. \E how \in Outcomes : Leave(c, how)
  BY <1>6 DEF ReceiptOutcome, Outcomes
<1> QED BY <1>13, <1>14, <1>15, <1>16

\* Actions that only move a command and perhaps learn something keep the types.
LEMMA TypesFromParts ==
    ASSUME TypeOK, env' = env,
           bnb' \in [Accounts -> Nat], usdt' \in [Accounts -> Nat],
           approved' \subseteq Branches,
           vaults' \in [VaultAddresses -> Nat \union {None}],
           moves' \in 0..MaxMoves,
           at' \in [Commands -> Places],
           intent' \in [Commands -> Intent \union {None}],
           seen' \in [Commands -> Seen],
           plan' \in [Commands -> Plan \union {None}],
           bridge' \in [Commands -> (SUBSET Tools) \union {None}],
           outcome' \in [Commands -> Outcomes \union {None}]
    PROVE  TypeOK'
BY DEF TypeOK

\* Where the steps of a command lead, and that they keep what is not theirs.
LEMMA StepMoves ==
    ASSUME WalletInv, NEW c \in Commands, Step(c)
    PROVE  /\ at' \in [Commands -> Places]
           /\ outcome' \in [Commands -> Outcomes \union {None}]
           /\ env' = env /\ intent' = intent /\ moves' = moves /\ vaults' = vaults
<1> USE DEF chain
<1>0. TypeOK
  BY DEF WalletInv
<1> DEFINE Moving == \/ \E place \in Places : Proceed(c, place)
                     \/ \E how \in Outcomes : Leave(c, how)
           Kept == env' = env /\ intent' = intent /\ moves' = moves /\ vaults' = vaults
<1>1. CASE Fail(c)
  <2>1. Moving /\ Kept
    BY <1>1 DEF Fail, Outcomes
  <2> QED BY <1>0, <2>1, MoveTypes
<1>2. CASE Connect(c)
  <2>1. Moving /\ Kept
    BY <1>2 DEF Connect, Places
  <2> QED BY <1>0, <2>1, MoveTypes
<1>3. CASE Close(c)
  <2>1. Kept /\ at' = [at EXCEPT ![c] = "done"]
    BY <1>3 DEF Close, Go
  <2>2. PICK how \in {outcome[c], "raised"} : outcome' = [outcome EXCEPT ![c] = how]
    BY <1>3 DEF Close
  <2> QED BY <1>0, <2>1, <2>2 DEF TypeOK, Places, Outcomes
<1>4. CASE ReadBnb(c) \/ ReadUsdt(c) \/ ReadApprovals(c) \/ Trade(c)
  <2>1. Moving /\ Kept
    BY <1>4 DEF ReadBnb, ReadUsdt, ReadApprovals, Trade, Places, Outcomes
  <2> QED BY <1>0, <2>1, MoveTypes
<1>5. ASSUME NEW branch \in Branches, SetApprovals(c, branch)
      PROVE  Moving /\ Kept
  BY <1>5 DEF SetApprovals, Places, Outcomes, Branches
<1>6. CASE \E branch \in Branches : SetApprovals(c, branch)
  BY <1>0, <1>5, <1>6, MoveTypes
<1>7. CASE Check(c) \/ TransferRefused(c)
  <2>1. Moving /\ Kept
    BY <1>7 DEF Check, TransferRefused, Places, Outcomes
  <2> QED BY <1>0, <2>1, MoveTypes
<1>8. CASE TransferMined(c)
  <2>1. Moving
    BY <1>8, TransferTypes
  <2>2. Kept
    BY <1>8 DEF TransferMined
  <2> QED BY <1>0, <2>1, <2>2, MoveTypes
<1>9. Resolved(c) => Moving
  BY DEF Resolved, Places, Outcomes
<1>10. CASE Bootstrap(c)
  <2>1. Moving /\ Kept
    BY <1>9, <1>10 DEF Bootstrap, Places
  <2> QED BY <1>0, <2>1, MoveTypes
<1>11. CASE Predict(c) \/ Prepare(c) \/ ResolveRoot(c)
  <2>1. PlanCalls[1] \in Places
    BY CallPlaces
  <2>2. Moving /\ Kept
    BY <1>11, <2>1 DEF Predict, Prepare, ResolveRoot, Places, Outcomes
  <2> QED BY <1>0, <2>2, MoveTypes
<1>12. CASE HealthCheck(c)
  <2>1. Moving /\ Kept
    BY <1>9, <1>12 DEF HealthCheck, Places
  <2> QED BY <1>0, <2>1, MoveTypes
<1>13. ASSUME NEW n \in 1..5, PlanCall(c, n)
       PROVE  Moving /\ Kept
  <2>1. n < 5 => PlanCalls[n + 1] \in Places
    BY CallPlaces
  <2>2. "approvals" \in Places /\ {"returned", "raised"} \subseteq Outcomes
    BY DEF Places, Outcomes
  <2> QED BY <1>13, <2>1, <2>2 DEF PlanCall
<1>14. CASE \E n \in 1..5 : PlanCall(c, n)
  BY <1>0, <1>13, <1>14, MoveTypes
<1> QED BY <1>1, <1>2, <1>3, <1>4, <1>6, <1>7, <1>8, <1>10, <1>11, <1>12, <1>14 DEF Step

\* A step of a command keeps the types.
LEMMA StepTypes == ASSUME WalletInv, NEW c \in Commands, Step(c) PROVE TypeOK'
<1> USE DEF chain
<1>0. TypeOK /\ seen[c] \in Seen
  BY DEF WalletInv, TypeOK
<1>1. /\ at' \in [Commands -> Places]
      /\ outcome' \in [Commands -> Outcomes \union {None}]
      /\ env' = env /\ intent' = intent /\ moves' = moves /\ vaults' = vaults
  BY StepMoves
<1>2. /\ intent' \in [Commands -> Intent \union {None}] /\ moves' \in 0..MaxMoves
      /\ vaults' \in [VaultAddresses -> Nat \union {None}]
  BY <1>0, <1>1 DEF TypeOK
<1> DEFINE Funds == bnb' \in [Accounts -> Nat] /\ usdt' \in [Accounts -> Nat]
           Learnt == approved' \subseteq Branches /\ seen' \in [Commands -> Seen]
           Told == /\ plan' \in [Commands -> Plan \union {None}]
                   /\ bridge' \in [Commands -> (SUBSET Tools) \union {None}]
<1>3. ASSUME Funds, Learnt, Told PROVE TypeOK'
  BY <1>0, <1>1, <1>2, <1>3, TypesFromParts
<1>4. /\ bnb' = bnb /\ usdt' = usdt => Funds
      /\ approved' = approved /\ seen' = seen => Learnt
      /\ plan' = plan /\ bridge' = bridge => Told
  BY <1>0 DEF TypeOK
<1>5. CASE Fail(c) \/ Trade(c) \/ Check(c) \/ TransferRefused(c) \/ Predict(c) \/ ResolveRoot(c)
  BY <1>3, <1>4, <1>5 DEF Fail, Trade, Check, TransferRefused, Predict, ResolveRoot
<1>6. CASE Connect(c) \/ Close(c)
  <2>1. bridge' \in [Commands -> (SUBSET Tools) \union {None}]
    BY <1>0, <1>6, WalletAssumption DEF Connect, Close, TypeOK
  <2>2. /\ bnb' = bnb /\ usdt' = usdt /\ approved' = approved /\ seen' = seen /\ plan' = plan
    BY <1>6 DEF Connect, Close
  <2>3. plan' \in [Commands -> Plan \union {None}]
    BY <1>0, <2>2 DEF TypeOK
  <2> QED BY <1>3, <1>4, <2>1, <2>2, <2>3
<1>7. CASE ReadBnb(c) \/ ReadUsdt(c)
  <2>1. bnb[FundingAddress(env)] \in Nat /\ usdt[FundingAddress(env)] \in Nat
    BY <1>0, Addresses DEF TypeOK
  <2>2. /\ bnb' = bnb /\ usdt' = usdt /\ approved' = approved /\ plan' = plan /\ bridge' = bridge
    BY <1>7 DEF ReadBnb, ReadUsdt
  <2>3. \/ seen' = [seen EXCEPT ![c] = [seen[c] EXCEPT !.bnb = bnb[FundingAddress(env)]]]
        \/ seen' = [seen EXCEPT ![c] = [seen[c] EXCEPT !.usdt = usdt[FundingAddress(env)]]]
    BY <1>7 DEF ReadBnb, ReadUsdt
  <2>4. /\ [seen[c] EXCEPT !.bnb = bnb[FundingAddress(env)]] \in Seen
        /\ [seen[c] EXCEPT !.usdt = usdt[FundingAddress(env)]] \in Seen
    BY <1>0, <2>1 DEF Seen
  <2>5. seen' \in [Commands -> Seen] /\ approved' \subseteq Branches
    BY <1>0, <2>2, <2>3, <2>4 DEF TypeOK
  <2> QED BY <1>3, <1>4, <2>2, <2>5
<1>8. CASE ReadApprovals(c)
  <2>1. [seen[c] EXCEPT !.approved = approved] \in Seen
    BY <1>0 DEF Seen, TypeOK
  <2>2. seen' = [seen EXCEPT ![c] = [seen[c] EXCEPT !.approved = approved]]
    BY <1>8 DEF ReadApprovals
  <2>3. seen' \in [Commands -> Seen]
    BY <1>0, <2>1, <2>2 DEF TypeOK
  <2>4. /\ bnb' = bnb /\ usdt' = usdt /\ approved' = approved /\ plan' = plan /\ bridge' = bridge
    BY <1>8 DEF ReadApprovals
  <2>5. approved' \subseteq Branches
    BY <1>0, <2>4 DEF TypeOK
  <2> QED BY <1>3, <1>4, <2>3, <2>4, <2>5
<1>9. ASSUME NEW branch \in Branches, SetApprovals(c, branch) PROVE TypeOK'
  <2>1. PICK given \in BOOLEAN :
          /\ given => bnb[SignerAddress(env)] >= Gas
          /\ approved' = IF given THEN approved \union {branch} ELSE approved
          /\ seen' = [seen EXCEPT ![c].approved = IF given THEN @ \union {branch} ELSE @]
          /\ bnb' = IF given THEN [bnb EXCEPT ![SignerAddress(env)] = @ - Gas] ELSE bnb
    BY <1>9 DEF SetApprovals
  <2>2. usdt' = usdt /\ plan' = plan /\ bridge' = bridge
    BY <1>9 DEF SetApprovals
  <2>3. bnb' \in [Accounts -> Nat]
    <3>1. SignerAddress(env) \in Accounts
      BY <1>0, Addresses
    <3>2. bnb \in [Accounts -> Nat] /\ Gas \in Nat
      BY <1>0, WalletAssumption DEF TypeOK
    <3> QED BY <2>1, <3>1, <3>2
  <2>4. approved' \subseteq Branches
    BY <1>0, <2>1 DEF TypeOK
  <2>5. seen' \in [Commands -> Seen]
    <3> DEFINE given2 == IF given THEN seen[c].approved \union {branch} ELSE seen[c].approved
               s == [seen[c] EXCEPT !.approved = given2]
    <3>1. given2 \in SUBSET Branches
      BY <1>0 DEF Seen
    <3>2. seen' = [seen EXCEPT ![c] = s]
      BY <2>1
    <3> HIDE DEF given2
    <3>3. s \in Seen
      BY <1>0, <3>1 DEF Seen
    <3> HIDE DEF s
    <3> QED BY <1>0, <3>2, <3>3 DEF TypeOK
  <2>6. usdt' \in [Accounts -> Nat]
    BY <1>0, <2>2 DEF TypeOK
  <2> QED BY <1>3, <1>4, <2>2, <2>3, <2>4, <2>5, <2>6
<1>10. CASE TransferMined(c)
  <2>1. Funds /\ seen' \in [Commands -> Seen]
    BY <1>10, TransferTypes
  <2>2. approved' = approved /\ plan' = plan /\ bridge' = bridge
    BY <1>10 DEF TransferMined
  <2>3. approved' \subseteq Branches
    BY <1>0, <2>2 DEF TypeOK
  <2> QED BY <1>3, <1>4, <2>1, <2>2, <2>3
<1>11. CASE Bootstrap(c) \/ HealthCheck(c)
  <2>1. \E exists \in BOOLEAN, prepared \in VaultAddresses \union {None} :
           exists = (vaults[Address(env)] # None) /\ Knows(c, exists, prepared)
    <3>1. CASE Bootstrap(c)
      <4>1. Address(env) = "predicted"
        BY <3>1 DEF Bootstrap, Address
      <4> DEFINE exists == vaults["predicted"] # None
      <4>2. PICK complete \in BOOLEAN :
                Knows(c, exists, IF ~exists /\ complete /\ WantsPreparation(c) THEN "predicted" ELSE None)
        BY <3>1 DEF Bootstrap
      <4>3. exists \in BOOLEAN
            /\ (IF ~exists /\ complete /\ WantsPreparation(c) THEN "predicted" ELSE None)
                  \in VaultAddresses \union {None}
        BY DEF VaultAddresses
      <4>4. exists = (vaults[Address(env)] # None)
        BY <4>1
      <4> HIDE DEF exists
      <4> QED BY <4>2, <4>3, <4>4
    <3>2. CASE HealthCheck(c)
      <4> DEFINE exists == vaults[Address(env)] # None
      <4>1. Knows(c, exists, None) /\ exists \in BOOLEAN
        BY <3>2 DEF HealthCheck
      <4> QED BY <4>1
    <3> QED BY <1>11, <3>1, <3>2
  <2>2. seen' \in [Commands -> Seen]
    BY <1>0, <2>1, KnownTypes
  <2>3. /\ bnb' = bnb /\ usdt' = usdt /\ approved' = approved /\ plan' = plan /\ bridge' = bridge
    BY <1>11 DEF Bootstrap, HealthCheck
  <2>4. approved' \subseteq Branches
    BY <1>0, <2>3 DEF TypeOK
  <2> QED BY <1>3, <1>4, <2>2, <2>3, <2>4
<1>12. CASE Prepare(c)
  <2>1. [seen[c] EXCEPT !.prepared = "predicted"] \in Seen
    BY <1>0 DEF Seen, VaultAddresses
  <2>2. seen' = [seen EXCEPT ![c] = [seen[c] EXCEPT !.prepared = "predicted"]]
    BY <1>12 DEF Prepare
  <2>3. seen' \in [Commands -> Seen]
    BY <1>0, <2>1, <2>2 DEF TypeOK
  <2>4. /\ bnb' = bnb /\ usdt' = usdt /\ approved' = approved /\ plan' = plan /\ bridge' = bridge
    BY <1>12 DEF Prepare
  <2>5. approved' \subseteq Branches
    BY <1>0, <2>4 DEF TypeOK
  <2> QED BY <1>3, <1>4, <2>3, <2>4, <2>5
<1>13. ASSUME NEW n \in 1..5, PlanCall(c, n) PROVE TypeOK'
  <2>1. PlanOf(c) \in Plan
    BY <1>0, PlanTypes
  <2>2. plan' \in [Commands -> Plan \union {None}]
    BY <1>0, <1>13, <2>1 DEF PlanCall, TypeOK
  <2>3. /\ bnb' = bnb /\ usdt' = usdt /\ approved' = approved /\ seen' = seen /\ bridge' = bridge
    BY <1>13 DEF PlanCall
  <2>4. bridge' \in [Commands -> (SUBSET Tools) \union {None}]
    BY <1>0, <2>3 DEF TypeOK
  <2> QED BY <1>3, <1>4, <2>2, <2>3, <2>4
<1> QED BY <1>5, <1>6, <1>7, <1>8, <1>9, <1>10, <1>11, <1>12, <1>13 DEF Step

\* Starting a command, and what others do, keep the types.
LEMMA OtherTypes ==
    ASSUME WalletInv, \/ Others
                      \/ \E c \in Commands, i \in Intent : Start(c, i)
    PROVE  TypeOK'
<1> USE DEF chain
<1>0. TypeOK
  BY DEF WalletInv
<1>1. ASSUME NEW c \in Commands, NEW i \in Intent, Start(c, i) PROVE TypeOK'
  <2>1. Opening(i.kind) \in Places
    BY DEF Opening, Places, Branches
  <2>2. at' \in [Commands -> Places]
    BY <1>0, <1>1, <2>1 DEF Start, Go, TypeOK
  <2>3. outcome' \in [Commands -> Outcomes \union {None}]
    BY <1>0, <1>1 DEF Start, TypeOK, Outcomes
  <2>4. intent' \in [Commands -> Intent \union {None}]
    BY <1>0, <1>1 DEF Start, TypeOK
  <2>5. UNCHANGED <<env, bnb, usdt, approved, vaults, moves, seen, plan, bridge>>
    BY <1>1 DEF Start
  <2> QED BY <1>0, <2>2, <2>3, <2>4, <2>5 DEF TypeOK
<1>2. CASE OtherMovesFunds
  <2>1. bnb' \in [Accounts -> Nat] /\ usdt' \in [Accounts -> Nat] /\ moves' \in 0..MaxMoves
    BY <1>0, <1>2, WalletAssumption DEF OtherMovesFunds, TypeOK
  <2>2. UNCHANGED <<env, approved, vaults, at, intent, seen, plan, bridge, outcome>>
    BY <1>2 DEF OtherMovesFunds
  <2> QED BY <1>0, <2>1, <2>2 DEF TypeOK
<1>3. CASE OtherCreatesVault \/ AuthorityAccepted
  <2>1. vaults' \in [VaultAddresses -> Nat \union {None}] /\ moves' \in 0..MaxMoves
    <3>1. CASE OtherCreatesVault
      BY <1>0, <3>1, ConcernedAddresses, WalletAssumption DEF OtherCreatesVault, TypeOK
    <3>2. CASE AuthorityAccepted
      <4>1. PICK a \in VaultAddresses :
              vaults[a] # None /\ vaults' = [vaults EXCEPT ![a] = @ + 1]
        BY <1>0, <3>2, ConcernedAddresses DEF AuthorityAccepted
      <4>2. vaults[a] \in Nat
        BY <1>0, <4>1 DEF TypeOK
      <4> QED BY <1>0, <3>2, <4>1, <4>2, WalletAssumption DEF AuthorityAccepted, TypeOK
    <3> QED BY <1>3, <3>1, <3>2
  <2>2. UNCHANGED <<env, bnb, usdt, approved, at, intent, seen, plan, bridge, outcome>>
    BY <1>3 DEF OtherCreatesVault, AuthorityAccepted
  <2> QED BY <1>0, <2>1, <2>2 DEF TypeOK
<1> QED BY <1>1, <1>2, <1>3 DEF Others

\* A step of one command leaves the others where they are.
LEMMA OthersStay ==
    ASSUME WalletInv, NEW c \in Commands, Step(c) \/ \E i \in Intent : Start(c, i)
    PROVE  /\ env' = env
           /\ \A d \in Commands \ {c} :
                at'[d] = at[d] /\ intent'[d] = intent[d] /\ seen'[d] = seen[d]
<1>0. TypeOK
  BY DEF WalletInv
<1>1. CASE \E i \in Intent : Start(c, i)
  BY <1>0, <1>1 DEF Start, Go, TypeOK
<1>2. CASE Step(c)
  <2>1. env' = env /\ intent' = intent
    BY <1>2, StepMoves
  <2>2. \E place : at' = [at EXCEPT ![c] = place]
    BY <1>2 DEF Step, Fail, Connect, Close, ReadBnb, ReadUsdt, ReadApprovals, Trade,
       SetApprovals, Check, TransferMined, TransferRefused, Bootstrap, Predict, HealthCheck, Prepare,
       ResolveRoot, PlanCall, Resolved, Proceed, Leave, Go
  <2>3. seen' = seen \/ \E s : seen' = [seen EXCEPT ![c] = s]
    BY <1>2 DEF Step, Fail, Connect, Close, ReadBnb, ReadUsdt, ReadApprovals, Trade,
       SetApprovals, Check, TransferMined, TransferRefused, Bootstrap, Predict, HealthCheck, Prepare,
       ResolveRoot, PlanCall, Knows
  <2> QED BY <1>0, <2>1, <2>2, <2>3 DEF TypeOK
<1> QED BY <1>1, <1>2

\* A step of a command keeps what it has been checked for.
LEMMA StepUnderway ==
    ASSUME WalletInv, NEW c \in Commands, Step(c)
    PROVE  Underway(c)'
<1> USE DEF chain
<1>0. TypeOK /\ Underway(c) /\ at \in [Commands -> Places]
  BY DEF WalletInv, TypeOK
<1>1. env' = env /\ intent' = intent
  BY StepMoves
<1>2. ASSUME \E how : Leave(c, how) PROVE Underway(c)'
  <2>1. at'[c] \in {"close", "done"}
    BY <1>0, <1>2 DEF Leave, Go
  <2> QED BY <2>1 DEF Underway
\* Elsewhere than before the checks and the sending, nothing new is asked for.
<1>3. ASSUME at[c] \notin {"idle", "close", "done"},
             \E place : Proceed(c, place) /\ place \notin {"check", "send"}
      PROVE  Underway(c)'
  <2>1. at'[c] \notin {"check", "send"}
    BY <1>0, <1>3 DEF Proceed, Go
  <2> QED BY <1>0, <1>1, <1>3, <2>1 DEF Underway
<1>4. CASE \/ Fail(c) \/ ReadApprovals(c) \/ Trade(c)
          \/ TransferMined(c) \/ TransferRefused(c) \/ Prepare(c)
  <2>1. \E how : Leave(c, how)
    BY <1>4 DEF Fail, ReadApprovals, Trade, TransferMined, TransferRefused, Prepare
  <2> QED BY <1>2, <2>1
<1>5. CASE Close(c)
  <2>1. at'[c] = "done"
    BY <1>0, <1>5 DEF Close, Go
  <2> QED BY <2>1 DEF Underway
<1>6. CASE Connect(c) \/ ReadBnb(c) \/ Predict(c)
  BY <1>3, <1>6 DEF Connect, ReadBnb, Predict
<1>7. CASE ReadUsdt(c)
  <2>1. CASE Proceed(c, "check") /\ intent[c].kind = "withdraw"
    <3>1. at'[c] = "check"
      BY <1>0, <2>1 DEF Proceed, Go
    <3> QED BY <1>0, <1>1, <1>7, <2>1, <3>1 DEF Underway, ReadUsdt
  <2> QED BY <1>2, <1>3, <1>7, <2>1 DEF ReadUsdt
<1>8. ASSUME NEW branch \in Branches, SetApprovals(c, branch) PROVE Underway(c)'
  <2>1. at[c] \notin {"idle", "close", "done"}
    BY <1>8 DEF SetApprovals, Branches
  <2> QED BY <1>2, <1>3, <1>8, <2>1 DEF SetApprovals
<1>9. CASE Check(c)
  <2>1. CASE WithdrawalAllowed(intent[c], seen[c]) /\ Proceed(c, "send") /\ seen' = seen
    <3>1. at'[c] = "send" /\ at[c] = "check"
      BY <1>0, <1>9, <2>1 DEF Proceed, Go, Check
    <3> QED BY <1>0, <1>1, <2>1, <3>1 DEF Underway
  <2> QED BY <1>2, <1>9, <2>1 DEF Check
<1>10. ASSUME Resolved(c), at[c] \notin {"idle", "close", "done"} PROVE Underway(c)'
  BY <1>2, <1>3, <1>10 DEF Resolved
<1>11. CASE Bootstrap(c)
  BY <1>3, <1>10, <1>11 DEF Bootstrap
<1>12. CASE HealthCheck(c)
  BY <1>3, <1>10, <1>12 DEF HealthCheck
<1>13. CASE ResolveRoot(c)
  <2>1. PlanCalls[1] \notin {"check", "send"}
    BY CallPlaces
  <2> QED BY <1>3, <1>13, <2>1 DEF ResolveRoot
<1>14. ASSUME NEW n \in 1..5, PlanCall(c, n) PROVE Underway(c)'
  <2>1. at[c] \notin {"idle", "close", "done"}
    BY <1>14, CallPlaces DEF PlanCall
  <2>2. n < 5 => PlanCalls[n + 1] \notin {"check", "send"}
    BY CallPlaces
  <2> QED BY <1>2, <1>3, <1>14, <2>1, <2>2 DEF PlanCall
<1> QED BY <1>4, <1>5, <1>6, <1>7, <1>8, <1>9, <1>11, <1>12, <1>13, <1>14 DEF Step

\* The inductive invariant holds in every reachable state.
LEMMA NextKeepsWalletInv == ASSUME WalletInv, [Next]_vars PROVE WalletInv'
<1> USE DEF chain
<1>1. ASSUME NEW c \in Commands, Step(c) PROVE WalletInv'
  <2>1. TypeOK' /\ Underway(c)'
    BY <1>1, StepTypes, StepUnderway
  <2>2. ASSUME NEW d \in Commands \ {c} PROVE Underway(d)'
    BY <1>1, <2>2, OthersStay DEF WalletInv, Underway
  <2> QED BY <2>1, <2>2 DEF WalletInv
<1>2. ASSUME NEW c \in Commands, NEW i \in Intent, Start(c, i) PROVE WalletInv'
  <2>1. TypeOK'
    BY <1>2, OtherTypes
  <2>2. at'[c] = Opening(i.kind) /\ intent'[c] = i /\ env' = env
    BY <1>2 DEF Start, Go, WalletInv, TypeOK
  <2>3. Underway(c)'
    BY <2>2 DEF Underway, Opening, UsesBridge
  <2>4. ASSUME NEW d \in Commands \ {c} PROVE Underway(d)'
    BY <1>2, <2>4, OthersStay DEF WalletInv, Underway
  <2> QED BY <2>1, <2>3, <2>4 DEF WalletInv
<1>3. CASE Others
  <2>1. TypeOK'
    BY <1>3, OtherTypes
  <2>2. UNCHANGED <<env, at, intent, seen>>
    BY <1>3 DEF Others, OtherMovesFunds, OtherCreatesVault, AuthorityAccepted
  <2>3. ASSUME NEW d \in Commands PROVE Underway(d)'
    BY <2>2 DEF WalletInv, Underway
  <2> QED BY <2>1, <2>3 DEF WalletInv
<1>4. CASE UNCHANGED vars
  BY <1>4 DEF vars, WalletInv, TypeOK, Underway
<1> QED BY <1>1, <1>2, <1>3, <1>4 DEF Next

\* Where the commands begin.
LEMMA InitWalletInv == Init => WalletInv
<1>1. ASSUME Init PROVE TypeOK
  <2>1. NothingSeen \in Seen
    BY DEF NothingSeen, Seen
  <2> QED BY <1>1, <2>1, WalletAssumption DEF Init, TypeOK, Places
<1>2. ASSUME Init PROVE \A c \in Commands : Underway(c)
  BY <1>2 DEF Init, Underway
<1> QED BY <1>1, <1>2 DEF WalletInv

\* Types, and what every command under way has been checked for, at any time
\* (the refusals, reads and checks of withdraw() in their order).
THEOREM WalletInvariant == Spec => []WalletInv
<1>1. Init => WalletInv
  BY InitWalletInv
<1>2. WalletInv /\ [Next]_vars => WalletInv'
  BY NextKeepsWalletInv
<1> QED BY <1>1, <1>2, PTL DEF Spec

\* The debits of a transfer that was mined.
LEMMA TransferCovered ==
    ASSUME WalletInv, NEW c \in Commands, TransferMined(c), NEW a \in Accounts
    PROVE  /\ usdt'[a] < usdt[a] =>
                a = FundingAddress(env) /\ usdt[a] - usdt'[a] <= seen[c].usdt
           /\ bnb'[a] < bnb[a] - GasOf(a) =>
                a = FundingAddress(env) /\ bnb[a] - bnb'[a] <= seen[c].bnb
           /\ a = FundingAddress(env) /\ bnb[a] >= seen[c].bnb => bnb'[a] >= Headroom - Gas
<1> DEFINE amount == WithdrawalAmount(intent[c], seen[c])
           payer == Payer(env)
           asset == intent[c].asset
<1>1. /\ intent[c] \in Intent /\ intent[c].kind = "withdraw" /\ Accepted(env)
      /\ AuthSigner(env) # None /\ WithdrawalAllowed(intent[c], seen[c])
  BY DEF WalletInv, Underway, TransferMined
<1>2. seen[c] \in Seen /\ TypeOK
  BY DEF WalletInv, TypeOK
<1>3. amount \in Nat /\ seen[c].bnb \in Nat /\ seen[c].usdt \in Nat
  BY <1>1, <1>2, AmountIsNat DEF Seen
<1>4. payer = FundingAddress(env) /\ payer \in Accounts
  BY <1>1, <1>2, OnePurse, Addresses DEF TypeOK
<1>5. /\ seen[c].bnb > Headroom
      /\ asset = "usdt" => seen[c].usdt >= amount
      /\ asset = "bnb" => seen[c].bnb - Headroom >= amount
  BY <1>1 DEF WithdrawalAllowed
<1>6. PICK moved :
           /\ bnb' = [b \in Accounts |-> bnb[b] - GasOf(b)
                        - (IF moved /\ asset = "bnb" /\ b = payer THEN amount ELSE 0)]
           /\ usdt' = IF moved /\ asset = "usdt" THEN [usdt EXCEPT ![payer] = @ - amount] ELSE usdt
  BY DEF TransferMined
<1>7. bnb \in [Accounts -> Nat] /\ usdt \in [Accounts -> Nat]
  BY <1>2 DEF TypeOK
<1>8. GasOf(a) \in Nat /\ GasOf(a) <= Gas /\ Gas \in Nat /\ Headroom \in Nat /\ Gas <= Headroom
  BY WalletAssumption DEF GasOf
<1> HIDE DEF amount, payer, asset
<1>9. usdt'[a] < usdt[a] => a = FundingAddress(env) /\ usdt[a] - usdt'[a] <= seen[c].usdt
  BY <1>3, <1>4, <1>5, <1>6, <1>7
<1>10. bnb'[a] = bnb[a] - GasOf(a) - (IF moved /\ asset = "bnb" /\ a = payer THEN amount ELSE 0)
  BY <1>6
<1>11. CASE moved /\ asset = "bnb" /\ a = payer
  BY <1>3, <1>4, <1>5, <1>7, <1>8, <1>9, <1>10, <1>11
<1>12. CASE ~(moved /\ asset = "bnb" /\ a = payer)
  BY <1>3, <1>4, <1>5, <1>7, <1>8, <1>9, <1>10, <1>12
<1> QED BY <1>11, <1>12

\* Withdrawals take funds only from the account that was checked, at most what
\* was read there, and leave the headroom (withdraw() and the configuration).
THEOREM WithdrawalsCovered == Spec => WithdrawalsAreCovered
<1> DEFINE Covered(c) == at[c] = "send" /\ at'[c] # "send" =>
             \A a \in Accounts :
               /\ usdt'[a] < usdt[a] =>
                    a = FundingAddress(env) /\ usdt[a] - usdt'[a] <= seen[c].usdt
               /\ bnb'[a] < bnb[a] - GasOf(a) =>
                    a = FundingAddress(env) /\ bnb[a] - bnb'[a] <= seen[c].bnb
               /\ a = FundingAddress(env) /\ bnb[a] >= seen[c].bnb =>
                    bnb'[a] >= Headroom - Gas
<1>1. ASSUME WalletInv, [Next]_vars, NEW c \in Commands, at[c] = "send", at'[c] # "send"
      PROVE  TransferMined(c) \/ TransferRefused(c)
  <2>1. ~UNCHANGED vars /\ ~Others
    BY <1>1 DEF vars, Others, OtherMovesFunds, OtherCreatesVault, AuthorityAccepted
  <2>2. ASSUME NEW d \in Commands, Step(d) \/ \E i \in Intent : Start(d, i) PROVE d = c
    BY <1>1, <2>2, OthersStay
  <2>3. ~\E i \in Intent : Start(c, i)
    BY <1>1 DEF Start
  <2>4. Step(c)
    BY <1>1, <2>1, <2>2, <2>3 DEF Next
  <2>5. ~\E n \in 1..5 : PlanCall(c, n)
    BY <1>1, CallPlaces DEF PlanCall
  <2> QED BY <1>1, <2>4, <2>5 DEF Step, Fail, Connect, Close, ReadBnb, ReadUsdt, ReadApprovals,
       Trade, SetApprovals, Branches, Check, Bootstrap, Predict, HealthCheck, Prepare, ResolveRoot
<1>2. ASSUME WalletInv, NEW c \in Commands, TransferRefused(c) PROVE Covered(c)
  <2>1. bnb' = bnb /\ usdt' = usdt
    BY <1>2 DEF TransferRefused, chain
  <2>2. bnb \in [Accounts -> Nat] /\ usdt \in [Accounts -> Nat]
    BY <1>2 DEF WalletInv, TypeOK
  <2>3. \A a \in Accounts : GasOf(a) \in Nat
    BY WalletAssumption DEF GasOf
  <2>4. seen[c].bnb \in Nat /\ (at[c] = "send" => seen[c].bnb > Headroom)
    BY <1>2 DEF WalletInv, TypeOK, Seen, Underway, WithdrawalAllowed
  <2> QED BY <2>1, <2>2, <2>3, <2>4, WalletAssumption
<1>3. ASSUME WalletInv, [Next]_vars PROVE \A c \in Commands : Covered(c)
  <2> TAKE c \in Commands
  <2>1. CASE at[c] = "send" /\ at'[c] # "send"
    <3>1. CASE TransferMined(c)
      BY <1>3, <3>1, TransferCovered
    <3> QED BY <1>1, <1>2, <1>3, <2>1, <3>1
  <2> QED BY <2>1
<1>4. WalletInv /\ [Next]_vars => [\A c \in Commands : Covered(c)]_vars
  BY <1>3
<1> QED BY <1>4, WalletInvariant, PTL DEF Spec, WithdrawalsAreCovered
-----------------------------------------------------------------------------
(* Reports and plans *)

BridgePlaces == {"connect", "resolve", "health", "prepare"}
PlanPlaces == {"root", "context", "policy", "plan", "session", "next"}

\* Which command is at which place, and who has a bridge.
Answering(c) ==
    /\ at[c] = "approvals" => intent[c].kind = "status"
    /\ at[c] \in Branches => intent[c].kind = "approve"
    /\ at[c] \in BridgePlaces \union PlanPlaces => UsesBridge(intent[c].kind)
    /\ bridge[c] # None => UsesBridge(intent[c].kind)
    /\ at[c] \in PlanPlaces => HasOverlay(env)
    /\ at[c] = "prepare" => ~seen[c].exists
    /\ at[c] = "idle" => bridge[c] = None

\* ReportsAreTrue of one command.
Reported(c) ==
    /\ seen[c].approved \subseteq approved
    /\ outcome[c] = "returned" /\ intent[c].kind = "withdraw" /\ ~IsPlain(intent[c])
           => seen[c].sent
    /\ seen[c].prepared # None =>
          ~seen[c].exists /\ (env.vault = None => seen[c].prepared = Address(env))

\* An epoch that was read is one the vault has reached.
Reached(epoch) ==
    /\ vaults[Address(env)] = None => epoch = 0
    /\ vaults[Address(env)] # None => epoch <= vaults[Address(env)]

\* PlanIsOfOneReading of one command: nothing is read once the plan is made.
Planned(c) ==
    /\ Reached(seen[c].epoch)
    /\ plan[c] # None =>
        /\ at[c] \in {"session", "next", "approvals", "close", "done"}
        /\ plan[c].recipient = "account" /\ plan[c].vault = Address(env)
        /\ plan[c].balance = seen[c].usdt
        /\ plan[c].required > 0 => plan[c].required + seen[c].usdt = Target
        /\ Reached(plan[c].epoch)

\* The same of a buy: it asks for a plan only once it has seen funds missing.
Buying(c) ==
    /\ at[c] # "idle" => intent[c] \in Intent
    /\ at[c] = "trade" => intent[c].kind = "buy"
    /\ intent[c].kind = "buy" =>
        /\ at[c] # "bnb"
        /\ at[c] = "usdt" => bridge[c] = None /\ HasOverlay(env)
        /\ at[c] \in BridgePlaces \union PlanPlaces => seen[c].usdt < intent[c].amount
        /\ plan[c] # None =>
            /\ seen[c].usdt < intent[c].amount
            /\ intent[c].amount <= Target => seen[c].usdt + plan[c].required >= intent[c].amount

ReportInv ==
    WalletInv /\ \A c \in Commands : Answering(c) /\ Reported(c) /\ Planned(c) /\ Buying(c)
-----------------------------------------------------------------------------
(* The steps of a command *)

LEMMA CallNames ==
    /\ PlanCalls[1] = "context" /\ PlanCalls[2] = "policy" /\ PlanCalls[3] = "plan"
    /\ PlanCalls[4] = "session" /\ PlanCalls[5] = "next"
    /\ \A n \in 1..5 : PlanCalls[n] \in PlanPlaces \ {"root"}
    /\ \A n \in 1..5 : n < 5 => PlanCalls[n + 1] \in PlanPlaces \ {"root"}
<1>1. /\ PlanCalls[1] = "context" /\ PlanCalls[2] = "policy" /\ PlanCalls[3] = "plan"
      /\ PlanCalls[4] = "session" /\ PlanCalls[5] = "next"
  BY DEF PlanCalls
<1>2. \A n \in 1..5 : n = 1 \/ n = 2 \/ n = 3 \/ n = 4 \/ n = 5
  OBVIOUS
<1> QED BY <1>1, <1>2 DEF PlanPlaces

\* A command leaves the plans, bridges and ends of the others alone, takes no
\* approval back and makes no vault.
LEMMA OthersKeep ==
    ASSUME ReportInv, NEW c \in Commands, Step(c) \/ \E i \in Intent : Start(c, i)
    PROVE  /\ approved \subseteq approved' /\ vaults' = vaults
           /\ \A d \in Commands \ {c} :
                plan'[d] = plan[d] /\ bridge'[d] = bridge[d] /\ outcome'[d] = outcome[d]
<1> USE DEF chain
<1>0. TypeOK /\ WalletInv
  BY DEF ReportInv, WalletInv
<1>1. CASE \E i \in Intent : Start(c, i)
  BY <1>0, <1>1 DEF Start, TypeOK
<1>2. CASE Step(c)
  <2>1. vaults' = vaults
    BY <1>0, <1>2, StepMoves
  <2>2. approved \subseteq approved'
    BY <1>2 DEF Step, Fail, Connect, Close, ReadBnb, ReadUsdt, ReadApprovals, Trade,
       SetApprovals, Check, TransferMined, TransferRefused, Bootstrap, Predict, HealthCheck, Prepare,
       ResolveRoot, PlanCall
  <2>3. outcome' = outcome \/ \E how : outcome' = [outcome EXCEPT ![c] = how]
    BY <1>2 DEF Step, Fail, Connect, Close, ReadBnb, ReadUsdt, ReadApprovals, Trade,
       SetApprovals, Check, TransferMined, TransferRefused, Bootstrap, Predict, HealthCheck, Prepare,
       ResolveRoot, PlanCall, Resolved, Proceed, Leave
  <2>4. plan' = plan \/ \E p : plan' = [plan EXCEPT ![c] = p]
    BY <1>2 DEF Step, Fail, Connect, Close, ReadBnb, ReadUsdt, ReadApprovals, Trade,
       SetApprovals, Check, TransferMined, TransferRefused, Bootstrap, Predict, HealthCheck, Prepare,
       ResolveRoot, PlanCall
  <2>5. bridge' = bridge \/ \E b : bridge' = [bridge EXCEPT ![c] = b]
    BY <1>2 DEF Step, Fail, Connect, Close, ReadBnb, ReadUsdt, ReadApprovals, Trade,
       SetApprovals, Check, TransferMined, TransferRefused, Bootstrap, Predict, HealthCheck, Prepare,
       ResolveRoot, PlanCall
  <2> QED BY <1>0, <2>1, <2>2, <2>3, <2>4, <2>5 DEF TypeOK
<1> QED BY <1>1, <1>2

\* Places and outcomes after going on and after leaving.
LEMMA WayOn ==
    ASSUME TypeOK, NEW c \in Commands
    PROVE  /\ \A place : Proceed(c, place) => at'[c] = place /\ outcome'[c] = outcome[c]
           /\ \A how : Leave(c, how) => at'[c] \in {"close", "done"} /\ outcome'[c] = how
BY DEF TypeOK, Proceed, Leave, Go

\* A step keeps who is where and why.
LEMMA StepAnswering ==
    ASSUME ReportInv, NEW c \in Commands, Step(c)
    PROVE  Answering(c)'
<1> USE DEF chain
<1>0. TypeOK /\ WalletInv /\ Answering(c) /\ Buying(c)
  BY DEF ReportInv, WalletInv
<1>1. env' = env /\ intent' = intent
  BY <1>0, StepMoves
<1>2. UsesBridge(intent[c].kind)' = UsesBridge(intent[c].kind) /\ HasOverlay(env)' = HasOverlay(env)
  BY <1>1 DEF UsesBridge
\* Elsewhere than at one of the places that say something, nothing is claimed.
<1>3. ASSUME at'[c] \in Places \ (BridgePlaces \union PlanPlaces \union Branches \union {"approvals", "idle"}),
             bridge'[c] = bridge[c] \/ bridge'[c] = None
      PROVE  Answering(c)'
  BY <1>0, <1>1, <1>2, <1>3 DEF Answering, BridgePlaces, PlanPlaces, Branches
<1>4. ASSUME \E how : Leave(c, how), bridge' = bridge PROVE Answering(c)'
  <2>1. at'[c] \in {"close", "done"}
    BY <1>0, <1>4, WayOn
  <2> QED BY <1>3, <1>4, <2>1 DEF Places, BridgePlaces, PlanPlaces, Branches
<1>5. ASSUME NEW place \in BridgePlaces, place # "prepare", Proceed(c, place), bridge' = bridge,
             UsesBridge(intent[c].kind)
      PROVE  Answering(c)'
  <2>1. at'[c] = place
    BY <1>0, <1>5, WayOn
  <2> QED BY <1>0, <1>1, <1>2, <1>5, <2>1 DEF Answering, BridgePlaces, PlanPlaces, Branches
<1>6. ASSUME NEW place \in PlanPlaces, Proceed(c, place), bridge' = bridge,
             UsesBridge(intent[c].kind), HasOverlay(env)
      PROVE  Answering(c)'
  <2>1. at'[c] = place
    BY <1>0, <1>6, WayOn
  <2> QED BY <1>0, <1>1, <1>2, <1>6, <2>1 DEF Answering, BridgePlaces, PlanPlaces, Branches
<1>7. CASE \/ Fail(c) \/ ReadApprovals(c) \/ Trade(c)
          \/ TransferMined(c) \/ TransferRefused(c) \/ Prepare(c)
  <2>1. (\E how : Leave(c, how)) /\ bridge' = bridge
    BY <1>7 DEF Fail, ReadApprovals, Trade, TransferMined, TransferRefused, Prepare
  <2> QED BY <1>4, <2>1
<1>8. CASE Close(c)
  <2>1. at'[c] = "done" /\ bridge'[c] = None
    BY <1>0, <1>8 DEF Close, Go, TypeOK
  <2> QED BY <1>3, <2>1 DEF Places, BridgePlaces, PlanPlaces, Branches
<1>9. CASE Connect(c)
  <2>1. UsesBridge(intent[c].kind) /\ at[c] = "connect"
    BY <1>0, <1>9 DEF Connect, Answering, BridgePlaces
  <2>2. at'[c] \in {"resolve", "bnb"}
    BY <1>0, <1>9, WayOn DEF Connect
  <2> QED BY <1>1, <1>2, <2>1, <2>2 DEF Answering, BridgePlaces, PlanPlaces, Branches
<1>10. CASE ReadBnb(c) \/ Check(c)
  <2>1. at'[c] \in {"usdt", "send", "close", "done"} /\ bridge' = bridge
    BY <1>0, <1>10, WayOn DEF ReadBnb, Check
  <2> QED BY <1>3, <2>1 DEF Places, BridgePlaces, PlanPlaces, Branches
<1>11. CASE ReadUsdt(c)
  <2>1. bridge' = bridge
    BY <1>11 DEF ReadUsdt
  <2>2. CASE bridge[c] # None /\ Proceed(c, "resolve")
    <3>1. UsesBridge(intent[c].kind)
      BY <1>0, <2>2 DEF Answering
    <3> QED BY <1>5, <2>1, <2>2, <3>1 DEF BridgePlaces
  <2>3. CASE Proceed(c, "check")
    <3>1. at'[c] = "check"
      BY <1>0, <2>3, WayOn
    <3> QED BY <1>3, <2>1, <3>1 DEF Places, BridgePlaces, PlanPlaces, Branches
  <2>4. CASE bridge[c] = None /\ intent[c].kind = "status" /\ Proceed(c, "approvals")
    <3>1. at'[c] = "approvals"
      BY <1>0, <2>4, WayOn
    <3> QED BY <1>1, <2>1, <2>4, <3>1 DEF Answering, BridgePlaces, PlanPlaces, Branches
  <2>5. CASE intent[c].kind = "buy" /\ Proceed(c, "connect")
    <3>1. UsesBridge(intent[c].kind)
      BY <1>0, <1>11, <2>5 DEF ReadUsdt, Buying, UsesBridge
    <3> QED BY <1>5, <2>1, <2>5, <3>1 DEF BridgePlaces
  <2>6. CASE Proceed(c, "trade")
    <3>1. at'[c] = "trade"
      BY <1>0, <2>6, WayOn
    <3> QED BY <1>3, <2>1, <3>1 DEF Places, BridgePlaces, PlanPlaces, Branches
  <2> QED BY <1>4, <1>11, <2>1, <2>2, <2>3, <2>4, <2>5, <2>6 DEF ReadUsdt
<1>12. ASSUME NEW branch \in Branches, SetApprovals(c, branch) PROVE Answering(c)'
  <2>1. bridge' = bridge /\ intent[c].kind = "approve"
    BY <1>0, <1>12 DEF SetApprovals, Answering
  <2>2. CASE Proceed(c, "yieldBearing")
    <3>1. at'[c] = "yieldBearing"
      BY <1>0, <2>2, WayOn
    <3> QED BY <1>0, <1>1, <1>2, <2>1, <3>1 DEF Answering, BridgePlaces, PlanPlaces, Branches
  <2> QED BY <1>4, <1>12, <2>1, <2>2 DEF SetApprovals
<1>13. ASSUME Resolved(c), bridge' = bridge, UsesBridge(intent[c].kind) PROVE Answering(c)'
  <2>1. CASE WalletMode(env) # "mandated-vault"
    <3>1. HasOverlay(env)
      BY <1>13, <2>1 DEF UsesBridge
    <3> QED BY <1>6, <1>13, <2>1, <3>1 DEF Resolved, PlanPlaces
  <2> QED BY <1>4, <1>13, <2>1 DEF Resolved
<1>14. CASE Bootstrap(c) \/ Predict(c)
  <2>1. bridge' = bridge /\ UsesBridge(intent[c].kind)
    BY <1>0, <1>14 DEF Bootstrap, Predict, Answering, BridgePlaces
  <2>2. Proceed(c, "health") \/ Resolved(c)
    BY <1>14 DEF Bootstrap, Predict
  <2> QED BY <1>5, <1>13, <2>1, <2>2 DEF BridgePlaces
<1>15. CASE HealthCheck(c)
  <2>1. bridge' = bridge /\ UsesBridge(intent[c].kind)
    BY <1>0, <1>15 DEF HealthCheck, Answering, BridgePlaces
  <2>2. CASE Proceed(c, "prepare") /\ vaults[Address(env)] = None
    <3>1. at'[c] = "prepare"
      BY <1>0, <2>2, WayOn
    <3>2. Knows(c, FALSE, None)
      BY <1>15, <2>2 DEF HealthCheck
    <3>3. ~seen'[c].exists
      BY <1>0, <3>2 DEF Knows, TypeOK, Seen
    <3> QED BY <1>0, <1>1, <1>2, <2>1, <3>1, <3>3 DEF Answering, BridgePlaces, PlanPlaces, Branches
  <2> QED BY <1>13, <1>15, <2>1, <2>2 DEF HealthCheck
<1>16. CASE ResolveRoot(c)
  <2>1. bridge' = bridge /\ UsesBridge(intent[c].kind) /\ HasOverlay(env)
    BY <1>0, <1>16 DEF ResolveRoot, Answering, PlanPlaces
  <2> QED BY <1>6, <1>16, <2>1, CallNames DEF ResolveRoot, PlanPlaces
<1>17. ASSUME NEW n \in 1..5, PlanCall(c, n) PROVE Answering(c)'
  <2>1. at[c] \in PlanPlaces /\ bridge' = bridge
    BY <1>17, CallNames DEF PlanCall
  <2>2. UsesBridge(intent[c].kind) /\ HasOverlay(env)
    BY <1>0, <2>1 DEF Answering
  <2>3. CASE n < 5 /\ Proceed(c, PlanCalls[n + 1])
    BY <1>6, <2>1, <2>2, <2>3, CallNames
  <2>4. CASE intent[c].kind = "status" /\ Proceed(c, "approvals")
    <3>1. at'[c] = "approvals"
      BY <1>0, <2>4, WayOn
    <3> QED BY <1>1, <1>2, <2>1, <2>2, <2>4, <3>1 DEF Answering, BridgePlaces, PlanPlaces, Branches
  <2> QED BY <1>4, <1>17, <2>1, <2>3, <2>4 DEF PlanCall
<1> QED BY <1>7, <1>8, <1>9, <1>10, <1>11, <1>12, <1>14, <1>15, <1>16, <1>17 DEF Step
\* What a step lets a command learn: nothing, a balance, approvals that are
\* given, how its transfer went, or what there is at the vault's address.
LEMMA StepReported ==
    ASSUME ReportInv, NEW c \in Commands, Step(c)
    PROVE  Reported(c)'
<1> USE DEF chain
<1>0. TypeOK /\ WalletInv /\ Answering(c) /\ Reported(c) /\ Buying(c) /\ seen[c] \in Seen
  BY DEF ReportInv, WalletInv, TypeOK
<1>1. /\ env' = env /\ intent' = intent /\ approved \subseteq approved'
      /\ IsPlain(intent[c])' = IsPlain(intent[c])
  BY <1>0, StepMoves, OthersKeep DEF IsPlain
\* Steps that change neither the approvals nor what is known of the vault or
\* the transfer, and that are no withdrawal's success.
<1>2. ASSUME /\ seen'[c].approved \subseteq approved' /\ seen'[c].sent = seen[c].sent
             /\ seen'[c].prepared # None =>
                   ~seen'[c].exists /\ (env.vault = None => seen'[c].prepared = Address(env)),
             \/ outcome'[c] = outcome[c] \/ outcome'[c] # "returned"
             \/ intent[c].kind # "withdraw"
      PROVE  Reported(c)'
  BY <1>0, <1>1, <1>2 DEF Reported, Address
<1>3. ASSUME seen' = seen,
             \/ outcome'[c] = outcome[c] \/ outcome'[c] # "returned"
             \/ intent[c].kind # "withdraw"
      PROVE  Reported(c)'
  BY <1>0, <1>1, <1>2, <1>3 DEF Reported
<1>4. CASE Fail(c) \/ Connect(c) \/ Predict(c) \/ ResolveRoot(c) \/ Check(c)
  <2>1. seen' = seen
    BY <1>4 DEF Fail, Connect, Predict, ResolveRoot, Check
  <2>2. outcome'[c] = outcome[c] \/ outcome'[c] = "raised"
    BY <1>0, <1>4, WayOn DEF Fail, Connect, Predict, ResolveRoot, Check
  <2> QED BY <1>3, <2>1, <2>2
<1>5. CASE TransferRefused(c)
  <2>1. seen' = seen
    BY <1>5 DEF TransferRefused
  <2>2. outcome'[c] = "failed" \/ outcome'[c] = "raised"
    BY <1>0, <1>5, WayOn DEF TransferRefused
  <2> QED BY <1>3, <2>1, <2>2
<1>15. CASE Trade(c)
  <2>1. seen' = seen /\ intent[c].kind = "buy"
    BY <1>0, <1>15 DEF Trade, Buying
  <2> QED BY <1>3, <2>1
<1>6. CASE Close(c)
  <2>1. seen' = seen /\ outcome'[c] \in {outcome[c], "raised"}
    BY <1>0, <1>6 DEF Close, TypeOK
  <2> QED BY <1>3, <2>1
<1>7. CASE ReadBnb(c) \/ ReadUsdt(c)
  <2>1. \/ seen' = [seen EXCEPT ![c] = [seen[c] EXCEPT !.bnb = bnb[FundingAddress(env)]]]
        \/ seen' = [seen EXCEPT ![c] = [seen[c] EXCEPT !.usdt = usdt[FundingAddress(env)]]]
    BY <1>7 DEF ReadBnb, ReadUsdt
  <2>2. /\ seen'[c].approved = seen[c].approved /\ seen'[c].sent = seen[c].sent
        /\ seen'[c].prepared = seen[c].prepared /\ seen'[c].exists = seen[c].exists
    BY <1>0, <2>1 DEF TypeOK, Seen
  <2>3. outcome'[c] = outcome[c] \/ outcome'[c] = "raised" \/ intent[c].kind = "deposit"
    BY <1>0, <1>7, WayOn DEF ReadBnb, ReadUsdt
  <2> QED BY <1>0, <1>1, <1>2, <2>2, <2>3 DEF Reported
<1>8. CASE ReadApprovals(c)
  <2>1. approved' = approved /\ seen' = [seen EXCEPT ![c] = [seen[c] EXCEPT !.approved = approved]]
    BY <1>8 DEF ReadApprovals
  <2>2. /\ seen'[c].approved = approved' /\ seen'[c].sent = seen[c].sent
        /\ seen'[c].prepared = seen[c].prepared /\ seen'[c].exists = seen[c].exists
    BY <1>0, <2>1 DEF TypeOK, Seen
  <2>3. intent[c].kind = "status"
    BY <1>0, <1>8 DEF ReadApprovals, Answering
  <2> QED BY <1>0, <1>2, <2>2, <2>3 DEF Reported
<1>9. ASSUME NEW branch \in Branches, SetApprovals(c, branch) PROVE Reported(c)'
  <2>1. PICK given \in BOOLEAN :
          /\ approved' = IF given THEN approved \union {branch} ELSE approved
          /\ seen' = [seen EXCEPT ![c].approved = IF given THEN @ \union {branch} ELSE @]
    BY <1>9 DEF SetApprovals
  <2>2. /\ seen'[c].approved = IF given THEN seen[c].approved \union {branch} ELSE seen[c].approved
        /\ seen'[c].sent = seen[c].sent
        /\ seen'[c].prepared = seen[c].prepared /\ seen'[c].exists = seen[c].exists
    BY <1>0, <2>1 DEF TypeOK, Seen
  <2>3. intent[c].kind = "approve"
    BY <1>0, <1>9 DEF SetApprovals, Answering
  <2>4. seen'[c].approved \subseteq approved'
    BY <1>0, <2>1, <2>2 DEF Reported
  <2> QED BY <1>0, <1>2, <2>2, <2>3, <2>4 DEF Reported
<1>10. CASE TransferMined(c)
  <2>1. PICK moved \in BOOLEAN :
          /\ seen' = [seen EXCEPT ![c].sent = moved]
          /\ \E how \in {ReceiptOutcome(intent[c], moved), "raised"} : Leave(c, how)
    BY <1>10 DEF TransferMined
  <2>2. /\ seen'[c].approved = seen[c].approved /\ seen'[c].sent = moved
        /\ seen'[c].prepared = seen[c].prepared /\ seen'[c].exists = seen[c].exists
    BY <1>0, <2>1 DEF TypeOK, Seen
  <2>3. outcome'[c] \in {ReceiptOutcome(intent[c], moved), "raised"}
    BY <1>0, <2>1, WayOn
  <2> QED BY <1>0, <1>1, <2>2, <2>3 DEF Reported, ReceiptOutcome
<1>11. ASSUME NEW exists \in BOOLEAN, NEW prepared \in VaultAddresses \union {None}, Knows(c, exists, prepared)
       PROVE  /\ seen'[c].approved = seen[c].approved /\ seen'[c].sent = seen[c].sent
              /\ seen'[c].prepared = prepared /\ seen'[c].exists = exists
  <2> DEFINE s == [seen[c] EXCEPT !.exists = exists, !.prepared = prepared,
                                  !.epoch = IF exists THEN vaults[Address(env)] ELSE 0]
  <2>1. seen'[c] = s
    BY <1>0, <1>11 DEF Knows, TypeOK
  <2>2. /\ s.approved = seen[c].approved /\ s.sent = seen[c].sent
        /\ s.prepared = prepared /\ s.exists = exists
    BY <1>0 DEF Seen
  <2> HIDE DEF s
  <2> QED BY <2>1, <2>2
<1>12. CASE Bootstrap(c) \/ HealthCheck(c)
  <2>1. \E exists \in BOOLEAN, prepared \in VaultAddresses \union {None} :
           /\ Knows(c, exists, prepared)
           /\ prepared # None => ~exists /\ prepared = Address(env)
    <3>1. CASE Bootstrap(c)
      <4>0. Address(env) = "predicted"
        BY <3>1 DEF Bootstrap, Address
      <4> DEFINE exists == vaults["predicted"] # None
      <4>1. PICK complete \in BOOLEAN :
                Knows(c, exists, IF ~exists /\ complete /\ WantsPreparation(c) THEN "predicted" ELSE None)
        BY <3>1 DEF Bootstrap
      <4>2. exists \in BOOLEAN
            /\ (IF ~exists /\ complete /\ WantsPreparation(c) THEN "predicted" ELSE None)
                  \in VaultAddresses \union {None}
        BY DEF VaultAddresses
      <4> HIDE DEF exists
      <4> QED BY <4>0, <4>1, <4>2
    <3>2. CASE HealthCheck(c)
      <4> DEFINE exists == vaults[Address(env)] # None
      <4>1. Knows(c, exists, None) /\ exists \in BOOLEAN
        BY <3>2 DEF HealthCheck
      <4> HIDE DEF exists
      <4> QED BY <4>1
    <3> QED BY <1>12, <3>1, <3>2
  <2>2. UsesBridge(intent[c].kind)
    BY <1>0, <1>12 DEF Bootstrap, HealthCheck, Answering, BridgePlaces
  <2>3. intent[c].kind # "withdraw"
    BY <2>2 DEF UsesBridge
  <2>4. approved' = approved
    BY <1>12 DEF Bootstrap, HealthCheck
  <2> QED BY <1>0, <1>2, <1>11, <2>1, <2>3, <2>4 DEF Reported
<1>13. CASE Prepare(c)
  <2>1. seen' = [seen EXCEPT ![c] = [seen[c] EXCEPT !.prepared = "predicted"]] /\ approved' = approved
    BY <1>13 DEF Prepare
  <2>2. /\ seen'[c].approved = seen[c].approved /\ seen'[c].sent = seen[c].sent
        /\ seen'[c].exists = seen[c].exists
    BY <1>0, <2>1 DEF TypeOK, Seen
  <2>3. ~seen[c].exists /\ UsesBridge(intent[c].kind)
    BY <1>0, <1>13 DEF Prepare, Answering, BridgePlaces
  <2>4. seen'[c].prepared = "predicted" /\ (env.vault = None => Address(env) = "predicted")
    BY <1>0, <2>1 DEF TypeOK, Seen, Address
  <2> QED BY <1>0, <1>2, <2>1, <2>2, <2>3, <2>4 DEF Reported, UsesBridge
<1>14. ASSUME NEW n \in 1..5, PlanCall(c, n) PROVE Reported(c)'
  <2>1. seen' = seen
    BY <1>14 DEF PlanCall
  <2>2. at[c] \in PlanPlaces
    BY <1>14, CallNames DEF PlanCall
  <2>3. intent[c].kind # "withdraw"
    BY <1>0, <2>2 DEF Answering, UsesBridge
  <2> QED BY <1>3, <2>1, <2>3
<1> QED BY <1>4, <1>5, <1>6, <1>7, <1>8, <1>9, <1>10, <1>12, <1>13, <1>14, <1>15 DEF Step

\* In the overlay the funds go to the Predict Account.
LEMMA OverlayRecipient ==
    ASSUME NEW e \in Environments, Accepted(e), HasOverlay(e)
    PROVE  FundingAddress(e) = "account"
<1>1. e \in Environment /\ None \notin Modes
  BY WalletAssumption
<1>2. e.mode \in Modes \union {None} /\ e.account \in BOOLEAN /\ WalletMode(e) = "predict-account"
  BY <1>1 DEF Environment, HasOverlay
<1>3. e.account
  <2>1. CASE e.mode = None
    BY <1>2, <2>1 DEF WalletMode
  <2>2. CASE e.mode # None
    <3>1. e.mode = "predict-account"
      BY <1>2, <2>2 DEF WalletMode
    <3> QED BY <3>1 DEF Accepted, PredictAccountAccepted
  <2> QED BY <2>1, <2>2
<1> QED BY <1>3 DEF FundingAddress

\* The plan is made of the balance and the epoch that are known by then.
LEMMA StepPlanned ==
    ASSUME ReportInv, NEW c \in Commands, Step(c)
    PROVE  Planned(c)'
<1> USE DEF chain
<1>0. TypeOK /\ WalletInv /\ Answering(c) /\ Planned(c) /\ seen[c] \in Seen
  BY DEF ReportInv, WalletInv, TypeOK
<1>1. env' = env /\ vaults' = vaults
  BY <1>0, StepMoves
<1>2. Address(env)' = Address(env) /\ \A e : Reached(e)' = Reached(e)
  BY <1>1 DEF Reached, Address
<1> DEFINE Late == {"session", "next", "approvals", "close", "done"}
\* Nothing is planned or read.
<1>3. ASSUME plan' = plan, seen'[c].epoch = seen[c].epoch, seen'[c].usdt = seen[c].usdt,
             at[c] \in Late => at'[c] \in Late
      PROVE  Planned(c)'
  BY <1>0, <1>2, <1>3 DEF Planned
\* Something is read before there is a plan.
<1>4. ASSUME plan' = plan, at[c] \notin Late, Reached(seen'[c].epoch) PROVE Planned(c)'
  <2>1. plan'[c] = None
    BY <1>0, <1>4 DEF Planned
  <2> QED BY <1>2, <1>4, <2>1 DEF Planned
<1>5. CASE Fail(c) \/ Trade(c) \/ Check(c) \/ TransferRefused(c)
  <2>1. plan' = plan /\ seen' = seen
    BY <1>5 DEF Fail, Trade, Check, TransferRefused
  <2>2. at[c] \in Late => at'[c] \in {"close", "done"}
    BY <1>0, <1>5, WayOn DEF Fail, Trade, Check, TransferRefused
  <2> QED BY <1>3, <2>1, <2>2
<1>6. CASE Close(c)
  <2>1. plan' = plan /\ seen' = seen /\ at'[c] = "done"
    BY <1>0, <1>6 DEF Close, Go, TypeOK
  <2> QED BY <1>3, <2>1
<1>7. CASE Connect(c) \/ Predict(c) \/ ResolveRoot(c)
  <2>1. plan' = plan /\ seen' = seen /\ at[c] \notin Late
    BY <1>7 DEF Connect, Predict, ResolveRoot
  <2> QED BY <1>3, <2>1
<1>8. CASE ReadBnb(c) \/ ReadUsdt(c)
  <2>1. plan' = plan /\ at[c] \notin Late
    BY <1>8 DEF ReadBnb, ReadUsdt
  <2>2. \/ seen' = [seen EXCEPT ![c] = [seen[c] EXCEPT !.bnb = bnb[FundingAddress(env)]]]
        \/ seen' = [seen EXCEPT ![c] = [seen[c] EXCEPT !.usdt = usdt[FundingAddress(env)]]]
    BY <1>8 DEF ReadBnb, ReadUsdt
  <2>3. seen'[c].epoch = seen[c].epoch
    BY <1>0, <2>2 DEF TypeOK, Seen
  <2>4. Reached(seen[c].epoch)
    BY <1>0 DEF Planned
  <2> QED BY <1>4, <2>1, <2>3, <2>4
<1>9. CASE ReadApprovals(c)
  <2>1. plan' = plan /\ seen' = [seen EXCEPT ![c] = [seen[c] EXCEPT !.approved = approved]]
    BY <1>9 DEF ReadApprovals
  <2>2. seen'[c].epoch = seen[c].epoch /\ seen'[c].usdt = seen[c].usdt
    BY <1>0, <2>1 DEF TypeOK, Seen
  <2>3. at'[c] \in Late
    BY <1>0, <1>9, WayOn DEF ReadApprovals
  <2> QED BY <1>3, <2>1, <2>2, <2>3
<1>10. ASSUME NEW branch \in Branches, SetApprovals(c, branch) PROVE Planned(c)'
  <2>1. plan' = plan /\ at[c] \notin Late
    BY <1>10 DEF SetApprovals, Branches
  <2>2. PICK given \in BOOLEAN :
          seen' = [seen EXCEPT ![c].approved = IF given THEN @ \union {branch} ELSE @]
    BY <1>10 DEF SetApprovals
  <2>3. seen'[c].epoch = seen[c].epoch /\ seen'[c].usdt = seen[c].usdt
    BY <1>0, <2>2 DEF TypeOK, Seen
  <2> QED BY <1>3, <2>1, <2>3
<1>11. CASE TransferMined(c)
  <2>1. plan' = plan /\ at[c] \notin Late
    BY <1>11 DEF TransferMined
  <2>2. PICK moved \in BOOLEAN : seen' = [seen EXCEPT ![c].sent = moved]
    BY <1>11 DEF TransferMined
  <2>3. seen'[c].epoch = seen[c].epoch /\ seen'[c].usdt = seen[c].usdt
    BY <1>0, <2>2 DEF TypeOK, Seen
  <2> QED BY <1>3, <2>1, <2>3
<1>12. CASE Prepare(c)
  <2>1. plan' = plan /\ seen' = [seen EXCEPT ![c] = [seen[c] EXCEPT !.prepared = "predicted"]]
    BY <1>12 DEF Prepare
  <2>2. seen'[c].epoch = seen[c].epoch /\ seen'[c].usdt = seen[c].usdt
    BY <1>0, <2>1 DEF TypeOK, Seen
  <2>3. at[c] \notin Late
    BY <1>12 DEF Prepare
  <2> QED BY <1>3, <2>1, <2>2, <2>3
<1>13. ASSUME NEW exists \in BOOLEAN, exists = (vaults[Address(env)] # None),
              NEW prepared \in VaultAddresses \union {None}, Knows(c, exists, prepared)
       PROVE  Reached(seen'[c].epoch)
  <2> DEFINE epoch == IF exists THEN vaults[Address(env)] ELSE 0
             s == [seen[c] EXCEPT !.exists = exists, !.prepared = prepared, !.epoch = epoch]
  <2>1. seen'[c] = s
    BY <1>0, <1>13 DEF Knows, TypeOK
  <2>2. s.epoch = epoch
    BY <1>0 DEF Seen
  <2>3. Reached(epoch)
    <3>1. Address(env) \in VaultAddresses
      BY <1>0, Addresses
    <3>2. vaults[Address(env)] # None => vaults[Address(env)] \in Nat
      BY <1>0, <3>1 DEF TypeOK
    <3>3. CASE exists
      <4> DEFINE v == vaults[Address(env)]
      <4>1. epoch = v /\ v # None /\ v \in Nat
        BY <1>13, <3>2, <3>3
      <4>2. v <= v
        BY <4>1
      <4> HIDE DEF epoch
      <4> QED BY <4>1, <4>2 DEF Reached
    <3>4. CASE ~exists
      BY <1>13, <3>4 DEF Reached
    <3> QED BY <3>3, <3>4
  <2> HIDE DEF s, epoch
  <2> QED BY <2>1, <2>2, <2>3
<1>14. CASE Bootstrap(c) \/ HealthCheck(c)
  <2>1. \E exists \in BOOLEAN, prepared \in VaultAddresses \union {None} :
           exists = (vaults[Address(env)] # None) /\ Knows(c, exists, prepared)
    <3>1. CASE Bootstrap(c)
      <4>1. Address(env) = "predicted"
        BY <3>1 DEF Bootstrap, Address
      <4> DEFINE exists == vaults["predicted"] # None
      <4>2. PICK complete \in BOOLEAN :
                Knows(c, exists, IF ~exists /\ complete /\ WantsPreparation(c) THEN "predicted" ELSE None)
        BY <3>1 DEF Bootstrap
      <4>3. exists \in BOOLEAN
            /\ (IF ~exists /\ complete /\ WantsPreparation(c) THEN "predicted" ELSE None)
                  \in VaultAddresses \union {None}
        BY DEF VaultAddresses
      <4>4. exists = (vaults[Address(env)] # None)
        BY <4>1
      <4> HIDE DEF exists
      <4> QED BY <4>2, <4>3, <4>4
    <3>2. CASE HealthCheck(c)
      <4> DEFINE exists == vaults[Address(env)] # None
      <4>1. Knows(c, exists, None) /\ exists \in BOOLEAN
        BY <3>2 DEF HealthCheck
      <4> QED BY <4>1
    <3> QED BY <1>14, <3>1, <3>2
  <2>2. plan' = plan /\ at[c] \notin Late
    BY <1>14 DEF Bootstrap, HealthCheck
  <2> QED BY <1>4, <1>13, <2>1, <2>2
<1>15. ASSUME NEW n \in 1..5, PlanCall(c, n) PROVE Planned(c)'
  <2>1. seen' = seen /\ at[c] = PlanCalls[n]
    BY <1>15 DEF PlanCall
  <2>2. n = 1 \/ n = 2 \/ n = 3 \/ n = 4 \/ n = 5
    BY <1>15
  <2>3. CASE n # 3
    <3>1. plan' = plan
      BY <1>15, <2>2, <2>3, CallNames DEF PlanCall
    <3>2. n < 4 => at[c] \notin Late
      BY <2>1, <2>2, <2>3, CallNames
    <3>3. n = 4 => at'[c] \in Late
      BY <1>0, <1>15, WayOn, CallNames DEF PlanCall
    <3>4. n = 5 => at'[c] \in Late
      BY <1>0, <1>15, WayOn DEF PlanCall
    <3> QED BY <1>3, <2>1, <2>2, <3>1, <3>2, <3>3, <3>4
  <2>4. CASE n = 3
    <3>1. plan'[c] = PlanOf(c)
      BY <1>0, <1>15, <2>4, CallNames DEF PlanCall, TypeOK
    <3>2. at'[c] = "session"
      BY <1>0, <1>15, <2>4, WayOn, CallNames DEF PlanCall
    <3>3. HasOverlay(env) /\ Accepted(env) /\ env \in Environments
      BY <1>0, <2>1, <2>4, CallNames DEF Answering, PlanPlaces, WalletInv, Underway, TypeOK
    <3>4. FundingAddress(env) = "account"
      BY <3>3, OverlayRecipient
    <3>5. /\ PlanOf(c).recipient = "account" /\ PlanOf(c).vault = Address(env)
          /\ PlanOf(c).balance = seen[c].usdt /\ PlanOf(c).epoch = seen[c].epoch
          /\ PlanOf(c).required = IF seen[c].usdt >= Target THEN 0 ELSE Target - seen[c].usdt
      BY <3>4 DEF PlanOf
    <3>6. seen[c].usdt \in Nat /\ Target \in Nat
      BY <1>0, WalletAssumption DEF Seen
    <3>7. PlanOf(c).required > 0 => PlanOf(c).required + seen[c].usdt = Target
      BY <3>5, <3>6
    <3> QED BY <1>0, <1>2, <2>1, <3>1, <3>2, <3>5, <3>7 DEF Planned
  <2> QED BY <2>3, <2>4
<1> QED BY <1>5, <1>6, <1>7, <1>8, <1>9, <1>10, <1>11, <1>12, <1>14, <1>15 DEF Step
\* Where a command that buys goes, and what it has seen missing.
LEMMA StepBuying ==
    ASSUME ReportInv, NEW c \in Commands, Step(c)
    PROVE  Buying(c)'
<1> USE DEF chain
<1> DEFINE Funding == BridgePlaces \union PlanPlaces
<1>0. TypeOK /\ WalletInv /\ Answering(c) /\ Planned(c) /\ Buying(c) /\ Underway(c) /\ seen[c] \in Seen
  BY DEF ReportInv, WalletInv, TypeOK
<1>1. env' = env /\ intent' = intent
  BY <1>0, StepMoves
<1>2. at[c] # "idle"
  <2>1. \A n \in 1..5 : PlanCalls[n] # "idle"
    BY CallPlaces
  <2> QED BY <2>1 DEF Step, Fail, Connect, Close, ReadBnb, ReadUsdt, ReadApprovals, Trade,
       SetApprovals, Branches, Check, TransferMined, TransferRefused, Bootstrap, Predict,
       HealthCheck, Prepare, ResolveRoot, PlanCall
<1>3. intent'[c] \in Intent
  BY <1>0, <1>1, <1>2 DEF Buying
\* Of other commands it is only claimed that they do not trade.
<1>4. ASSUME intent[c].kind # "buy", at'[c] # "trade" PROVE Buying(c)'
  BY <1>1, <1>3, <1>4 DEF Buying
<1>5. ASSUME at'[c] \in {"close", "done"}, plan'[c] = plan[c] \/ plan'[c] = None,
             seen'[c].usdt = seen[c].usdt
      PROVE  Buying(c)'
  BY <1>0, <1>1, <1>3, <1>5 DEF Buying, BridgePlaces, PlanPlaces
<1>6. ASSUME at[c] \in Funding, at'[c] \in Funding \union {"approvals", "close", "done"},
             plan' = plan, seen'[c].usdt = seen[c].usdt
      PROVE  Buying(c)'
  BY <1>0, <1>1, <1>3, <1>6 DEF Buying, BridgePlaces, PlanPlaces
<1>7. CASE Fail(c) \/ Trade(c) \/ Check(c) \/ TransferRefused(c)
  <2>1. plan' = plan /\ seen' = seen
    BY <1>7 DEF Fail, Trade, Check, TransferRefused
  <2>2. at'[c] \in {"close", "done"} \/ (at'[c] = "send" /\ at[c] = "check")
    BY <1>0, <1>7, WayOn DEF Fail, Trade, Check, TransferRefused
  <2>3. at[c] = "check" => intent[c].kind = "withdraw"
    BY <1>0 DEF Underway
  <2> QED BY <1>4, <1>5, <2>1, <2>2, <2>3
<1>8. CASE Close(c)
  <2>1. plan' = plan /\ seen' = seen /\ at'[c] = "done"
    BY <1>0, <1>8 DEF Close, Go, TypeOK
  <2> QED BY <1>5, <2>1
<1>9. CASE Connect(c)
  <2>1. plan' = plan /\ seen' = seen /\ at[c] = "connect"
    BY <1>9 DEF Connect
  <2>2. CASE intent[c].kind = "buy"
    <3>1. at'[c] = "resolve"
      BY <1>0, <1>9, <2>2, WayOn DEF Connect
    <3> QED BY <1>6, <2>1, <3>1 DEF BridgePlaces
  <2>3. CASE intent[c].kind # "buy"
    <3>1. at'[c] \in {"resolve", "bnb"}
      BY <1>0, <1>9, WayOn DEF Connect
    <3> QED BY <1>4, <2>3, <3>1
  <2> QED BY <2>2, <2>3
<1>10. CASE ReadBnb(c)
  <2>1. intent[c].kind # "buy" /\ at'[c] = "usdt"
    BY <1>0, <1>10, WayOn DEF ReadBnb, Buying
  <2> QED BY <1>4, <2>1
<1>11. CASE ReadApprovals(c) \/ \E branch \in Branches : SetApprovals(c, branch)
  <2>1. intent[c].kind # "buy"
    BY <1>0, <1>11 DEF ReadApprovals, SetApprovals, Answering
  <2>2. at'[c] # "trade"
    BY <1>0, <1>11, WayOn DEF ReadApprovals, SetApprovals
  <2> QED BY <1>4, <2>1, <2>2
<1>12. CASE ReadUsdt(c)
  <2> DEFINE balance == usdt[FundingAddress(env)]
  <2>1. /\ plan' = plan /\ bridge' = bridge /\ plan[c] = None /\ at[c] = "usdt"
        /\ seen' = [seen EXCEPT ![c] = [seen[c] EXCEPT !.usdt = balance]]
    BY <1>0, <1>12 DEF ReadUsdt, Planned
  <2>2. seen'[c].usdt = balance
    BY <1>0, <2>1 DEF TypeOK, Seen
  <2>3. CASE intent[c].kind = "buy"
    <3>1. bridge[c] = None
      BY <1>0, <2>1, <2>3 DEF Buying
    <3>2. at'[c] = IF balance < intent[c].amount THEN "connect" ELSE "trade"
      BY <1>0, <1>12, <2>3, <3>1, WayOn DEF ReadUsdt
    <3> HIDE DEF balance
    <3> QED BY <1>1, <1>3, <2>1, <2>2, <2>3, <3>2 DEF Buying, BridgePlaces, PlanPlaces
  <2>4. CASE intent[c].kind # "buy"
    <3>1. at'[c] \in {"resolve", "check", "approvals", "close", "done"}
      BY <1>0, <1>12, <2>4, WayOn DEF ReadUsdt
    <3> QED BY <1>4, <2>4, <3>1
  <2> QED BY <2>3, <2>4
<1>13. CASE TransferMined(c)
  <2>1. intent[c].kind # "buy"
    BY <1>0, <1>13 DEF TransferMined, Underway
  <2>2. at'[c] # "trade"
    BY <1>0, <1>13, WayOn DEF TransferMined
  <2> QED BY <1>4, <2>1, <2>2
<1>14. ASSUME Resolved(c) PROVE at'[c] \in {"root", "close", "done"}
  BY <1>0, <1>14, WayOn DEF Resolved
<1>15. CASE Bootstrap(c) \/ HealthCheck(c)
  <2>1. PICK exists, prepared : Knows(c, exists, prepared)
    BY <1>15 DEF Bootstrap, HealthCheck
  <2>2. seen'[c].usdt = seen[c].usdt
    <3> DEFINE s == [seen[c] EXCEPT !.exists = exists, !.prepared = prepared,
                                    !.epoch = IF exists THEN vaults[Address(env)] ELSE 0]
    <3>1. seen'[c] = s
      BY <1>0, <2>1 DEF Knows, TypeOK
    <3>2. s.usdt = seen[c].usdt
      BY <1>0 DEF Seen
    <3> QED BY <3>1, <3>2
  <2>3. plan' = plan /\ at[c] \in {"resolve", "health"}
    BY <1>15 DEF Bootstrap, HealthCheck
  <2>4. at'[c] \in {"health", "prepare", "root", "close", "done"}
    BY <1>0, <1>14, <1>15, WayOn DEF Bootstrap, HealthCheck
  <2> QED BY <1>6, <2>2, <2>3, <2>4 DEF BridgePlaces, PlanPlaces
<1>16. CASE Predict(c) \/ ResolveRoot(c)
  <2>1. plan' = plan /\ seen' = seen /\ at[c] \in {"resolve", "root"}
    BY <1>16 DEF Predict, ResolveRoot
  <2>2. at'[c] \in {"health", "context"}
    BY <1>0, <1>16, WayOn, CallNames DEF Predict, ResolveRoot
  <2> QED BY <1>6, <2>1, <2>2 DEF BridgePlaces, PlanPlaces
<1>17. CASE Prepare(c)
  <2>1. plan' = plan /\ seen' = [seen EXCEPT ![c] = [seen[c] EXCEPT !.prepared = "predicted"]]
    BY <1>17 DEF Prepare
  <2>2. seen'[c].usdt = seen[c].usdt
    BY <1>0, <2>1 DEF TypeOK, Seen
  <2>3. at'[c] \in {"close", "done"}
    BY <1>0, <1>17, WayOn DEF Prepare
  <2> QED BY <1>5, <2>1, <2>2, <2>3
<1>18. ASSUME NEW n \in 1..5, PlanCall(c, n) PROVE Buying(c)'
  <2>1. seen' = seen /\ at[c] = PlanCalls[n] /\ at[c] \in PlanPlaces
    BY <1>18, CallNames DEF PlanCall
  <2>2. at'[c] \in PlanPlaces \union {"approvals", "close", "done"}
    <3>1. n < 5 => PlanCalls[n + 1] \in PlanPlaces
      BY CallNames
    <3> QED BY <1>0, <1>18, <3>1, WayOn DEF PlanCall
  <2>3. CASE plan' = plan
    BY <1>6, <2>1, <2>2, <2>3
  <2>4. CASE plan' = [plan EXCEPT ![c] = PlanOf(c)]
    <3>1. plan'[c].required = IF seen[c].usdt >= Target THEN 0 ELSE Target - seen[c].usdt
      BY <1>0, <2>4 DEF PlanOf, TypeOK
    <3>2. ASSUME intent[c].kind = "buy" PROVE Buying(c)'
      <4>1. seen[c].usdt < intent[c].amount /\ seen[c].usdt \in Nat /\ Target \in Nat
        BY <1>0, <2>1, <3>2, WalletAssumption DEF Buying, Seen
      <4>2. intent[c].amount \in Nat
        BY <1>1, <1>3, <3>2, WalletAssumption DEF Intent, Kinds
      <4>3. intent[c].amount <= Target => seen[c].usdt + plan'[c].required >= intent[c].amount
        BY <3>1, <4>1, <4>2
      <4> QED BY <1>1, <1>3, <2>1, <2>2, <4>1, <4>3 DEF Buying, BridgePlaces, PlanPlaces
    <3> QED BY <1>4, <2>2, <3>2 DEF PlanPlaces
  <2> QED BY <1>18, <2>3, <2>4 DEF PlanCall
<1> QED BY <1>7, <1>8, <1>9, <1>10, <1>11, <1>12, <1>13, <1>15, <1>16, <1>17, <1>18 DEF Step
-----------------------------------------------------------------------------
(* The theorems *)

\* What others do on the chain takes no approval back, and epochs only grow.
LEMMA OthersKeepReports ==
    ASSUME ReportInv, Others
    PROVE  \A c \in Commands : Answering(c)' /\ Reported(c)' /\ Planned(c)' /\ Buying(c)'
<1> USE DEF chain
<1>0. TypeOK
  BY DEF ReportInv, WalletInv
<1>1. UNCHANGED <<env, approved, at, intent, seen, plan, bridge, outcome>>
  BY DEF Others, OtherMovesFunds, OtherCreatesVault, AuthorityAccepted
<1>2. ASSUME NEW epoch \in Nat, Reached(epoch) PROVE Reached(epoch)'
  <2>1. Address(env)' = Address(env) /\ Address(env) \in VaultAddresses
    BY <1>0, <1>1, Addresses DEF Address
  <2>2. CASE OtherMovesFunds
    BY <1>2, <2>1, <2>2 DEF OtherMovesFunds, Reached
  <2>3. CASE OtherCreatesVault
    <3>1. PICK a \in VaultAddresses : vaults[a] = None /\ vaults' = [vaults EXCEPT ![a] = 0]
      BY <1>0, <2>3, ConcernedAddresses DEF OtherCreatesVault
    <3>2. CASE a = Address(env)
      <4>1. vaults'[Address(env)] = 0 /\ epoch = 0
        BY <1>0, <1>2, <2>1, <3>1, <3>2 DEF TypeOK, Reached
      <4> QED BY <2>1, <4>1 DEF Reached
    <3>3. CASE a # Address(env)
      <4>1. vaults'[Address(env)] = vaults[Address(env)]
        BY <1>0, <2>1, <3>1, <3>3 DEF TypeOK
      <4> QED BY <1>2, <2>1, <4>1 DEF Reached
    <3> QED BY <3>2, <3>3
  <2>4. CASE AuthorityAccepted
    <3>1. PICK a \in VaultAddresses : vaults[a] # None /\ vaults' = [vaults EXCEPT ![a] = @ + 1]
      BY <1>0, <2>4, ConcernedAddresses DEF AuthorityAccepted
    <3>2. CASE a = Address(env)
      <4> DEFINE v == vaults[Address(env)]
      <4>1. v # None /\ vaults'[Address(env)] = v + 1 /\ v \in Nat
        BY <1>0, <2>1, <3>1, <3>2 DEF TypeOK
      <4>2. epoch <= v
        BY <1>2, <4>1 DEF Reached
      <4>3. vaults'[Address(env)] # None
        BY <4>1, WalletAssumption
      <4> HIDE DEF v
      <4> QED BY <2>1, <4>1, <4>2, <4>3 DEF Reached
    <3>3. CASE a # Address(env)
      <4>1. vaults'[Address(env)] = vaults[Address(env)]
        BY <1>0, <2>1, <3>1, <3>3 DEF TypeOK
      <4> QED BY <1>2, <2>1, <4>1 DEF Reached
    <3> QED BY <3>2, <3>3
  <2> QED BY <2>2, <2>3, <2>4 DEF Others
<1>3. ASSUME NEW c \in Commands PROVE Answering(c)' /\ Reported(c)' /\ Planned(c)' /\ Buying(c)'
  <2>1. Answering(c) /\ Reported(c) /\ Planned(c) /\ Buying(c)
    BY DEF ReportInv
  <2>2. Answering(c)' /\ Reported(c)'
    BY <1>1, <2>1 DEF Answering, Reported, UsesBridge, IsPlain
  <2>3. seen[c].epoch \in Nat /\ (plan[c] # None => plan[c].epoch \in Nat)
    BY <1>0 DEF TypeOK, Seen, Plan
  <2>4. Planned(c)'
    BY <1>1, <1>2, <2>1, <2>3 DEF Planned, Address
  <2>5. Buying(c)'
    BY <1>1, <2>1 DEF Buying
  <2> QED BY <2>2, <2>4, <2>5
<1> QED BY <1>3
\* The strengthened invariant holds in every reachable state.
LEMMA NextKeepsReportInv == ASSUME ReportInv, [Next]_vars PROVE ReportInv'
<1> USE DEF chain
<1>0. WalletInv /\ TypeOK
  BY DEF ReportInv, WalletInv
<1>1. WalletInv'
  BY <1>0, NextKeepsWalletInv
<1>2. ASSUME NEW c \in Commands, Step(c) \/ \E i \in Intent : Start(c, i),
             NEW d \in Commands \ {c}
      PROVE  Answering(d)' /\ Reported(d)' /\ Planned(d)' /\ Buying(d)'
  <2>1. /\ env' = env /\ vaults' = vaults /\ approved \subseteq approved'
        /\ at'[d] = at[d] /\ intent'[d] = intent[d] /\ seen'[d] = seen[d]
        /\ plan'[d] = plan[d] /\ bridge'[d] = bridge[d] /\ outcome'[d] = outcome[d]
    BY <1>0, <1>2, OthersStay, OthersKeep
  <2>2. Answering(d) /\ Reported(d) /\ Planned(d) /\ Buying(d)
    BY DEF ReportInv
  <2>3. Answering(d)' /\ Reported(d)'
    BY <2>1, <2>2 DEF Answering, Reported, UsesBridge, IsPlain
  <2>4. Planned(d)'
    BY <2>1, <2>2 DEF Planned, Reached, Address
  <2>5. Buying(d)'
    BY <2>1, <2>2 DEF Buying
  <2> QED BY <2>3, <2>4, <2>5
<1>3. ASSUME NEW c \in Commands, Step(c) PROVE ReportInv'
  <2>1. Answering(c)' /\ Reported(c)' /\ Planned(c)' /\ Buying(c)'
    BY <1>3, StepAnswering, StepReported, StepPlanned, StepBuying
  <2> QED BY <1>1, <1>2, <1>3, <2>1 DEF ReportInv
<1>4. ASSUME NEW c \in Commands, NEW i \in Intent, Start(c, i) PROVE ReportInv'
  <2>1. /\ at[c] = "idle" /\ at'[c] = Opening(i.kind) /\ intent'[c] = i
        /\ outcome'[c] \in {"raised", None}
        /\ UNCHANGED <<env, approved, vaults, seen, plan, bridge>>
    BY <1>0, <1>4 DEF Start, Go, TypeOK
  <2>2. Answering(c) /\ Reported(c) /\ Planned(c) /\ Buying(c)
    BY DEF ReportInv
  <2>3. plan[c] = None
    BY <2>1, <2>2 DEF Planned
  <2>4. bridge[c] = None
    BY <2>1, <2>2 DEF Answering
  <2>5. Answering(c)'
    BY <2>1, <2>4 DEF Answering, Opening, UsesBridge, BridgePlaces, PlanPlaces, Branches
  <2>6. Reported(c)'
    <3>1. outcome'[c] # "returned"
      BY <2>1, WalletAssumption DEF Outcomes
    <3> QED BY <2>1, <2>2, <3>1 DEF Reported
  <2>7. Planned(c)'
    BY <2>1, <2>2, <2>3 DEF Planned, Reached, Address
  <2>8. Buying(c)'
    BY <2>1, <2>3, <2>4 DEF Buying, Opening, UsesBridge, BridgePlaces, PlanPlaces
  <2> QED BY <1>1, <1>2, <1>4, <2>5, <2>6, <2>7, <2>8 DEF ReportInv
<1>5. CASE Others
  BY <1>1, <1>5, OthersKeepReports DEF ReportInv
<1>6. CASE UNCHANGED vars
  <2>1. ASSUME NEW c \in Commands PROVE Answering(c)' /\ Reported(c)' /\ Planned(c)' /\ Buying(c)'
    <3>1. Answering(c) /\ Reported(c) /\ Planned(c) /\ Buying(c)
      BY DEF ReportInv
    <3> QED BY <1>6, <3>1 DEF vars, Answering, Reported, Planned, Buying, Reached, Address, UsesBridge, IsPlain
  <2> QED BY <1>1, <2>1 DEF ReportInv
<1> QED BY <1>3, <1>4, <1>5, <1>6 DEF Next
LEMMA AlwaysReportInv == Spec => []ReportInv
<1>1. Init => ReportInv
  <2>1. ASSUME Init, NEW c \in Commands PROVE Answering(c) /\ Reported(c) /\ Planned(c) /\ Buying(c)
    <3>1. /\ at[c] = "idle" /\ bridge[c] = None /\ plan[c] = None /\ seen[c] = NothingSeen
          /\ outcome[c] = None
      BY <2>1 DEF Init
    <3>2. Answering(c)
      BY <3>1 DEF Answering, BridgePlaces, PlanPlaces, Branches
    <3>3. outcome[c] # "returned"
      BY <3>1, WalletAssumption DEF Outcomes
    <3>4. Reported(c)
      BY <3>1, <3>3 DEF Reported, NothingSeen
    <3>5. env \in Environments /\ vaults \in [VaultAddresses -> {0, None}]
      BY <2>1 DEF Init
    <3>6. Address(env) \in VaultAddresses
      BY <3>5, WalletAssumption DEF Address, Environment, VaultAddresses
    <3>7. Reached(0)
      BY <3>5, <3>6 DEF Reached
    <3>8. Buying(c)
      BY <3>1 DEF Buying, BridgePlaces, PlanPlaces
    <3> QED BY <3>1, <3>2, <3>4, <3>7, <3>8 DEF Planned, NothingSeen
  <2>2. Init => WalletInv
    BY InitWalletInv
  <2> QED BY <2>1, <2>2 DEF ReportInv
<1>2. ReportInv /\ [Next]_vars => ReportInv'
  BY NextKeepsReportInv
<1> QED BY <1>1, <1>2, PTL DEF Spec

\* Approvals that are reported were given, a success is one (but for the plain
\* transfer), and a vault is prepared only if the one the command speaks of was
\* not there; it is that one, unless an address and the derivation fields are
\* configured (approve(), withdraw(), resolve_mandated_vault()).
THEOREM ReportsHold == Spec => []ReportsAreTrue
<1>1. ReportInv => ReportsAreTrue
  BY DEF ReportInv, Reported, ReportsAreTrue
<1> QED BY <1>1, AlwaysReportInv, PTL

\* A plan is of the account, vault and balance the command itself reports, tops
\* up to the target, and is for no epoch to come
\* (build_vault_to_predict_account_orchestration).
THEOREM PlansHold == Spec => []PlanIsOfOneReading
<1>1. ReportInv => PlanIsOfOneReading
  BY DEF ReportInv, Planned, Buying, Reached, PlanIsOfOneReading
<1> QED BY <1>1, AlwaysReportInv, PTL
=============================================================================
