---------------------------- MODULE Configuration ----------------------------
(***************************************************************************)
(* PredictConfig (config.py): which environments are accepted, which wallet*)
(* mode they select and whose keys and accounts the commands then use.  An *)
(* environment is reduced to what is set in it; "basics" stands for the    *)
(* checks that do not depend on the mode (an API key on mainnet, adapters  *)
(* root and numbers that can be parsed, a mode that exists).               *)
(***************************************************************************)
CONSTANT None

Modes == {"read-only", "eoa", "predict-account", "mandated-vault"}

\* The fields from which the address of a vault is derived.
Derivation == {"factory", "asset", "name", "symbol", "authority", "salt"}

\* The vault whose address is given is the one the fields predict, or another.
VaultAddresses == {"predicted", "other"}

Environment ==
    [mode: Modes \union {None}, basics: BOOLEAN,
     key: BOOLEAN, account: BOOLEAN, privy: BOOLEAN,
     vault: VaultAddresses \union {None}, derivation: SUBSET Derivation, rest: BOOLEAN]

\* has_mandated_config_input: any of the ERC_MANDATED_* inputs, "rest" being
\* the keys, the chain and the limits.
HasMandatedInput(e) == e.vault # None \/ e.derivation # {} \/ e.rest

HasDerivation(e) == e.derivation = Derivation

HasPredictAccountCredentials(e) == e.account \/ e.privy

\* validate_mandated_overlay_inputs
OverlayComplete(e) ==
    HasMandatedInput(e) =>
        /\ e.derivation = {} \/ HasDerivation(e)
        /\ e.vault # None \/ HasDerivation(e)

\* Without PREDICT_WALLET_MODE: one kind of credentials, or none.
InferredAccepted(e) ==
    /\ ~HasMandatedInput(e)
    /\ e.account = e.privy
    /\ ~(e.key /\ HasPredictAccountCredentials(e))

ReadOnlyAccepted(e) == ~e.key /\ ~HasPredictAccountCredentials(e) /\ ~HasMandatedInput(e)

\* Mutant: EOA mode does not look for the credentials of the other modes.
EoaAcceptedWithAccount(e) == e.key /\ ~HasMandatedInput(e)

EoaAccepted(e) == e.key /\ ~HasPredictAccountCredentials(e) /\ ~HasMandatedInput(e)

PredictAccountAccepted(e) == e.account /\ e.privy /\ ~e.key /\ OverlayComplete(e)

MandatedAccepted(e) == ~e.key /\ ~HasPredictAccountCredentials(e) /\ OverlayComplete(e)

\* validate_runtime_contract
Accepted(e) ==
    /\ e.basics
    /\ e.mode = None => InferredAccepted(e)
    /\ e.mode = "read-only" => ReadOnlyAccepted(e)
    /\ e.mode = "eoa" => EoaAccepted(e)
    /\ e.mode = "predict-account" => PredictAccountAccepted(e)
    /\ e.mode = "mandated-vault" => MandatedAccepted(e)

WalletMode(e) ==
    IF e.mode # None THEN e.mode
    ELSE IF e.account /\ e.privy THEN "predict-account"
    ELSE IF e.key THEN "eoa"
    ELSE "read-only"

\* _has_predict_account_overlay
HasOverlay(e) == WalletMode(e) = "predict-account" /\ HasMandatedInput(e)
-----------------------------------------------------------------------------
(* Accounts: the address of PREDICT_PRIVATE_KEY, that of the Privy key and   *)
(* the Predict Account.                                                      *)

Accounts == {"eoa", "owner", "account"}

\* auth_signer_address: whose signature the exchange accepts, if anybody's.
AuthSigner(e) ==
    IF WalletMode(e) = "predict-account" /\ e.account THEN "account"
    ELSE IF WalletMode(e) = "eoa" /\ e.key THEN "eoa"
    ELSE None

SignerAddress(e) == IF WalletMode(e) = "predict-account" THEN "owner" ELSE "eoa"

FundingAddress(e) == IF e.account THEN "account" ELSE SignerAddress(e)
=============================================================================
