------------------------------- MODULE MCWallet -------------------------------
(* One environment of every kind the configuration tells apart, accepted or *)
(* not, and two servers: without vault_bootstrap, and with it alone.        *)
EXTENDS Wallet

MCPlain == [mode |-> None, basics |-> TRUE, key |-> FALSE, account |-> FALSE,
            privy |-> FALSE, vault |-> None, derivation |-> {}, rest |-> FALSE]

MCAccount == [MCPlain EXCEPT !.mode = "predict-account", !.account = TRUE, !.privy = TRUE]
MCMandated == [MCPlain EXCEPT !.mode = "mandated-vault"]

MCEnvironments ==
    {MCPlain,
     [MCPlain EXCEPT !.key = TRUE],
     [MCPlain EXCEPT !.mode = "eoa", !.key = TRUE, !.account = TRUE],
     [MCAccount EXCEPT !.derivation = Derivation],
     [MCAccount EXCEPT !.vault = "other"],
     [MCMandated EXCEPT !.vault = "other", !.derivation = Derivation],
     [MCMandated EXCEPT !.derivation = Derivation],
     DocumentedOverlay}

MCToolSets == {Tools \ {"bootstrap"}, Tools \ {"predict", "prepare"}}
=============================================================================
