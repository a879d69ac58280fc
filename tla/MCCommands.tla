----------------------------- MODULE MCCommands -----------------------------
(* Commands for TLC: four ranked markets, of which a query finds three; two *)
(* buys of one outcome of the first; the inputs of the probes at their best *)
(* and with one thing wrong.                                                *)
EXTENDS Commands

Prices(a, b, l) == [ask |-> a, bid |-> b, last |-> l]

\* The prices are the middle of a spread, the last sale, a bid, and the rounded
\* middle of a narrow spread.
MCQuotes ==
    [m \in Markets |-> CASE m = "m1" -> {Prices(3, 1, None)}
                         [] m = "m2" -> {Prices(3, None, 2)}
                         [] m = "m3" -> {Prices(None, 3, None)}
                         [] OTHER    -> {Prices(2, 1, None)}]

MCRankings == {<<"m1", "m2", "m3", "m4">>}

MCTokens == {<<"m1", "YES">>, <<"m1", "NO">>}

MCToken == [b \in Buys |-> <<"m1", "YES">>]

MCElsewhere == {None, [quantity |-> 1, status |-> "CLOSED"]}

\* Everything a probe needs, in a mode, with the Predict Account or without.
Complete(mode, account) ==
    [env |-> [mode |-> mode, basics |-> TRUE, key |-> FALSE, account |-> account,
              privy |-> account, vault |-> "predicted", derivation |-> Derivation, rest |-> TRUE],
     given |-> "all", wellFormed |-> TRUE, executor |-> "same"]

MCInputs ==
    LET vault == Complete("mandated-vault", FALSE)
        account == Complete("predict-account", TRUE) IN
    {vault, account,
     [vault EXCEPT !.given = "missing"], [account EXCEPT !.env.vault = None],
     [Complete("mandated-vault", TRUE) EXCEPT !.given = "invalid"],
     [vault EXCEPT !.wellFormed = FALSE], [vault EXCEPT !.executor = "another"]}

\* Evidence that lacks one thing, or for crediting none, with any amounts.
MCRecorded ==
    [p \in Probes |->
        LET lacking == {{}} \union {{d} : d \in Demands(p)} IN
        CASE p = "crediting" ->
                {[lacks |-> l, before |-> 0, after |-> 1, expected |-> 1, delay |-> 1] : l \in lacking}
                \union [lacks: {{}}, before: 0..2, after: 0..2, expected: 0..2, delay: -1..2]
          [] p = "follow-up" -> [lacks: lacking]
          [] OTHER -> {}]
=============================================================================
