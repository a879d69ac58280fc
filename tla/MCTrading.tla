------------------------------ MODULE MCTrading ------------------------------
(* Two buys of the same position.                                           *)
EXTENDS Trading

MCId == [b \in Buyers |-> "yes"]
=============================================================================
