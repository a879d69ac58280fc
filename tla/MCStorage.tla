------------------------------ MODULE MCStorage ------------------------------
(* A command with two threads and another command; two commands.            *)
EXTENDS PositionStorage

MCThreeThreads == [t \in {"t1", "t2", "t3"} |-> IF t = "t3" THEN "p2" ELSE "p1"]
MCTwoThreads == [t \in {"t1", "t3"} |-> IF t = "t3" THEN "p2" ELSE "p1"]
MCRequests == {[id |-> "yes", order |-> 1], [id |-> "yes", order |-> 2],
               [id |-> "no", order |-> 3]}
MCFixtures == {[id |-> "yes", order |-> 4]}
=============================================================================
