------------------------------- MODULE Journal -------------------------------
(***************************************************************************)
(* What PositionStorage promises to the commands that share a directory.   *)
(* The writers of a process take turns.  As long as no two processes write *)
(* at the same time, the journal changes by whole upserts of what it holds *)
(* at that moment, and by seeds that replace it with the fixture position. *)
(* From the first time on that they do, a file can be torn and entries can *)
(* be lost or come back: what is found then is made of positions that were *)
(* handed in, no id twice, and that is all that is known of it.            *)
(***************************************************************************)
EXTENDS JournalRules

CONSTANTS
    Writers, Processes,
    Home,      \* the process of each writer
    Fixtures,  \* positions seed() writes; none outside the test fixture
    None

VARIABLES
    journal,   \* what the file holds, empty once that is unknown
    inside,    \* the position each writer is storing, or None
    history

journal_vars == <<journal, inside, history>>

Init ==
    /\ journal = << >>
    /\ inside = [w \in Writers |-> None]
    /\ history = NothingHanded

\* What a reader may find.
Readable == IF history.overlapped THEN Remnants(history.handed) ELSE {journal}

Enter(w, position) ==
    /\ \A v \in Writers : Home[v] = Home[w] => inside[v] = None
    /\ inside' = [inside EXCEPT ![w] = position]
    /\ history' = Handed(history, position, \E v \in Writers : inside[v] # None)
    /\ journal' = IF history'.overlapped THEN << >> ELSE journal

Leaves(w) == inside[w] # None /\ inside' = [inside EXCEPT ![w] = None]

\* What the journal becomes when a position is stored.
Stored(position) ==
    {Upserted(journal, position)} \union (IF position \in Fixtures THEN {<<position>>} ELSE {})

Finish(w) ==
    /\ Leaves(w)
    /\ journal' \in IF history.overlapped THEN {journal} ELSE Stored(inside[w])
    /\ UNCHANGED history

\* Storing fails: only a writer of another process can bring that about.
Fail(w) ==
    /\ history.overlapped
    /\ Leaves(w)
    /\ UNCHANGED <<journal, history>>

\* A process dies, and leaves the journal as it was.
Die(p) ==
    /\ inside' = [w \in Writers |-> IF Home[w] = p THEN None ELSE inside[w]]
    /\ UNCHANGED <<journal, history>>

Next ==
    \/ \E w \in Writers : (\E position \in LocalPosition : Enter(w, position)) \/ Finish(w) \/ Fail(w)
    \/ \E p \in Processes : Die(p)

Spec == Init /\ [][Next]_journal_vars
=============================================================================
