----------------------------- MODULE JournalRules -----------------------------
(***************************************************************************)
(* The data of the position journal: a position is the id it is stored     *)
(* under and the order that opened it (the other fields of LocalPosition   *)
(* are payload), a journal is the sequence of positions in the file.       *)
(***************************************************************************)
EXTENDS Naturals, Sequences, FiniteSets

CONSTANTS
    PositionIds,  \* "pos-<market>-<outcome>"
    Orders        \* order hashes

LocalPosition == [id: PositionIds, order: Orders]

Journals == Seq(LocalPosition)

Holds(journal, id) == \E i \in DOMAIN journal : journal[i].id = id

\* Where a position with the given id is stored first.
FirstIndex(journal, id) ==
    CHOOSE i \in DOMAIN journal :
        journal[i].id = id /\ \A j \in DOMAIN journal : journal[j].id = id => i <= j

\* Mutant: an existing position is not looked for.
UpsertedAppending(journal, position) == Append(journal, position)

\* upsert(): the position takes the place of the first one with its id.
Upserted(journal, position) ==
    IF Holds(journal, position.id)
    THEN [journal EXCEPT ![FirstIndex(journal, position.id)] = position]
    ELSE Append(journal, position)

\* What is known of a journal that several processes write: the positions
\* handed to it so far, and whether two processes ever wrote at once.
Histories == [handed: SUBSET LocalPosition, overlapped: BOOLEAN]

NothingHanded == [handed |-> {}, overlapped |-> FALSE]

\* A position is handed in, while a writer of another process is at it or not.
Handed(history, position, another) ==
    [handed |-> history.handed \union {position}, overlapped |-> history.overlapped \/ another]

\* What may be left of positions once writes overlapped: any of them, in any
\* order, but no id twice.
Remnants(positions) ==
    {found \in UNION {[1..n -> positions] : n \in 0..Cardinality(positions)} :
        \A i, j \in DOMAIN found : found[i].id = found[j].id => i = j}
=============================================================================
