------------------------ MODULE PositionStorageProofs ------------------------
(***************************************************************************)
(* PositionStorage, for any number of commands on one directory.  Whatever *)
(* they do and whenever they die, no lock outlives its section and nothing *)
(* is read or written but positions that were handed in, no id twice.  And *)
(* as long as writes of two processes do not overlap, the file is whole,   *)
(* its readers see what was put there and it changes by whole upserts: one *)
(* thread is inside at a time (_storage_lock within a process, the premise *)
(* between them), and no reader has the temporary file open.               *)
(***************************************************************************)
EXTENDS PositionStorage, SequenceTheorems, FiniteSetTheorems, TLAPS

\* The part of StorageInv that holds of any number of processes.
Shared ==
    TypeOK /\ TasksAreConsistent /\ LockIsHeld /\ LocksAreInUse /\ OnlyRemnants

\* The part that overlapping writes of two processes end.
Exclusive ==
    OneInside /\ FilesAreApart /\ FileIsWhole /\ WritesAreCurrent /\ PublishesOwnJournal

\* Only thread t is changed, to w.
Only(t, w) == task' = [task EXCEPT ![t] = w]

\* InSection, of what a thread is doing.
Inside(w) ==
    \/ w.at \in {"create", "fill", "replace"}
    \/ w.op = "upsert" /\ w.at \in {"open", "load"}

\* TasksAreConsistent, of what a thread is doing.
Consistent(w) ==
    /\ w.at # "idle" => w.op # "none"
    /\ w.op = "list" => w.at \in {"open", "load", "done"}
    /\ w.op = "upsert" => w.position \in Requests
    /\ w.op = "sync" => w.position \in Fixtures
    /\ w.at \in {"load", "fill"} => w.fd # None

Distinct(journal) == \A i, j \in DOMAIN journal : journal[i].id = journal[j].id => i = j
-----------------------------------------------------------------------------
(* Journals *)

(* upsert() makes a journal of a journal and a position (upsert).           *)
LEMMA UpsertedIsJournal ==
    ASSUME NEW P, NEW journal \in Seq(P), NEW position \in P
    PROVE  Upserted(journal, position) \in Seq(P)
<1> DEFINE first == FirstIndex(journal, position.id)
<1> HIDE DEF first
<1>1. [journal EXCEPT ![first] = position] \in Seq(P)
  <2>1. CASE first \in 1..Len(journal)
    BY <2>1, ExceptSeq
  <2>2. CASE first \notin 1..Len(journal)
    <3>1. DOMAIN journal = 1..Len(journal)
      OBVIOUS
    <3>2. journal = [i \in DOMAIN journal |-> journal[i]]
      BY <3>1
    <3>3. [journal EXCEPT ![first] = position]
            = [i \in DOMAIN journal |-> IF i = first THEN position ELSE journal[i]]
      OBVIOUS
    <3>4. [i \in DOMAIN journal |-> IF i = first THEN position ELSE journal[i]]
            = [i \in DOMAIN journal |-> journal[i]]
      BY <2>2, <3>1
    <3> QED
      BY <3>2, <3>3, <3>4
  <2> QED
    BY <2>1, <2>2
<1>2. Append(journal, position) \in Seq(P)
  OBVIOUS
<1> QED
  BY <1>1, <1>2 DEF Upserted, first

(* upsert() looks for the id before it appends (upsert).                    *)
LEMMA UpsertedIsDistinct ==
    ASSUME NEW P, NEW journal \in Seq(P), Distinct(journal), NEW position \in P
    PROVE  Distinct(Upserted(journal, position))
<1>1. DOMAIN journal = 1..Len(journal) /\ Len(journal) \in Nat
  OBVIOUS
<1>2. CASE Holds(journal, position.id)
  <2> DEFINE first == FirstIndex(journal, position.id)
  <2>1. PICK k \in DOMAIN journal : journal[k].id = position.id
    BY <1>2 DEF Holds
  <2>2. \A j \in DOMAIN journal : journal[j].id = position.id => k <= j
    BY <1>1, <2>1 DEF Distinct
  <2>3. first \in DOMAIN journal /\ journal[first].id = position.id
    BY <2>1, <2>2 DEF FirstIndex
  <2>4. Upserted(journal, position) = [journal EXCEPT ![first] = position]
    BY <1>2 DEF Upserted
  <2> HIDE DEF first
  <2>5. \A i \in DOMAIN journal : Upserted(journal, position)[i].id = journal[i].id
    BY <2>3, <2>4
  <2>6. DOMAIN Upserted(journal, position) = DOMAIN journal
    BY <2>4
  <2> QED
    BY <2>5, <2>6 DEF Distinct
<1>3. CASE ~Holds(journal, position.id)
  <2>1. Upserted(journal, position) = Append(journal, position)
    BY <1>3 DEF Upserted
  <2>2. \A i \in 1..Len(journal) : journal[i].id # position.id
    BY <1>1, <1>3 DEF Holds
  <2>3. /\ DOMAIN Append(journal, position) = 1..(Len(journal) + 1)
        /\ Append(journal, position)[Len(journal) + 1] = position
        /\ \A i \in 1..Len(journal) : Append(journal, position)[i] = journal[i]
    OBVIOUS
  <2>4. ASSUME NEW i \in 1..(Len(journal) + 1), NEW j \in 1..(Len(journal) + 1),
               Append(journal, position)[i].id = Append(journal, position)[j].id
        PROVE  i = j
    <3>1. CASE i \in 1..Len(journal) /\ j \in 1..Len(journal)
      BY <1>1, <2>3, <2>4, <3>1 DEF Distinct
    <3>2. CASE i = Len(journal) + 1 /\ j \in 1..Len(journal)
      BY <2>2, <2>3, <2>4, <3>2
    <3>3. CASE i \in 1..Len(journal) /\ j = Len(journal) + 1
      BY <2>2, <2>3, <2>4, <3>3
    <3>4. CASE i = Len(journal) + 1 /\ j = Len(journal) + 1
      BY <3>4
    <3> QED
      BY <1>1, <3>1, <3>2, <3>3, <3>4
  <2> QED
    BY <2>1, <2>3, <2>4 DEF Distinct
<1> QED
  BY <1>2, <1>3


(* What is handed in stays handed in, and an upsert adds nothing else       *)
(* (upsert).                                                                *)
LEMMA RemainsGrow ==
    ASSUME NEW journal, Remains(journal), history.handed \subseteq history'.handed
    PROVE  journal \in Seq(history'.handed) /\ Distinct(journal)
<1>1. journal \in Seq(history.handed)
  BY DEF Remains
<1>2. /\ DOMAIN journal = 1..Len(journal) /\ Len(journal) \in Nat
      /\ journal = [i \in DOMAIN journal |-> journal[i]]
      /\ \A i \in 1..Len(journal) : journal[i] \in history.handed
  BY <1>1
<1>3. journal \in [1..Len(journal) -> history'.handed]
  BY <1>2
<1>4. journal \in Seq(history'.handed)
  BY <1>2, <1>3
<1> QED
  BY <1>4 DEF Remains, Distinct

LEMMA UpsertedRemains ==
    ASSUME NEW journal, Remains(journal), NEW position \in history.handed
    PROVE  Remains(Upserted(journal, position))
BY UpsertedIsJournal, UpsertedIsDistinct DEF Remains, Distinct

LEMMA SingleIsJournal ==
    ASSUME NEW P, NEW position \in P
    PROVE  <<position>> \in Seq(P) /\ Distinct(<<position>>)
<1>1. <<position>> \in Seq(P)
  OBVIOUS
<1>2. \A i, j \in DOMAIN <<position>> : i = j
  OBVIOUS
<1> QED
  BY <1>1, <1>2 DEF Distinct

LEMMA SingleRemains ==
    ASSUME NEW position \in history.handed
    PROVE  Remains(<<position>>)
BY SingleIsJournal DEF Remains, Distinct

LEMMA EmptyRemains == Remains(<< >>)
BY DEF Remains

(* What is read and what is written is made of what was handed in           *)
(* (_read_payload, upsert, seed).                                           *)
LEMMA ReadsAreRemnants ==
    ASSUME Shared
    PROVE  /\ \A i \in Inodes : Parsed(content[i]) \in Journals /\ Remains(Parsed(content[i]))
           /\ Visible \in Journals /\ Remains(Visible)
           /\ \A t \in Threads : task[t].at \in {"create", "fill", "replace"} =>
                 /\ InSection(t) /\ task[t].op \in {"upsert", "sync"}
                 /\ task[t].position \in LocalPosition
                 /\ Payload(t) \in Journals /\ Remains(Payload(t))
<1>1. /\ TypeOK /\ TasksAreConsistent /\ OnlyRemnants
      /\ << >> \in Journals /\ Remains(<< >>)
  BY EmptyRemains DEF Shared, Journals
<1>2. \A i \in Inodes : Parsed(content[i]) \in Journals /\ Remains(Parsed(content[i]))
  BY <1>1 DEF TypeOK, Parsed, OnlyRemnants
<1>3. Visible \in Journals /\ Remains(Visible)
  BY <1>1, <1>2 DEF TypeOK, Visible
<1>4. ASSUME NEW t \in Threads, task[t].at \in {"create", "fill", "replace"}
      PROVE  /\ InSection(t) /\ task[t].op \in {"upsert", "sync"}
             /\ task[t].position \in LocalPosition
             /\ Payload(t) \in Journals /\ Remains(Payload(t))
  <2>1. /\ task[t] \in Task /\ task[t].seen \in Journals
        /\ Remains(task[t].seen) /\ InSection(t)
    BY <1>1, <1>4 DEF TypeOK, Task, OnlyRemnants, InSection
  <2>2. task[t].op \in {"upsert", "sync"}
    BY <1>1, <1>4, <2>1 DEF Task, TasksAreConsistent
  <2>3. task[t].position \in LocalPosition /\ task[t].position \in history.handed
    BY <1>1, <2>1, <2>2, StorageAssumption DEF TasksAreConsistent, OnlyRemnants
  <2>4. Payload(t) \in Journals /\ Remains(Payload(t))
    <3>1. CASE task[t].op = "upsert"
      BY <2>1, <2>3, <3>1, UpsertedIsJournal, UpsertedRemains DEF Payload, Journals
    <3>2. CASE task[t].op = "sync"
      <4>1. Payload(t) = <<task[t].position>>
        BY <3>2 DEF Payload
      <4>2. <<task[t].position>> \in Journals
        BY <2>3 DEF Journals
      <4> QED
        BY <2>3, <4>1, <4>2, SingleRemains
    <3> QED
      BY <2>2, <3>1, <3>2
  <2> QED
    BY <2>1, <2>2, <2>3, <2>4
<1> QED
  BY <1>2, <1>3, <1>4
-----------------------------------------------------------------------------
(* Any number of processes *)

(* A step of one thread, with what it does to its lock.                     *)
LEMMA ThreadKeepsShared ==
    ASSUME Shared, NEW t \in Threads, NEW w \in Task, Only(t, w),
           Consistent(w), Remains(w.seen),
           path' \in Inodes \union {None}, tmp' \in Inodes \union {None},
           content' \in [Inodes -> Journals \union {Torn}],
           \A i \in Inodes : content'[i] # Torn => Remains(content'[i]),
           started' \in Nat, crashes' \in Nat,
           history' \in Histories, IsFiniteSet(history'.handed),
           history.handed \subseteq history'.handed,
           Inside(w) => w.position \in history'.handed,
           \/ lock' = lock /\ (Inside(w) <=> InSection(t))
           \/ lock[Home[t]] = None /\ lock' = [lock EXCEPT ![Home[t]] = t] /\ Inside(w)
           \/ InSection(t) /\ lock' = [lock EXCEPT ![Home[t]] = None] /\ ~Inside(w)
    PROVE  Shared'
<1>1. /\ TypeOK /\ TasksAreConsistent /\ LockIsHeld /\ LocksAreInUse /\ OnlyRemnants
      /\ Home \in [Threads -> Processes] /\ None \notin Threads
  BY StorageAssumption DEF Shared
<1>2. /\ task' \in [Threads -> Task] /\ task'[t] = w
      /\ \A u \in Threads \ {t} : task'[u] = task[u]
  BY <1>1 DEF Only, TypeOK
<1>3. /\ InSection(t)' <=> Inside(w)
      /\ \A u \in Threads \ {t} : InSection(u)' <=> InSection(u)
  BY <1>2 DEF InSection, Inside
<1>4. Home[t] \in Processes /\ lock \in [Processes -> Threads \union {None}]
  BY <1>1 DEF TypeOK
<1>5. lock' \in [Processes -> Threads \union {None}]
  BY <1>4
<1>6. TypeOK'
  BY <1>2, <1>5 DEF TypeOK
<1>7. LockIsHeld' /\ LocksAreInUse'
  <2>1. CASE lock' = lock /\ (Inside(w) <=> InSection(t))
    <3>1. \A u \in Threads : InSection(u)' <=> InSection(u)
      BY <1>3, <2>1
    <3>2. LockIsHeld'
      BY <1>1, <2>1, <3>1 DEF LockIsHeld
    <3>3. ASSUME NEW p \in Processes, lock'[p] # None
          PROVE  Home[lock'[p]] = p /\ InSection(lock[p])' /\ lock[p] = lock'[p]
      BY <1>1, <1>4, <2>1, <3>1, <3>3 DEF LocksAreInUse
    <3> QED
      BY <2>1, <3>2, <3>3 DEF LocksAreInUse, InSection
  <2>2. CASE lock[Home[t]] = None /\ lock' = [lock EXCEPT ![Home[t]] = t] /\ Inside(w)
    <3>1. ASSUME NEW u \in Threads, InSection(u)' PROVE lock'[Home[u]] = u
      <4>1. CASE u = t
        BY <1>4, <2>2, <4>1
      <4>2. CASE u # t
        <5>1. lock[Home[u]] = u
          BY <1>1, <1>3, <3>1, <4>2 DEF LockIsHeld
        <5> QED
          BY <1>1, <1>4, <2>2, <5>1
      <4> QED
        BY <4>1, <4>2
    <3>2. LockIsHeld'
      BY <3>1 DEF LockIsHeld
    <3>3. ASSUME NEW p \in Processes, lock'[p] # None
          PROVE  Home[lock'[p]] = p /\ (InSection(lock[p]))'
      <4>1. CASE p = Home[t]
        <5>1. lock'[p] = t
          BY <1>4, <2>2, <4>1
        <5>2. InSection(t)'
          BY <1>3, <2>2
        <5> QED
          BY <4>1, <5>1, <5>2 DEF InSection
      <4>2. CASE p # Home[t]
        <5>1. lock'[p] = lock[p] /\ lock[p] \in Threads /\ Home[lock[p]] = p
              /\ InSection(lock[p])
          BY <1>1, <1>4, <2>2, <3>3, <4>2 DEF LocksAreInUse
        <5>2. lock[p] # t
          BY <4>2, <5>1
        <5>3. task'[lock[p]] = task[lock[p]]
          BY <1>2, <5>1, <5>2
        <5> QED
          BY <5>1, <5>3 DEF InSection
      <4> QED
        BY <4>1, <4>2
    <3> QED
      BY <3>2, <3>3 DEF LocksAreInUse
  <2>3. CASE InSection(t) /\ lock' = [lock EXCEPT ![Home[t]] = None] /\ ~Inside(w)
    <3>1. lock[Home[t]] = t
      BY <1>1, <2>3 DEF LockIsHeld
    <3>2. ASSUME NEW u \in Threads, InSection(u)' PROVE lock'[Home[u]] = u
      <4>1. u # t /\ lock[Home[u]] = u
        BY <1>1, <1>3, <2>3, <3>2 DEF LockIsHeld
      <4>2. Home[u] # Home[t]
        BY <3>1, <4>1
      <4> QED
        BY <1>1, <1>4, <2>3, <4>1, <4>2
    <3>3. LockIsHeld'
      BY <3>2 DEF LockIsHeld
    <3>4. ASSUME NEW p \in Processes, lock'[p] # None
          PROVE  Home[lock'[p]] = p /\ (InSection(lock[p]))'
      <4>1. p # Home[t] /\ lock'[p] = lock[p]
        BY <1>4, <2>3, <3>4
      <4>2. lock[p] \in Threads /\ Home[lock[p]] = p /\ InSection(lock[p])
        BY <1>1, <1>4, <3>4, <4>1 DEF LocksAreInUse
      <4>3. task'[lock[p]] = task[lock[p]]
        BY <1>2, <4>1, <4>2
      <4> QED
        BY <4>1, <4>2, <4>3 DEF InSection
    <3> QED
      BY <3>3, <3>4 DEF LocksAreInUse
  <2> QED
    BY <2>1, <2>2, <2>3
<1>8. TasksAreConsistent'
  <2>1. \A u \in Threads : Consistent(task'[u])
    BY <1>1, <1>2 DEF TasksAreConsistent, Consistent
  <2> QED
    BY <2>1 DEF TasksAreConsistent, Consistent
<1>9. OnlyRemnants'
  <2>1. ASSUME NEW i \in Inodes, content'[i] # Torn PROVE Remains(content[i])'
    BY <2>1, RemainsGrow DEF Remains, Distinct
  <2>2. ASSUME NEW u \in Threads PROVE Remains(task[u].seen)'
    <3>1. Remains(task'[u].seen)
      BY <1>1, <1>2 DEF OnlyRemnants
    <3> QED
      BY <3>1, RemainsGrow DEF Remains, Distinct
  <2>3. ASSUME NEW u \in Threads, InSection(u)' PROVE (task[u].position \in history.handed)'
    BY <1>1, <1>2, <1>3, <2>3 DEF OnlyRemnants
  <2> QED
    BY <2>1, <2>2, <2>3 DEF OnlyRemnants
<1> QED
  BY <1>6, <1>7, <1>8, <1>9 DEF Shared

(* No file, no lock, no operation.                                          *)
LEMMA InitKeepsShared == Init => Shared
<1> SUFFICES ASSUME Init PROVE Shared
  OBVIOUS
<1>1. /\ path = None /\ tmp = None /\ history = NothingHanded
      /\ content = [i \in Inodes |-> Torn]
      /\ lock = [p \in Processes |-> None]
      /\ task = [t \in Threads |-> Idle]
      /\ started = 0 /\ crashes = 0
  BY DEF Init
<1>2. Idle \in Task /\ Consistent(Idle) /\ ~Inside(Idle) /\ Idle.seen = << >>
  BY StorageAssumption DEF Idle, Task, Steps, Journals, Consistent, Inside
<1>3. history \in Histories /\ IsFiniteSet(history.handed)
  BY <1>1, FS_EmptySet DEF NothingHanded, Histories
<1>4. TypeOK
  BY <1>1, <1>2, <1>3 DEF TypeOK
<1>5. \A t \in Threads : ~InSection(t)
  BY <1>1, <1>2 DEF InSection, Inside
<1>6. TasksAreConsistent /\ LockIsHeld /\ LocksAreInUse
  BY <1>1, <1>2, <1>5 DEF TasksAreConsistent, Consistent, LockIsHeld, LocksAreInUse
<1>7. OnlyRemnants
  BY <1>1, <1>2, <1>3, <1>5, EmptyRemains DEF OnlyRemnants
<1> QED
  BY <1>4, <1>6, <1>7 DEF Shared

(* The steps of a thread (sync_fixture_positions, upsert, list_positions,   *)
(* _read_payload, _write_payload).                                          *)
LEMMA StepKeepsShared ==
    ASSUME Shared, NEW t \in Threads, Start(t) \/ Step(t)
    PROVE  Shared'
<1>1. /\ TypeOK /\ LockIsHeld /\ Consistent(task[t]) /\ Remains(task[t].seen)
      /\ \A i \in Inodes : content[i] # Torn => Remains(content[i])
      /\ InSection(t) => task[t].position \in history.handed
      /\ << >> \in Journals /\ Remains(<< >>)
  BY EmptyRemains DEF Shared, TasksAreConsistent, OnlyRemnants, Consistent, Journals
<1>2. /\ task \in [Threads -> Task] /\ task[t] \in Task
      /\ content \in [Inodes -> Journals \union {Torn}] /\ Torn \notin Journals
      /\ path \in Inodes \union {None} /\ tmp \in Inodes \union {None}
      /\ started \in Nat /\ crashes \in Nat /\ None \notin Inodes
      /\ Requests \subseteq LocalPosition /\ Fixtures \subseteq LocalPosition
      /\ history \in Histories /\ IsFiniteSet(history.handed)
  BY <1>1, StorageAssumption DEF TypeOK, Shared, OnlyRemnants
<1>3. CASE Start(t)
  <2> DEFINE New(op, at, position) ==
                 [Idle EXCEPT !.op = op, !.at = at, !.position = position]
  <2>1. task[t].at \in {"idle", "done", "failed"} /\ started' = started + 1
        /\ UNCHANGED <<path, tmp, content, lock, crashes, history>>
    BY <1>3 DEF Start
  <2>2. ~InSection(t)
    BY <2>1 DEF InSection
  <2>3. ASSUME NEW w \in Task, Only(t, w), Consistent(w), w.seen = << >>, ~Inside(w)
        PROVE  Shared'
    BY <1>1, <1>2, <2>1, <2>2, <2>3, ThreadKeepsShared
  <2>4. ASSUME NEW position \in Requests, Only(t, New("upsert", "acquire", position))
        PROVE  Shared'
    <3>1. /\ New("upsert", "acquire", position) \in Task
          /\ Consistent(New("upsert", "acquire", position))
          /\ New("upsert", "acquire", position).seen = << >>
          /\ ~Inside(New("upsert", "acquire", position))
      BY <1>1, <1>2 DEF Idle, Task, Steps, Consistent, Inside
    <3> QED
      BY <2>3, <2>4, <3>1
  <2>5. ASSUME NEW position \in Fixtures, Only(t, New("sync", "open", position))
        PROVE  Shared'
    <3>1. /\ New("sync", "open", position) \in Task
          /\ Consistent(New("sync", "open", position))
          /\ New("sync", "open", position).seen = << >>
          /\ ~Inside(New("sync", "open", position))
      BY <1>1, <1>2 DEF Idle, Task, Steps, Consistent, Inside
    <3> QED
      BY <2>3, <2>5, <3>1
  <2>6. ASSUME Only(t, [Idle EXCEPT !.op = "list", !.at = "open"])
        PROVE  Shared'
    <3>1. /\ [Idle EXCEPT !.op = "list", !.at = "open"] \in Task
          /\ Consistent([Idle EXCEPT !.op = "list", !.at = "open"])
          /\ [Idle EXCEPT !.op = "list", !.at = "open"].seen = << >>
          /\ ~Inside([Idle EXCEPT !.op = "list", !.at = "open"])
      BY <1>1, <1>2 DEF Idle, Task, Steps, Consistent, Inside
    <3> QED
      BY <2>3, <2>6, <3>1
  <2> QED
    BY <1>3, <2>4, <2>5, <2>6, Zenon DEF Start, Only
<1>4. CASE Acquire(t)
  <2> DEFINE w == [task[t] EXCEPT !.at = IF task[t].op = "upsert" THEN "open" ELSE "create"]
  <2>1. Only(t, w) /\ w.seen = task[t].seen /\ w.position = task[t].position
    BY <1>2, <1>4 DEF Acquire, Goto, Only, Task
  <2>2. w \in Task /\ Consistent(w) /\ Inside(w)
    BY <1>1, <1>2, <1>4 DEF Acquire, Task, Steps, Consistent, Inside
  <2>3. /\ lock[Home[t]] = None /\ lock' = [lock EXCEPT ![Home[t]] = t]
        /\ HandsIn(t) /\ UNCHANGED <<path, tmp, content, started, crashes>>
    BY <1>4 DEF Acquire
  <2>4. task[t].position \in LocalPosition
    BY <1>1, <1>2, <1>4 DEF Acquire, Consistent, Task
  <2>5. /\ history' \in Histories
        /\ history'.handed = history.handed \union {task[t].position}
    BY <1>2, <2>3, <2>4 DEF HandsIn, Handed, Histories
  <2>6. IsFiniteSet(history'.handed)
    BY <1>2, <2>5, FS_AddElement
  <2> HIDE DEF w
  <2> QED
    BY <1>1, <1>2, <2>1, <2>2, <2>3, <2>5, <2>6, ThreadKeepsShared
<1>5. CASE Open(t)
  <2> DEFINE w == IF path = None
                  THEN [task[t] EXCEPT !.seen = << >>, !.at = AfterRead(task[t].op, << >>)]
                  ELSE [task[t] EXCEPT !.fd = path, !.at = "load"]
  <2>1. Only(t, w) /\ UNCHANGED <<path, tmp, content, lock, started, crashes, history>>
    BY <1>5 DEF Open, Only
  <2>2. w \in Task /\ Consistent(w) /\ Remains(w.seen) /\ w.position = task[t].position
    BY <1>1, <1>2, <1>5 DEF Open, AfterRead, Task, Steps, Consistent
  <2>3. Inside(w) <=> InSection(t)
    BY <1>1, <1>2, <1>5 DEF Open, AfterRead, Task, Consistent, Inside, InSection
  <2> HIDE DEF w
  <2> QED
    BY <1>1, <1>2, <2>1, <2>2, <2>3, ThreadKeepsShared
<1>6. CASE Load(t)
  <2> DEFINE positions == Parsed(content[task[t].fd])
             w == [task[t] EXCEPT !.seen = positions, !.fd = None,
                                  !.at = AfterRead(task[t].op, positions)]
  <2>1. Only(t, w) /\ UNCHANGED <<path, tmp, content, lock, started, crashes, history>>
    BY <1>6 DEF Load, Only
  <2>2. task[t].at = "load" /\ task[t].fd \in Inodes
    BY <1>1, <1>2, <1>6 DEF Load, Consistent, Task
  <2>3. positions \in Journals /\ Remains(positions)
    BY <1>1, <1>2, <2>2 DEF Parsed
  <2> HIDE DEF positions
  <2>4. w \in Task /\ Consistent(w) /\ Remains(w.seen) /\ w.position = task[t].position
    BY <1>1, <1>2, <2>2, <2>3 DEF AfterRead, Task, Steps, Consistent
  <2>5. Inside(w) <=> InSection(t)
    BY <1>1, <1>2, <2>2 DEF AfterRead, Task, Consistent, Inside, InSection
  <2> HIDE DEF w
  <2> QED
    BY <1>1, <1>2, <2>1, <2>4, <2>5, ThreadKeepsShared
<1>7. CASE Create(t)
  <2>1. PICK i \in IF tmp = None THEN Fresh ELSE {tmp} :
            /\ content' = [content EXCEPT ![i] = Torn]
            /\ tmp' = i
            /\ task' = [task EXCEPT ![t].fd = i, ![t].at = "fill"]
    BY <1>7, Zenon DEF Create
  <2>2. i \in Inodes
    BY <1>2, <2>1 DEF Fresh, Unused
  <2> DEFINE w == [task[t] EXCEPT !.fd = i, !.at = "fill"]
  <2>3. Only(t, w)
    BY <1>2, <2>1 DEF Only
  <2>4. w \in Task /\ Consistent(w) /\ w.seen = task[t].seen /\ w.position = task[t].position
    BY <1>1, <1>2, <1>7, <2>2 DEF Create, Task, Steps, Consistent
  <2>5. Inside(w) /\ InSection(t) /\ UNCHANGED <<path, lock, started, crashes, history>>
    BY <1>7, <1>2 DEF Create, Inside, InSection, Task
  <2> HIDE DEF w
  <2> QED
    BY <1>1, <1>2, <2>1, <2>2, <2>3, <2>4, <2>5, ThreadKeepsShared
<1>8. CASE Fill(t)
  <2>1. PICK text \in {Payload(t)} \union (IF FillsAlone(t) THEN {} ELSE {Torn}) :
            content' = [content EXCEPT ![task[t].fd] = text]
    BY <1>8, Zenon DEF Fill
  <2>2. task[t].at = "fill" /\ task[t].op \in {"upsert", "sync"} /\ task[t].fd \in Inodes
    BY <1>1, <1>2, <1>8 DEF Fill, Consistent, Task
  <2>4. Payload(t) \in Journals /\ Remains(Payload(t))
    BY <2>2, ReadsAreRemnants
  <2>5. text \in Journals \union {Torn} /\ (text # Torn => Remains(text))
    BY <2>1, <2>4
  <2> DEFINE w == [task[t] EXCEPT !.fd = None, !.at = "replace"]
  <2>6. Only(t, w)
    BY <1>2, <1>8, Zenon DEF Fill, Only
  <2>7. w \in Task /\ Consistent(w) /\ w.seen = task[t].seen /\ w.position = task[t].position
    BY <1>1, <1>2, <2>2 DEF Task, Steps, Consistent
  <2>8. Inside(w) /\ InSection(t)
    BY <1>2, <2>2 DEF Inside, InSection, Task
  <2>9. UNCHANGED <<path, tmp, lock, started, crashes, history>>
    BY <1>8, Zenon DEF Fill
  <2> HIDE DEF w
  <2> QED
    BY <1>1, <1>2, <2>1, <2>2, <2>5, <2>6, <2>7, <2>8, <2>9, ThreadKeepsShared
<1>9. CASE Replace(t)
  <2>1. PICK step \in {"done", "failed"} :
            Only(t, [task[t] EXCEPT !.at = step]) /\ path' \in {path, tmp} /\ tmp' \in {tmp, None}
    BY <1>2, <1>9 DEF Replace, Goto, Only
  <2> DEFINE w == [task[t] EXCEPT !.at = step]
  <2>2. task[t].op \in {"upsert", "sync"}
    BY <1>1, <1>2, <1>9 DEF Replace, Consistent, Task
  <2>3. w \in Task /\ Consistent(w) /\ w.seen = task[t].seen /\ ~Inside(w)
    BY <1>1, <1>2, <1>9, <2>1, <2>2 DEF Replace, Task, Steps, Consistent, Inside
  <2>4. /\ InSection(t) /\ lock' = [lock EXCEPT ![Home[t]] = None]
        /\ UNCHANGED <<content, started, crashes, history>>
    BY <1>9 DEF Replace, InSection
  <2>5. Only(t, w)
    BY <2>1
  <2> HIDE DEF w
  <2> QED
    BY <1>1, <1>2, <2>1, <2>3, <2>4, <2>5, ThreadKeepsShared
<1> QED
  BY <1>3, <1>4, <1>5, <1>6, <1>7, <1>8, <1>9 DEF Step

(* A process dies with its threads and its lock; the files stay.            *)
LEMMA CrashKeepsShared ==
    ASSUME Shared, NEW p \in Processes, Crash(p)
    PROVE  Shared'
<1>1. /\ TypeOK /\ TasksAreConsistent /\ LockIsHeld /\ LocksAreInUse /\ OnlyRemnants
      /\ Home \in [Threads -> Processes] /\ None \notin Threads
  BY StorageAssumption DEF Shared
<1>2. Idle \in Task /\ Consistent(Idle) /\ Remains(Idle.seen) /\ ~Inside(Idle)
  BY StorageAssumption, EmptyRemains DEF Idle, Task, Steps, Journals, Consistent, Inside
<1>3. /\ task' = [t \in Threads |-> IF Home[t] = p THEN Idle ELSE task[t]]
      /\ lock' = [lock EXCEPT ![p] = None] /\ crashes' = crashes + 1
      /\ UNCHANGED <<path, tmp, content, started, history>>
  BY DEF Crash
<1>4. TypeOK'
  BY <1>1, <1>2, <1>3 DEF TypeOK
<1>5. \A t \in Threads : /\ InSection(t)' => Home[t] # p
                         /\ Home[t] # p => (InSection(t)' <=> InSection(t))
  BY <1>2, <1>3 DEF InSection, Inside
<1>6. LockIsHeld'
  BY <1>1, <1>3, <1>5 DEF LockIsHeld, TypeOK
<1>7. LocksAreInUse'
  <2>1. ASSUME NEW q \in Processes, lock'[q] # None
        PROVE  Home[lock'[q]] = q /\ (InSection(lock[q]))'
    <3>1. q # p /\ lock'[q] = lock[q]
      BY <1>1, <1>3, <2>1 DEF TypeOK
    <3>2. lock[q] \in Threads /\ Home[lock[q]] = q /\ InSection(lock[q])
      BY <1>1, <2>1, <3>1 DEF LocksAreInUse, TypeOK
    <3>3. task'[lock[q]] = task[lock[q]]
      BY <1>3, <3>1, <3>2
    <3> QED
      BY <3>1, <3>2, <3>3 DEF InSection
  <2> QED
    BY <2>1 DEF LocksAreInUse
<1>8. TasksAreConsistent'
  <2>1. \A t \in Threads : Consistent(task'[t])
    BY <1>1, <1>2, <1>3 DEF TasksAreConsistent, Consistent
  <2> QED
    BY <2>1 DEF TasksAreConsistent, Consistent
<1>9. OnlyRemnants'
  BY <1>1, <1>2, <1>3, <1>5 DEF OnlyRemnants, Remains
<1> QED
  BY <1>4, <1>6, <1>7, <1>8, <1>9 DEF Shared

LEMMA NextKeepsShared == Shared /\ [Next]_vars => Shared'
<1> SUFFICES ASSUME Shared, [Next]_vars PROVE Shared'
  OBVIOUS
<1>1. CASE UNCHANGED vars
  BY <1>1 DEF vars, Shared, TypeOK, TasksAreConsistent, LockIsHeld, LocksAreInUse, InSection,
              OnlyRemnants, Remains
<1> QED
  BY <1>1, StepKeepsShared, CrashKeepsShared DEF Next

-----------------------------------------------------------------------------
(* As long as the writes of two processes do not overlap *)

(* No file, no operation.                                                   *)
LEMMA InitIsExclusive == Init => Exclusive
<1> SUFFICES ASSUME Init PROVE Exclusive
  OBVIOUS
<1>1. path = None /\ \A t \in Threads : task[t].at = "idle" /\ task[t].op = "none"
  BY DEF Init, Idle
<1>2. OneInside /\ FilesAreApart
  BY <1>1 DEF OneInside, InSection, FilesAreApart
<1>3. FileIsWhole /\ WritesAreCurrent /\ PublishesOwnJournal
  BY <1>1 DEF FileIsWhole, WritesAreCurrent, PublishesOwnJournal
<1> QED
  BY <1>2, <1>3 DEF Exclusive

(* A step of a thread that touches no file and is not inside: starting an   *)
(* operation, or reading the list.                                          *)
LEMMA OutsideKeepsExclusive ==
    ASSUME Shared, Exclusive, NEW t \in Threads, NEW w \in Task, Only(t, w),
           UNCHANGED <<path, tmp, content>>, ~Inside(w),
           w.at = "load" => path # None /\ w.fd = path
    PROVE  Exclusive'
<1>1. /\ TypeOK /\ OneInside /\ FilesAreApart
      /\ FileIsWhole /\ WritesAreCurrent /\ PublishesOwnJournal
  BY DEF Shared, Exclusive
<1>2. /\ task'[t] = w
      /\ \A u \in Threads \ {t} : task'[u] = task[u]
  BY <1>1 DEF Only, TypeOK
<1>3. w.at \notin {"create", "fill", "replace"} /\ (w.op = "upsert" => w.at \notin {"open", "load"})
  BY DEF Inside
<1>4. OneInside'
  BY <1>1, <1>2, <1>3 DEF OneInside, InSection
<1>5. FilesAreApart'
  BY <1>1, <1>2, <1>3 DEF FilesAreApart, FileIsWhole
<1>6. FileIsWhole'
  BY <1>1 DEF FileIsWhole
<1>7. WritesAreCurrent'
  BY <1>1, <1>2, <1>3 DEF WritesAreCurrent, Visible
<1>8. PublishesOwnJournal'
  BY <1>1, <1>2, <1>3 DEF PublishesOwnJournal, Payload
<1> QED
  BY <1>4, <1>5, <1>6, <1>7, <1>8 DEF Exclusive

(* A step of the only thread inside that reads, or enters.                  *)
LEMMA ReadingKeepsExclusive ==
    ASSUME Shared, Exclusive, NEW t \in Threads, NEW w \in Task, Only(t, w),
           UNCHANGED <<path, tmp, content>>,
           \A u \in Threads \ {t} : ~InSection(u),
           \/ w.op = "upsert" /\ w.at = "open"
           \/ w.op = "upsert" /\ w.at = "load" /\ path # None /\ w.fd = path
           \/ w.op = "upsert" /\ w.at = "create" /\ w.seen = Visible
           \/ w.op = "sync" /\ w.at = "create"
    PROVE  Exclusive'
<1>1. /\ TypeOK /\ OneInside /\ FilesAreApart
      /\ FileIsWhole /\ WritesAreCurrent /\ PublishesOwnJournal
  BY DEF Shared, Exclusive
<1>2. /\ task'[t] = w
      /\ \A u \in Threads \ {t} : task'[u] = task[u]
  BY <1>1 DEF Only, TypeOK
<1>3. OneInside'
  BY <1>2 DEF OneInside, InSection
<1>4. FilesAreApart'
  BY <1>1, <1>2 DEF FilesAreApart, FileIsWhole
<1>5. FileIsWhole'
  BY <1>1 DEF FileIsWhole
<1>6. WritesAreCurrent'
  BY <1>1, <1>2 DEF WritesAreCurrent, Visible
<1>7. PublishesOwnJournal'
  BY <1>1, <1>2 DEF PublishesOwnJournal, Payload
<1> QED
  BY <1>3, <1>4, <1>5, <1>6, <1>7 DEF Exclusive

(* Start: a new operation begins outside.                                   *)
LEMMA StartKeepsExclusive ==
    ASSUME Shared, Exclusive, NEW t \in Threads, Start(t)
    PROVE  Exclusive'
<1> DEFINE New(op, at, position) == [Idle EXCEPT !.op = op, !.at = at, !.position = position]
<1>1. UNCHANGED <<path, tmp, content>> /\ << >> \in Journals
  <2>1. UNCHANGED <<path, tmp, content>>
    BY DEF Start
  <2> QED
    BY <2>1 DEF Journals
<1>2. Requests \subseteq LocalPosition /\ Fixtures \subseteq LocalPosition
  BY StorageAssumption
<1>3. ASSUME NEW position \in Requests, Only(t, New("upsert", "acquire", position))
      PROVE  Exclusive'
  <2> DEFINE w == New("upsert", "acquire", position)
  <2>1. w \in Task /\ ~Inside(w) /\ w.at # "load"
    BY <1>1, <1>2 DEF Idle, Task, Steps, Inside
  <2> HIDE DEF w
  <2>2. Only(t, w)
    BY <1>3 DEF w
  <2> QED
    BY <1>1, <2>1, <2>2, OutsideKeepsExclusive
<1>4. ASSUME NEW position \in Fixtures, Only(t, New("sync", "open", position))
      PROVE  Exclusive'
  <2> DEFINE w == New("sync", "open", position)
  <2>1. w \in Task /\ ~Inside(w) /\ w.at # "load"
    BY <1>1, <1>2 DEF Idle, Task, Steps, Inside
  <2> HIDE DEF w
  <2>2. Only(t, w)
    BY <1>4 DEF w
  <2> QED
    BY <1>1, <2>1, <2>2, OutsideKeepsExclusive
<1>5. ASSUME Only(t, [Idle EXCEPT !.op = "list", !.at = "open"])
      PROVE  Exclusive'
  <2> DEFINE w == [Idle EXCEPT !.op = "list", !.at = "open"]
  <2>1. w \in Task /\ ~Inside(w) /\ w.at # "load"
    BY <1>1 DEF Idle, Task, Steps, Inside
  <2> HIDE DEF w
  <2>2. Only(t, w)
    BY <1>5 DEF w
  <2> QED
    BY <1>1, <2>1, <2>2, OutsideKeepsExclusive
<1> QED
  BY <1>3, <1>4, <1>5, Zenon DEF Start, Only

(* Acquire: the lock was free, so nobody of the process was inside, and     *)
(* nobody of another, or the writes overlap now.                            *)
LEMMA AcquireKeepsExclusive ==
    ASSUME Shared, Exclusive, NEW t \in Threads, Acquire(t), Undisturbed'
    PROVE  Exclusive'
<1> DEFINE w == [task[t] EXCEPT !.at = IF task[t].op = "upsert" THEN "open" ELSE "create"]
<1>1. TypeOK /\ TasksAreConsistent /\ LockIsHeld
  BY DEF Shared
<1>2. task[t] \in Task
  BY <1>1 DEF TypeOK
<1>3. w \in Task
  BY <1>2 DEF Task, Steps
<1>4. Only(t, w)
  BY Zenon DEF Acquire, Goto, Only
<1>5. /\ task[t].at = "acquire" /\ lock[Home[t]] = None /\ HandsIn(t)
      /\ UNCHANGED <<path, tmp, content>>
  BY Zenon DEF Acquire
<1>6. task[t].op \in {"upsert", "sync"}
  BY <1>1, <1>2, <1>5 DEF Task, TasksAreConsistent
<1>7. w.op = task[t].op /\ w.at = IF task[t].op = "upsert" THEN "open" ELSE "create"
  BY <1>2 DEF Task
<1>8. \A u \in Threads \ {t} : ~InSection(u)
  <2>1. \A u \in Threads : Home[u] # Home[t] => ~InSection(u)
    BY <1>5 DEF HandsIn, Handed, Undisturbed
  <2>2. \A u \in Threads : Home[u] = Home[t] => ~InSection(u)
    BY <1>1, <1>5, StorageAssumption DEF LockIsHeld
  <2> QED
    BY <2>1, <2>2
<1> HIDE DEF w
<1> QED
  BY <1>3, <1>4, <1>5, <1>6, <1>7, <1>8, ReadingKeepsExclusive

(* A thread that has read goes on with the journal it saw.                  *)
LEMMA AfterReadKeepsExclusive ==
    ASSUME Shared, Exclusive, NEW t \in Threads, NEW w \in Task, Only(t, w),
           UNCHANGED <<path, tmp, content>>,
           task[t].at \in {"open", "load"}, w.op = task[t].op,
           \/ w.at = "load" /\ path # None /\ w.fd = path
           \/ /\ w.at = AfterRead(task[t].op, w.seen)
              /\ task[t].op = "upsert" => w.seen = Visible
    PROVE  Exclusive'
<1>1. TypeOK /\ TasksAreConsistent /\ OneInside
  BY DEF Shared, Exclusive
<1>2. task[t] \in Task
  BY <1>1 DEF TypeOK
<1>3. task[t].op \in {"list", "upsert", "sync"}
  BY <1>1, <1>2 DEF Task, TasksAreConsistent
<1>4. CASE task[t].op = "upsert"
  <2>1. \A u \in Threads \ {t} : ~InSection(u)
    BY <1>1, <1>4 DEF OneInside, InSection
  <2>2. \/ w.at = "load" /\ path # None /\ w.fd = path
        \/ w.at = "create" /\ w.seen = Visible
    BY <1>4 DEF AfterRead
  <2> QED
    BY <1>4, <2>1, <2>2, ReadingKeepsExclusive
<1>5. CASE task[t].op # "upsert"
  <2>1. ~Inside(w) /\ (w.at = "load" => path # None /\ w.fd = path)
    BY <1>3, <1>5 DEF AfterRead, Inside
  <2> QED
    BY <2>1, OutsideKeepsExclusive
<1> QED
  BY <1>4, <1>5

(* Open: a missing file is an empty journal.                                *)
LEMMA OpenKeepsExclusive ==
    ASSUME Shared, Exclusive, NEW t \in Threads, Open(t)
    PROVE  Exclusive'
<1>1. TypeOK /\ TasksAreConsistent
  BY DEF Shared
<1>2. task[t] \in Task /\ << >> \in Journals
  BY <1>1 DEF TypeOK, Journals
<1>3. task[t].at = "open" /\ UNCHANGED <<path, tmp, content>>
  BY Zenon DEF Open
<1>4. AfterRead(task[t].op, << >>) \in Steps
  BY <1>1, <1>2, <1>3 DEF AfterRead, Steps, Task, TasksAreConsistent
<1>5. CASE path = None
  <2> DEFINE w == [task[t] EXCEPT !.seen = << >>, !.at = AfterRead(task[t].op, << >>)]
  <2>1. w \in Task
    BY <1>2, <1>4 DEF Task
  <2>2. Only(t, w)
    BY <1>5, Zenon DEF Open, Only
  <2>3. w.op = task[t].op /\ w.seen = << >> /\ w.at = AfterRead(task[t].op, << >>)
    BY <1>2 DEF Task
  <2>4. Visible = << >>
    BY <1>5 DEF Visible
  <2> HIDE DEF w
  <2> QED
    BY <1>3, <2>1, <2>2, <2>3, <2>4, AfterReadKeepsExclusive
<1>6. CASE path # None
  <2> DEFINE w == [task[t] EXCEPT !.fd = path, !.at = "load"]
  <2>1. w \in Task
    BY <1>1, <1>2, <1>6 DEF Task, Steps, TypeOK
  <2>2. Only(t, w)
    BY <1>6, Zenon DEF Open, Only
  <2>3. w.op = task[t].op /\ w.at = "load" /\ w.fd = path
    BY <1>2 DEF Task
  <2> HIDE DEF w
  <2> QED
    BY <1>3, <1>6, <2>1, <2>2, <2>3, AfterReadKeepsExclusive
<1> QED
  BY <1>5, <1>6

(* Load: the upsert that reads has the journal itself open.                 *)
LEMMA LoadKeepsExclusive ==
    ASSUME Shared, Exclusive, NEW t \in Threads, Load(t)
    PROVE  Exclusive'
<1> DEFINE read == Parsed(content[task[t].fd])
           w == [task[t] EXCEPT !.seen = read, !.fd = None, !.at = AfterRead(task[t].op, read)]
<1>1. TypeOK /\ TasksAreConsistent /\ FilesAreApart
  BY DEF Shared, Exclusive
<1>2. task[t] \in Task
  BY <1>1 DEF TypeOK
<1>3. task[t].at = "load" /\ UNCHANGED <<path, tmp, content>>
  BY Zenon DEF Load
<1>4. Only(t, w)
  BY Zenon DEF Load, Only
<1>5. task[t].fd \in Inodes /\ task[t].fd # None
  BY <1>1, <1>2, <1>3 DEF TasksAreConsistent, Task
<1>6. read \in Journals
  BY <1>5, ReadsAreRemnants
<1> HIDE DEF read
<1>7. AfterRead(task[t].op, read) \in Steps
  BY <1>1, <1>2, <1>3 DEF AfterRead, Steps, Task, TasksAreConsistent
<1>8. w \in Task
  BY <1>2, <1>6, <1>7 DEF Task
<1>9. w.op = task[t].op /\ w.seen = read /\ w.at = AfterRead(task[t].op, read)
  BY <1>2 DEF Task
<1>10. task[t].op = "upsert" => read = Visible
  BY <1>1, <1>3, <1>5 DEF FilesAreApart, Visible, read
<1> HIDE DEF w
<1> QED
  BY <1>3, <1>4, <1>8, <1>9, <1>10, AfterReadKeepsExclusive

(* A step of the writer on positions.tmp: no reader has that inode, the     *)
(* journal is another one, and there is no other writer.                    *)
LEMMA WritingKeepsExclusive ==
    ASSUME Shared, Exclusive, NEW t \in Threads, NEW w \in Task, Only(t, w),
           task[t].at \in {"create", "fill"}, UNCHANGED path,
           NEW i \in Inodes, i # path, tmp' = i,
           \A u \in Threads : task[u].at = "load" => task[u].fd # i,
           NEW text \in Journals \union {Torn}, content' = [content EXCEPT ![i] = text],
           w.op = task[t].op, w.position = task[t].position, w.seen = task[t].seen,
           \/ w.at = "fill" /\ w.fd = i /\ text = Torn
           \/ w.at = "replace" /\ text = Payload(t)
    PROVE  Exclusive'
<1>1. /\ TypeOK /\ TasksAreConsistent /\ OneInside /\ FilesAreApart
      /\ FileIsWhole /\ WritesAreCurrent /\ PublishesOwnJournal
  BY DEF Shared, Exclusive
<1>2. /\ task'[t] = w
      /\ \A u \in Threads \ {t} : task'[u] = task[u]
  BY <1>1 DEF Only, TypeOK
<1>3. InSection(t) /\ \A u \in Threads \ {t} : ~InSection(u)
  BY <1>1 DEF OneInside, InSection
<1>4. \A u \in Threads \ {t} : task[u].at \notin {"create", "fill", "replace"}
                               /\ ~(task[u].op = "upsert" /\ task[u].at \in {"open", "load"})
  BY <1>3 DEF InSection
<1>5. content'[i] = text /\ \A j \in Inodes \ {i} : content'[j] = content[j]
  BY <1>1 DEF TypeOK
<1>6. Visible' = Visible
  BY <1>1, <1>5 DEF Visible, TypeOK
<1>7. OneInside'
  BY <1>2, <1>4 DEF OneInside, InSection
<1>8. FilesAreApart'
  <2>1. ASSUME NEW u \in Threads, task'[u].at = "load"
        PROVE  /\ task'[u].fd # tmp' /\ content'[task'[u].fd] # Torn
               /\ task'[u].op = "upsert" => task'[u].fd = path'
    <3>1. u # t /\ task'[u] = task[u]
      BY <1>2, <2>1
    <3>2. task[u].fd \in Inodes
      BY <1>1, <2>1, <3>1 DEF TasksAreConsistent, TypeOK, Task
    <3> QED
      BY <1>1, <1>5, <2>1, <3>1, <3>2 DEF FilesAreApart
  <2>2. ASSUME NEW u \in Threads, task'[u].at = "fill"
        PROVE  tmp' # None /\ task'[u].fd = tmp' /\ content'[tmp'] = Torn
    BY <1>2, <1>4, <1>5, <2>2, StorageAssumption
  <2> QED
    BY <2>1, <2>2 DEF FilesAreApart
<1>9. FileIsWhole'
  BY <1>1, <1>5 DEF FileIsWhole, TypeOK
<1>10. WritesAreCurrent'
  <2>1. task[t].op = "upsert" => task[t].seen = Visible
    BY <1>1 DEF WritesAreCurrent
  <2> QED
    BY <1>1, <1>2, <1>4, <1>6, <2>1 DEF WritesAreCurrent
<1>11. PublishesOwnJournal'
  <2>1. Payload(t)' = Payload(t)
    BY <1>2 DEF Payload
  <2> QED
    BY <1>2, <1>4, <1>5, <2>1, StorageAssumption DEF PublishesOwnJournal
<1> QED
  BY <1>7, <1>8, <1>9, <1>10, <1>11 DEF Exclusive

(* The inode that write_text() opens is not one that is read or the journal.*)
LEMMA CreatedIsApart ==
    ASSUME Shared, Exclusive, NEW i \in IF tmp = None THEN Fresh ELSE {tmp}
    PROVE  i \in Inodes /\ i # path /\ \A u \in Threads : task[u].at = "load" => task[u].fd # i
<1>1. TypeOK /\ FilesAreApart
  BY DEF Shared, Exclusive
<1>2. CASE tmp = None
  BY <1>2 DEF Fresh, Unused
<1>3. CASE tmp # None
  BY <1>1, <1>3 DEF FilesAreApart, TypeOK
<1> QED
  BY <1>2, <1>3

(* Create: positions.tmp is truncated, or made of an inode nobody uses.     *)
LEMMA CreateKeepsExclusive ==
    ASSUME Shared, Exclusive, NEW t \in Threads, Create(t)
    PROVE  Exclusive'
<1>1. TypeOK
  BY DEF Shared
<1>2. task[t] \in Task
  BY <1>1 DEF TypeOK
<1>3. PICK i \in IF tmp = None THEN Fresh ELSE {tmp} :
          /\ content' = [content EXCEPT ![i] = Torn]
          /\ tmp' = i
          /\ task' = [task EXCEPT ![t].fd = i, ![t].at = "fill"]
  BY Zenon DEF Create
<1>4. task[t].at = "create" /\ UNCHANGED path
  BY Zenon DEF Create
<1>5. i \in Inodes /\ i # path /\ \A u \in Threads : task[u].at = "load" => task[u].fd # i
  BY CreatedIsApart
<1> DEFINE w == [task[t] EXCEPT !.fd = i, !.at = "fill"]
<1>6. w \in Task
  BY <1>2, <1>5 DEF Task, Steps
<1>7. Only(t, w)
  BY <1>1, <1>3 DEF Only, TypeOK
<1>8. /\ w.op = task[t].op /\ w.position = task[t].position /\ w.seen = task[t].seen
      /\ w.at = "fill" /\ w.fd = i
  BY <1>2 DEF Task
<1> HIDE DEF w
<1> QED
  BY <1>3, <1>4, <1>5, <1>6, <1>7, <1>8, WritingKeepsExclusive

(* Fill: alone on the file, the writer leaves its journal there.            *)
LEMMA FillKeepsExclusive ==
    ASSUME Shared, Exclusive, NEW t \in Threads, Fill(t)
    PROVE  Exclusive'
<1>1. TypeOK /\ OneInside /\ FilesAreApart
  BY DEF Shared, Exclusive
<1>2. task[t] \in Task
  BY <1>1 DEF TypeOK
<1>3. task[t].at = "fill" /\ UNCHANGED <<path, tmp>>
  BY Zenon DEF Fill
<1>4. tmp \in Inodes /\ task[t].fd = tmp /\ content[tmp] = Torn
  BY <1>1, <1>3 DEF FilesAreApart, TypeOK
<1>5. FillsAlone(t)
  <2>1. ASSUME NEW u \in Threads \ {t}, task[u].at = "fill" PROVE FALSE
    BY <1>1, <1>3, <2>1 DEF OneInside, InSection
  <2> QED
    BY <1>4, <2>1 DEF FillsAlone
<1>6. content' = [content EXCEPT ![tmp] = Payload(t)]
  BY <1>4, <1>5 DEF Fill
<1>7. Payload(t) \in Journals
  BY <1>3, ReadsAreRemnants
<1> DEFINE w == [task[t] EXCEPT !.fd = None, !.at = "replace"]
<1>8. w \in Task
  BY <1>2 DEF Task, Steps
<1>9. Only(t, w)
  <2>1. task' = [task EXCEPT ![t].fd = None, ![t].at = "replace"]
    BY Zenon DEF Fill
  <2> QED
    BY <1>1, <2>1 DEF Only, TypeOK
<1>10. /\ w.op = task[t].op /\ w.position = task[t].position /\ w.seen = task[t].seen
       /\ w.at = "replace"
  BY <1>2 DEF Task
<1>11. tmp # path /\ \A u \in Threads : task[u].at = "load" => task[u].fd # tmp
  BY <1>1, <1>4, StorageAssumption DEF FilesAreApart
<1>12. tmp' = tmp
  BY <1>3
<1> DEFINE text == Payload(t)
<1>13. text \in Journals \union {Torn} /\ text = Payload(t) /\ content' = [content EXCEPT ![tmp] = text]
  BY <1>6, <1>7
<1> HIDE DEF w, text
<1> QED
  BY <1>3, <1>4, <1>8, <1>9, <1>10, <1>11, <1>12, <1>13, WritingKeepsExclusive

(* Replace publishes the writer's journal: it is what the file holds then.  *)
LEMMA ReplacePublishes ==
    ASSUME Shared, Exclusive, NEW t \in Threads, Replace(t)
    PROVE  /\ tmp # None /\ path' = tmp /\ tmp' = None
           /\ Visible' = Payload(t) /\ content[tmp] = Payload(t) /\ Payload(t) \in Journals
           /\ Goto(t, "done") /\ UNCHANGED content
<1>1. TypeOK /\ PublishesOwnJournal
  BY DEF Shared, Exclusive
<1>2. task[t].at = "replace" /\ UNCHANGED content
  BY Zenon DEF Replace
<1>3. tmp # None /\ content[tmp] = Payload(t)
  BY <1>1, <1>2 DEF PublishesOwnJournal
<1>4. path' = tmp /\ tmp' = None /\ Goto(t, "done")
  BY <1>3, Zenon DEF Replace
<1>5. Payload(t) \in Journals /\ Payload(t) # Torn
  BY <1>2, ReadsAreRemnants, StorageAssumption
<1>6. Visible' = Payload(t)
  BY <1>2, <1>3, <1>4, <1>5 DEF Visible, Parsed
<1> QED
  BY <1>2, <1>3, <1>4, <1>5, <1>6

(* Replace: the writer leaves, and with it the temporary name.              *)
LEMMA ReplaceKeepsExclusive ==
    ASSUME Shared, Exclusive, NEW t \in Threads, Replace(t)
    PROVE  Exclusive'
<1> DEFINE w == [task[t] EXCEPT !.at = "done"]
<1>1. /\ TypeOK /\ OneInside /\ FilesAreApart
      /\ FileIsWhole /\ WritesAreCurrent /\ PublishesOwnJournal
  BY DEF Shared, Exclusive
<1>2. /\ tmp # None /\ path' = tmp /\ tmp' = None
      /\ content[tmp] = Payload(t) /\ Payload(t) \in Journals /\ Goto(t, "done")
      /\ UNCHANGED content
  BY ReplacePublishes
<1>3. task[t] \in Task /\ task[t].at = "replace"
  BY <1>1, Zenon DEF TypeOK, Replace
<1>4. w.at = "done"
  BY <1>3 DEF Task
<1>5. Only(t, w)
  BY <1>2 DEF Only, Goto
<1> HIDE DEF w
<1>6. /\ task'[t] = w
      /\ \A u \in Threads \ {t} : task'[u] = task[u]
  BY <1>1, <1>5 DEF Only, TypeOK
<1>7. \A u \in Threads \ {t} : task[u].at \notin {"create", "fill", "replace"}
                               /\ ~(task[u].op = "upsert" /\ task[u].at \in {"open", "load"})
  BY <1>1, <1>3 DEF OneInside, InSection
<1>8. OneInside'
  BY <1>4, <1>6, <1>7 DEF OneInside, InSection
<1>9. FilesAreApart'
  <2>1. ASSUME NEW u \in Threads, task'[u].at = "load"
        PROVE  /\ task'[u].fd # tmp' /\ content'[task'[u].fd] # Torn
               /\ task'[u].op = "upsert" => task'[u].fd = path'
    <3>1. u # t /\ task'[u] = task[u]
      BY <1>4, <1>6, <2>1
    <3>2. task[u].fd # None
      BY <2>1, <3>1 DEF Shared, TasksAreConsistent
    <3> QED
      BY <1>1, <1>2, <1>7, <2>1, <3>1, <3>2 DEF FilesAreApart
  <2>2. \A u \in Threads : task'[u].at # "fill"
    BY <1>4, <1>6, <1>7
  <2> QED
    BY <1>2, <2>1, <2>2 DEF FilesAreApart
<1>10. FileIsWhole'
  BY <1>2, StorageAssumption DEF FileIsWhole
<1>11. WritesAreCurrent' /\ PublishesOwnJournal'
  BY <1>4, <1>6, <1>7 DEF WritesAreCurrent, PublishesOwnJournal
<1> QED
  BY <1>8, <1>9, <1>10, <1>11 DEF Exclusive

(* Crash: whoever is left goes on as before.                                *)
LEMMA CrashKeepsExclusive ==
    ASSUME Shared, Exclusive, NEW p \in Processes, Crash(p)
    PROVE  Exclusive'
<1>1. /\ OneInside /\ FilesAreApart
      /\ FileIsWhole /\ WritesAreCurrent /\ PublishesOwnJournal
  BY DEF Exclusive
<1>2. /\ task' = [t \in Threads |-> IF Home[t] = p THEN Idle ELSE task[t]]
      /\ UNCHANGED <<path, tmp, content>>
  BY DEF Crash
<1>3. Idle.at = "idle" /\ Idle.op = "none"
  BY DEF Idle
<1>4. \A t \in Threads : task'[t] = Idle \/ task'[t] = task[t]
  BY <1>2
<1>5. OneInside'
  BY <1>1, <1>3, <1>4 DEF OneInside, InSection
<1>6. FilesAreApart' /\ FileIsWhole'
  BY <1>1, <1>2, <1>3, <1>4 DEF FilesAreApart, FileIsWhole
<1>7. WritesAreCurrent' /\ PublishesOwnJournal'
  BY <1>1, <1>2, <1>3, <1>4 DEF WritesAreCurrent, PublishesOwnJournal, Visible, Payload
<1> QED
  BY <1>5, <1>6, <1>7 DEF Exclusive

(* Once writes overlapped they have, and only entering can bring it about.  *)
LEMMA DisturbedStays ==
    ASSUME [Next]_vars, Undisturbed'
    PROVE  Undisturbed
<1>1. CASE UNCHANGED vars
  BY <1>1 DEF vars, Undisturbed
<1>2. ASSUME NEW t \in Threads, Acquire(t) PROVE Undisturbed
  BY <1>2 DEF Acquire, HandsIn, Handed, Undisturbed
<1>3. ASSUME UNCHANGED history PROVE Undisturbed
  BY <1>3 DEF Undisturbed
<1> QED
  BY <1>1, <1>2, <1>3 DEF Next, Step, Start, Open, Load, Create, Fill, Replace, Crash

(* Every step of a thread and every crash keeps the invariant.              *)
LEMMA NextKeepsStorageInv == StorageInv /\ [Next]_vars => StorageInv'
<1> SUFFICES ASSUME StorageInv, [Next]_vars PROVE StorageInv'
  OBVIOUS
<1>1. Shared /\ Shared'
  BY NextKeepsShared DEF StorageInv, Shared
<1>2. ASSUME Undisturbed' PROVE Exclusive'
  <2>1. Exclusive
    BY <1>2, DisturbedStays DEF StorageInv, Exclusive
  <2>2. CASE UNCHANGED vars
    BY <2>1, <2>2 DEF vars, Exclusive, OneInside, InSection, FilesAreApart, FileIsWhole,
                      WritesAreCurrent, PublishesOwnJournal, Visible, Payload
  <2>3. ASSUME NEW t \in Threads, Start(t) \/ Step(t) PROVE Exclusive'
    BY <1>1, <1>2, <2>1, <2>3, StartKeepsExclusive, AcquireKeepsExclusive, OpenKeepsExclusive,
       LoadKeepsExclusive, CreateKeepsExclusive, FillKeepsExclusive, ReplaceKeepsExclusive DEF Step
  <2>4. ASSUME NEW p \in Processes, Crash(p) PROVE Exclusive'
    BY <1>1, <2>1, <2>4, CrashKeepsExclusive
  <2> QED
    BY <2>2, <2>3, <2>4 DEF Next
<1> QED
  BY <1>1, <1>2 DEF StorageInv, Shared, Exclusive

LEMMA InitKeepsStorageInv == Init => StorageInv
BY InitKeepsShared, InitIsExclusive DEF StorageInv, Shared, Exclusive
-----------------------------------------------------------------------------
(* Theorems *)

(* The invariant holds, however many commands run and whenever they die.    *)
THEOREM StorageInvariant == Spec => []StorageInv
BY InitKeepsStorageInv, NextKeepsStorageInv, PTL DEF Spec

(* positions.json is absent or complete, unless two commands ever wrote it  *)
(* at the same time (_write_payload).                                       *)
THEOREM FileStaysWhole == Spec => [](Undisturbed => FileIsWhole)
<1>1. StorageInv => (Undisturbed => FileIsWhole)
  BY DEF StorageInv
<1> QED
  BY <1>1, StorageInvariant, PTL

(* No upsert overwrites another it has not seen, under the same premise     *)
(* (_storage_lock).                                                         *)
THEOREM NoUpsertIsLost == Spec => [](Undisturbed => WritesAreCurrent)
<1>1. StorageInv => (Undisturbed => WritesAreCurrent)
  BY DEF StorageInv
<1> QED
  BY <1>1, StorageInvariant, PTL

(* However many processes write the file, the journal one reads has every   *)
(* id once (upsert).                                                        *)
THEOREM IdsStayUnique == Spec => []IdsAreUnique
<1>1. StorageInv => IdsAreUnique
  <2>1. StorageInv => Remains(Visible)
    BY ReadsAreRemnants DEF StorageInv, Shared
  <2> QED
    BY <2>1 DEF Remains, IdsAreUnique
<1> QED
  BY <1>1, StorageInvariant, PTL

(* _storage_lock is held by a thread of its process that is inside "with",  *)
(* also when replace() fails because another process moved the temporary    *)
(* file (_write_payload).                                                   *)
THEOREM LocksAreReleased == Spec => []LocksAreInUse
<1>1. StorageInv => LocksAreInUse
  BY DEF StorageInv
<1> QED
  BY <1>1, StorageInvariant, PTL

(* What is left of positions is no longer than there are positions: no id,  *)
(* and so no position, is in it twice.                                      *)
LEMMA RemnantsAreEnough ==
    ASSUME NEW P, IsFiniteSet(P), NEW found \in Seq(P), Distinct(found)
    PROVE  found \in J!Remnants(P)
<1>1. DOMAIN found = 1..Len(found) /\ Len(found) \in Nat /\ found \in [1..Len(found) -> P]
  OBVIOUS
<1>2. Cardinality(P) \in Nat
  BY FS_CardinalityType
<1>3. Len(found) <= Cardinality(P)
  <2>1. found \in Injection(1..Len(found), P)
    BY <1>1 DEF Distinct, Injection, IsInjective
  <2>2. Cardinality(1..Len(found)) <= Cardinality(P)
    BY <2>1, FS_Injection
  <2>3. Cardinality(1..Len(found)) = Len(found)
    BY <1>1, FS_Interval
  <2> QED
    BY <2>2, <2>3
<1>4. Len(found) \in 0..Cardinality(P)
  BY <1>1, <1>2, <1>3
<1>5. found \in UNION {[1..n -> P] : n \in 0..Cardinality(P)}
  BY <1>1, <1>4
<1>6. \A i, j \in DOMAIN found : found[i].id = found[j].id => i = j
  BY DEF Distinct
<1>7. J!Cardinality(P) = Cardinality(P)
  BY DEF J!Cardinality, Cardinality
<1> QED
  BY <1>5, <1>6, <1>7 DEF J!Remnants

LEMMA VisibleIsReadable ==
    ASSUME StorageInv
    PROVE  Visible \in J!Readable
<1>1. Shared
  BY DEF StorageInv, Shared
<1>2. CASE history.overlapped
  <2>1. Visible \in Seq(history.handed) /\ Distinct(Visible) /\ IsFiniteSet(history.handed)
    BY <1>1, ReadsAreRemnants DEF Remains, Distinct, Shared, OnlyRemnants
  <2> QED
    BY <1>2, <2>1, RemnantsAreEnough DEF J!Readable
<1>3. CASE ~history.overlapped
  BY <1>3 DEF J!Readable
<1> QED
  BY <1>2, <1>3

\* What the journal, the abstract one, sees of the files.
Known == IF history.overlapped THEN << >> ELSE Visible

AllStoring == [t \in Threads |-> Storing(t)]

LEMMA Storings ==
    ASSUME TypeOK, NEW t \in Threads, NEW w, Only(t, w)
    PROVE  /\ \A u \in Threads \ {t} : Storing(u)' = Storing(u) /\ (InSection(u)' <=> InSection(u))
           /\ Storing(t)' = IF Inside(w) THEN w.position ELSE None
           /\ AllStoring' = [AllStoring EXCEPT ![t] = Storing(t)']
<1>1. task'[t] = w /\ \A u \in Threads \ {t} : task'[u] = task[u]
  BY DEF Only, TypeOK
<1>2. \A u \in Threads \ {t} : Storing(u)' = Storing(u) /\ (InSection(u)' <=> InSection(u))
  BY <1>1 DEF Storing, InSection
<1>3. Storing(t)' = IF Inside(w) THEN w.position ELSE None
  BY <1>1 DEF Storing, InSection, Inside
<1>4. AllStoring' = [u \in Threads |-> Storing(u)']
  BY DEF AllStoring
<1>5. AllStoring' = [AllStoring EXCEPT ![t] = Storing(t)']
  BY <1>2, <1>4 DEF AllStoring
<1> QED
  BY <1>2, <1>3, <1>5

LEMMA StoringIsSome ==
    ASSUME Shared, NEW t \in Threads
    PROVE  /\ InSection(t) <=> Storing(t) # None
           /\ InSection(t) => Storing(t) = task[t].position /\ Storing(t) \in LocalPosition
<1>1. InSection(t) => task[t].position \in LocalPosition
  BY DEF Shared, OnlyRemnants, TypeOK, Histories
<1> QED
  BY <1>1, StorageAssumption DEF Storing

(* A step of a thread that neither enters nor leaves, and publishes nothing.*)
LEMMA QuietStutters ==
    ASSUME Shared, NEW t \in Threads, NEW w, Only(t, w), UNCHANGED history,
           Undisturbed => UNCHANGED Visible,
           Inside(w) <=> InSection(t), w.position = task[t].position \/ ~Inside(w)
    PROVE  UNCHANGED <<Known, AllStoring, history>>
<1>1. Storing(t)' = Storing(t)
  BY Storings DEF Storing, Shared
<1>2. AllStoring' = AllStoring
  BY <1>1, Storings DEF AllStoring, Shared
<1>3. Known' = Known
  BY DEF Known, Undisturbed
<1> QED
  BY <1>2, <1>3

(* with _storage_lock: the others of the process are not inside.            *)
LEMMA AcquireEnters ==
    ASSUME Shared, NEW t \in Threads, Acquire(t)
    PROVE  task[t].position \in LocalPosition /\ J!Enter(t, task[t].position)
<1> DEFINE w == [task[t] EXCEPT !.at = IF task[t].op = "upsert" THEN "open" ELSE "create"]
<1>1. TypeOK /\ TasksAreConsistent /\ LockIsHeld /\ task[t] \in Task
  BY DEF Shared, TypeOK
<1>2. /\ task[t].at = "acquire" /\ lock[Home[t]] = None /\ HandsIn(t)
      /\ UNCHANGED <<path, tmp, content>> /\ Only(t, w)
  BY Zenon DEF Acquire, Goto, Only
<1>3. task[t].op \in {"upsert", "sync"} /\ task[t].position \in LocalPosition
  BY <1>1, <1>2, StorageAssumption DEF Task, TasksAreConsistent
<1>4. Inside(w) /\ w.position = task[t].position
  BY <1>1, <1>3 DEF Inside, Task
<1> HIDE DEF w
<1>5. Storing(t)' = task[t].position
  BY <1>1, <1>2, <1>4, Storings
<1>6. AllStoring' = [AllStoring EXCEPT ![t] = task[t].position]
  BY <1>1, <1>2, <1>5, Storings
<1>7. \A v \in Threads : Home[v] = Home[t] => AllStoring[v] = None
  BY <1>1, <1>2, StorageAssumption DEF LockIsHeld, AllStoring, Storing
<1>8. (\E v \in Threads : AllStoring[v] # None)
        <=> \E u \in Threads : Home[u] # Home[t] /\ InSection(u)
  BY <1>7, StoringIsSome DEF AllStoring
<1>9. history' = Handed(history, task[t].position, \E v \in Threads : AllStoring[v] # None)
  BY <1>2, <1>8 DEF HandsIn
<1>10. Visible' = Visible
  BY <1>2 DEF Visible
<1>11. Known' = IF history'.overlapped THEN << >> ELSE Known
  BY <1>9, <1>10 DEF Known, Handed
<1> QED
  BY <1>3, <1>6, <1>7, <1>9, <1>11 DEF J!Enter, Known, AllStoring, J!Handed, Handed

(* replace(): the journal is an upsert of what it was, or the seed; or it   *)
(* is unknown already.                                                      *)
LEMMA ReplaceFinishes ==
    ASSUME StorageInv, NEW t \in Threads, Replace(t)
    PROVE  J!Finish(t)
<1>1. /\ TypeOK /\ TasksAreConsistent /\ Shared /\ task[t] \in Task /\ task[t].at = "replace"
      /\ UNCHANGED history
  BY DEF StorageInv, Shared, TypeOK, Replace
<1>2. PICK step \in {"done", "failed"} : Only(t, [task[t] EXCEPT !.at = step])
  BY DEF Replace, Goto, Only
<1>3. ~Inside([task[t] EXCEPT !.at = step])
  BY <1>1 DEF Inside, Task
<1>4. InSection(t) /\ task[t].op \in {"upsert", "sync"}
  BY <1>1, ReadsAreRemnants
<1>5. AllStoring[t] = task[t].position /\ AllStoring[t] # None /\ task[t].position \in LocalPosition
  BY <1>1, <1>4, StoringIsSome DEF AllStoring
<1>6. AllStoring' = [AllStoring EXCEPT ![t] = None]
  BY <1>1, <1>2, <1>3, Storings
<1>7. ASSUME history.overlapped PROVE Known' = Known
  BY <1>1, <1>7 DEF Known
<1>8. ASSUME ~history.overlapped PROVE Known' \in J!Stored(AllStoring[t])
  <2>1. Exclusive
    BY <1>8 DEF StorageInv, Undisturbed, Exclusive
  <2>2. Visible' = Payload(t) /\ Known' = Visible' /\ Known = Visible
    BY <1>1, <1>8, <2>1, ReplacePublishes DEF Known
  <2>3. CASE task[t].op = "upsert"
    <3>1. Known' = Upserted(Known, task[t].position)
      BY <1>1, <2>1, <2>2, <2>3 DEF Payload, Exclusive, WritesAreCurrent
    <3>2. J!Upserted(Known, task[t].position) = Upserted(Known, task[t].position)
      BY DEF J!Upserted, J!Holds, J!FirstIndex, Upserted, Holds, FirstIndex
    <3> QED
      BY <1>5, <3>1, <3>2 DEF J!Stored, Known
  <2>4. CASE task[t].op = "sync"
    <3>1. task[t].position \in Fixtures
      BY <1>1, <2>4 DEF TasksAreConsistent
    <3>2. Known' = <<task[t].position>>
      BY <2>2, <2>4 DEF Payload
    <3> QED
      BY <1>5, <3>1, <3>2 DEF J!Stored
  <2> QED
    BY <1>4, <2>3, <2>4
<1> QED
  BY <1>1, <1>5, <1>6, <1>7, <1>8 DEF J!Finish, J!Leaves, AllStoring, Known

LEMMA CrashDies ==
    ASSUME Shared, NEW p \in Processes, Crash(p)
    PROVE  J!Die(p)
<1>1. /\ task' = [t \in Threads |-> IF Home[t] = p THEN Idle ELSE task[t]]
      /\ UNCHANGED <<path, tmp, content, history>>
  BY DEF Crash
<1>2. \A t \in Threads : Storing(t)' = IF Home[t] = p THEN None ELSE Storing(t)
  BY <1>1 DEF Storing, InSection, Idle
<1>3. AllStoring' = [t \in Threads |-> IF Home[t] = p THEN None ELSE AllStoring[t]]
  BY <1>2 DEF AllStoring
<1>4. Known' = Known
  BY <1>1 DEF Known, Visible
<1> QED
  BY <1>1, <1>3, <1>4 DEF J!Die, AllStoring, Known

(* The other steps do not show (_read_payload, write_text).                 *)
LEMMA OtherStepsStutter ==
    ASSUME StorageInv, NEW t \in Threads,
           Start(t) \/ Open(t) \/ Load(t) \/ Create(t) \/ Fill(t)
    PROVE  UNCHANGED <<Known, AllStoring, history>>
<1>1. /\ Shared /\ TypeOK /\ TasksAreConsistent /\ task[t] \in Task /\ << >> \in Journals
  BY DEF StorageInv, Shared, TypeOK, Journals
<1>2. CASE Start(t)
  <2>1. ~InSection(t) /\ UNCHANGED <<Visible, history>>
    BY <1>2 DEF Start, InSection, Visible
  <2>2. ASSUME NEW w, Only(t, w), ~Inside(w) PROVE UNCHANGED <<Known, AllStoring, history>>
    BY <1>1, <2>1, <2>2, QuietStutters
  <2>3. \A position : ~Inside([Idle EXCEPT !.op = "upsert", !.at = "acquire", !.position = position])
    BY DEF Inside, Idle
  <2>4. \A position : ~Inside([Idle EXCEPT !.op = "sync", !.at = "open", !.position = position])
    BY DEF Inside, Idle
  <2>5. ~Inside([Idle EXCEPT !.op = "list", !.at = "open"])
    BY DEF Inside, Idle
  <2> QED
    BY <1>2, <2>2, <2>3, <2>4, <2>5, Zenon DEF Start, Only
<1>3. CASE Open(t)
  <2> DEFINE w == IF path = None
                  THEN [task[t] EXCEPT !.seen = << >>, !.at = AfterRead(task[t].op, << >>)]
                  ELSE [task[t] EXCEPT !.fd = path, !.at = "load"]
  <2>1. Only(t, w) /\ UNCHANGED <<Visible, history>>
    BY <1>3 DEF Open, Only, Visible
  <2>2. (Inside(w) <=> InSection(t)) /\ w.position = task[t].position
    BY <1>1, <1>3 DEF Open, AfterRead, Task, TasksAreConsistent, Inside, InSection
  <2> HIDE DEF w
  <2> QED
    BY <1>1, <2>1, <2>2, QuietStutters
<1>4. CASE Load(t)
  <2> DEFINE positions == Parsed(content[task[t].fd])
             w == [task[t] EXCEPT !.seen = positions, !.fd = None,
                                  !.at = AfterRead(task[t].op, positions)]
  <2>1. Only(t, w) /\ UNCHANGED <<Visible, history>> /\ task[t].at = "load"
    BY <1>4 DEF Load, Only, Visible
  <2> HIDE DEF positions
  <2>2. (Inside(w) <=> InSection(t)) /\ w.position = task[t].position
    BY <1>1, <2>1 DEF AfterRead, Task, TasksAreConsistent, Inside, InSection
  <2> HIDE DEF w
  <2> QED
    BY <1>1, <2>1, <2>2, QuietStutters
<1>5. ASSUME NEW i \in Inodes, i # path, UNCHANGED path,
             NEW text, content' = [content EXCEPT ![i] = text]
      PROVE  UNCHANGED Visible
  BY <1>1, <1>5 DEF Visible, TypeOK
<1>6. CASE Create(t)
  <2>1. PICK i \in IF tmp = None THEN Fresh ELSE {tmp} :
            /\ content' = [content EXCEPT ![i] = Torn]
            /\ task' = [task EXCEPT ![t].fd = i, ![t].at = "fill"]
    BY <1>6, Zenon DEF Create
  <2> DEFINE w == [task[t] EXCEPT !.fd = i, !.at = "fill"]
  <2>2. Only(t, w) /\ UNCHANGED <<path, history>> /\ task[t].at = "create"
    BY <1>1, <1>6, <2>1 DEF Only, Create, TypeOK
  <2>3. Inside(w) /\ InSection(t) /\ w.position = task[t].position
    BY <1>1, <2>2 DEF Inside, InSection, Task
  <2> HIDE DEF w
  <2>4. ASSUME Undisturbed PROVE UNCHANGED Visible
    <3>1. i \in Inodes /\ i # path
      BY <1>1, <2>1, <2>4, CreatedIsApart DEF StorageInv, Exclusive
    <3> QED
      BY <1>5, <2>1, <2>2, <3>1
  <2> QED
    BY <1>1, <2>2, <2>3, <2>4, QuietStutters
<1>7. CASE Fill(t)
  <2> DEFINE w == [task[t] EXCEPT !.fd = None, !.at = "replace"]
  <2>1. PICK text : content' = [content EXCEPT ![task[t].fd] = text]
    BY <1>7, Zenon DEF Fill
  <2>2. task' = [task EXCEPT ![t].fd = None, ![t].at = "replace"]
    BY <1>7, Zenon DEF Fill
  <2>3. Only(t, w) /\ UNCHANGED <<path, history>> /\ task[t].at = "fill"
    BY <1>1, <1>7, <2>2 DEF Only, Fill, TypeOK
  <2>4. Inside(w) /\ InSection(t) /\ w.position = task[t].position
    BY <1>1, <2>3 DEF Inside, InSection, Task
  <2> HIDE DEF w
  <2>5. ASSUME Undisturbed PROVE UNCHANGED Visible
    <3>1. FilesAreApart
      BY <2>5 DEF StorageInv
    <3>2. task[t].fd \in Inodes /\ task[t].fd # path
      BY <1>1, <2>3, <3>1, StorageAssumption DEF FilesAreApart, TypeOK
    <3> QED
      BY <1>5, <2>1, <2>3, <3>2
  <2> QED
    BY <1>1, <2>3, <2>4, <2>5, QuietStutters
<1> QED
  BY <1>2, <1>3, <1>4, <1>6, <1>7

LEMMA StepImplementsJournal ==
    ASSUME StorageInv, [Next]_vars
    PROVE  J!Next \/ UNCHANGED <<Known, AllStoring, history>>
<1>1. CASE UNCHANGED vars
  BY <1>1 DEF vars, Known, AllStoring, Storing, InSection, Visible
<1>2. ASSUME NEW t \in Threads, Start(t) \/ Step(t)
      PROVE  J!Next \/ UNCHANGED <<Known, AllStoring, history>>
  <2>1. CASE Acquire(t)
    <3>1. task[t].position \in LocalPosition /\ J!Enter(t, task[t].position)
      BY <2>1, AcquireEnters DEF StorageInv, Shared
    <3>2. J!LocalPosition = LocalPosition
      BY DEF J!LocalPosition, LocalPosition
    <3> QED
      BY <3>1, <3>2 DEF J!Next
  <2>2. CASE Replace(t)
    BY <2>2, ReplaceFinishes DEF J!Next
  <2> QED
    BY <1>2, <2>1, <2>2, OtherStepsStutter DEF Step
<1>3. ASSUME NEW p \in Processes, Crash(p) PROVE J!Next
  BY <1>3, CrashDies DEF StorageInv, Shared, J!Next
<1> QED
  BY <1>1, <1>2, <1>3 DEF Next

(* The files implement the abstract journal, for any number of threads and  *)
(* commands (PositionStorage).                                              *)
THEOREM StorageImplementsJournal == Spec => ImplementsJournal
<1>1. Init => J!Init
  <2> SUFFICES ASSUME Init PROVE J!Init
    OBVIOUS
  <2>1. /\ path = None /\ history = NothingHanded
        /\ \A t \in Threads : task[t] = Idle
    BY DEF Init
  <2>2. \A t \in Threads : Storing(t) = None
    BY <2>1 DEF Storing, InSection, Idle
  <2> QED
    BY <2>1, <2>2 DEF J!Init, Visible, NothingHanded, J!NothingHanded
<1>2. StorageInv /\ [Next]_vars => [J!Next]_(J!journal_vars)
  BY StepImplementsJournal DEF J!journal_vars, Known, AllStoring
<1>3. StorageInv => Visible \in J!Readable
  BY VisibleIsReadable
<1> QED
  BY <1>1, <1>2, <1>3, StorageInvariant, PTL DEF Spec, ImplementsJournal, J!Spec

(* A reader's file does not change under it, as long as no two commands     *)
(* write at the same time (read_text, replace).                             *)
THEOREM ReadersSeeWholeFiles == Spec => SnapshotsAreStable
<1> DEFINE Stable == \A t \in Threads : task[t].at = "load" =>
                        content'[task[t].fd] = content[task[t].fd]
<1>1. ASSUME StorageInv, [Next]_vars, Undisturbed' PROVE Stable \/ UNCHANGED vars
  <2>1. Shared /\ Exclusive /\ TypeOK /\ TasksAreConsistent /\ FilesAreApart
    BY <1>1, DisturbedStays DEF StorageInv, Shared, Exclusive
  <2>2. ASSUME UNCHANGED content PROVE Stable
    BY <2>2
  <2>3. ASSUME NEW i \in Inodes, NEW text, content' = [content EXCEPT ![i] = text],
               \A u \in Threads : task[u].at = "load" => task[u].fd # i
        PROVE  Stable
    <3>1. ASSUME NEW u \in Threads, task[u].at = "load"
          PROVE  content'[task[u].fd] = content[task[u].fd]
      <4>1. task[u].fd \in Inodes
        BY <2>1, <3>1 DEF TasksAreConsistent, TypeOK, Task
      <4> QED
        BY <2>1, <2>3, <3>1, <4>1 DEF TypeOK
    <3> QED
      BY <3>1
  <2>4. ASSUME NEW t \in Threads, Create(t) PROVE Stable
    <3>1. PICK i \in IF tmp = None THEN Fresh ELSE {tmp} : content' = [content EXCEPT ![i] = Torn]
      BY <2>4, Zenon DEF Create
    <3>2. i \in Inodes /\ \A u \in Threads : task[u].at = "load" => task[u].fd # i
      BY <2>1, <3>1, CreatedIsApart
    <3> QED
      BY <2>3, <3>1, <3>2
  <2>5. ASSUME NEW t \in Threads, Fill(t) PROVE Stable
    <3>1. PICK text : content' = [content EXCEPT ![task[t].fd] = text]
      BY <2>5, Zenon DEF Fill
    <3>2. task[t].at = "fill"
      BY <2>5, Zenon DEF Fill
    <3>3. /\ task[t].fd \in Inodes
          /\ \A u \in Threads : task[u].at = "load" => task[u].fd # task[t].fd
      BY <2>1, <3>2, StorageAssumption DEF FilesAreApart, TypeOK
    <3> QED
      BY <2>3, <3>1, <3>3
  <2>6. ASSUME NEW t \in Threads,
               Start(t) \/ Acquire(t) \/ Open(t) \/ Load(t) \/ Replace(t)
        PROVE  UNCHANGED content
    BY <2>6 DEF Start, Acquire, Open, Load, Replace
  <2>7. ASSUME NEW p \in Processes, Crash(p) PROVE UNCHANGED content
    BY <2>7 DEF Crash
  <2> HIDE DEF Stable
  <2> QED
    BY <1>1, <2>2, <2>4, <2>5, <2>6, <2>7 DEF Next, Step
<1>2. StorageInv /\ [Next]_vars => [Undisturbed' => Stable]_vars
  BY <1>1
<1> QED
  BY <1>2, StorageInvariant, PTL DEF Spec, SnapshotsAreStable
=============================================================================
