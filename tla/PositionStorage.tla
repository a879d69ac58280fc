--------------------------- MODULE PositionStorage ---------------------------
(***************************************************************************)
(* PositionStorage (position_storage.py) on a file system: positions.json  *)
(* and positions.tmp are names of inodes, write_text() truncates an inode  *)
(* and then fills it, replace() moves the name.  _storage_lock is a lock   *)
(* of one process: the commands that share a directory do not wait for each*)
(* other.  Readers take no lock.  A process can die between any two steps, *)
(* and the next command starts on the files as they are.                   *)
(***************************************************************************)
EXTENDS JournalRules

CONSTANTS
    Threads, Processes,
    Home,       \* the process each thread belongs to
    Inodes,     \* enough for the names and the open files
    Fixtures,   \* positions the test fixture seeds; none elsewhere
    Requests,   \* positions the threads may upsert
    MaxTasks,   \* bound on the operations started
    MaxCrashes, \* bound on the deaths of processes
    None, Torn

ASSUME StorageAssumption ==
    /\ Home \in [Threads -> Processes]
    /\ Fixtures \subseteq LocalPosition /\ Requests \subseteq LocalPosition
    /\ None \notin Inodes /\ None \notin Threads /\ None \notin LocalPosition
    /\ Torn \notin Journals
    /\ MaxTasks \in Nat /\ MaxCrashes \in Nat

VARIABLES
    path, tmp,   \* what positions.json and positions.tmp name
    content,     \* what each inode holds: a journal, or Torn for JSON cut short
    lock,        \* holder of _storage_lock in each process
    task,        \* what each thread is doing
    started, crashes,
    history      \* auxiliary: what was handed in, and did two processes write at once?

vars == <<path, tmp, content, lock, task, started, crashes, history>>

Idle == [op |-> "none", at |-> "idle", position |-> None, seen |-> << >>, fd |-> None]

Steps == {"idle", "acquire", "open", "load", "create", "fill", "replace",
          "done", "failed"}

Task == [op: {"none", "list", "upsert", "sync"}, at: Steps,
         position: LocalPosition \union {None}, seen: Journals, fd: Inodes \union {None}]

TypeOK ==
    /\ path \in Inodes \union {None}
    /\ tmp \in Inodes \union {None}
    /\ content \in [Inodes -> Journals \union {Torn}]
    /\ lock \in [Processes -> Threads \union {None}]
    /\ task \in [Threads -> Task]
    /\ started \in Nat /\ crashes \in Nat
    /\ history \in Histories

Init ==
    /\ path = None /\ tmp = None
    /\ content = [i \in Inodes |-> Torn]
    /\ lock = [p \in Processes |-> None]
    /\ task = [t \in Threads |-> Idle]
    /\ started = 0 /\ crashes = 0
    /\ history = NothingHanded

\* What json.loads() makes of a file: text that does not parse reads as [].
Parsed(text) == IF text = Torn THEN << >> ELSE text

\* The journal list_positions() would return now.
Visible == IF path = None THEN << >> ELSE Parsed(content[path])

\* Inodes that no name and no open file refers to.
Unused == Inodes \ ({path, tmp} \union {task[t].fd : t \in Threads})

\* The inode the file system takes for a new file: any of them would do.
Fresh == {i \in Unused : i = CHOOSE u \in Unused : TRUE}

Goto(t, step) == task' = [task EXCEPT ![t].at = step]

\* Between with _storage_lock and its end.
InSection(t) ==
    \/ task[t].at \in {"create", "fill", "replace"}
    \/ task[t].op = "upsert" /\ task[t].at \in {"open", "load"}

\* A thread begins to store its position.
HandsIn(t) == history' = Handed(history, task[t].position, \E u \in Threads : Home[u] # Home[t] /\ InSection(u))
-----------------------------------------------------------------------------
\* A thread calls upsert(), list_positions() or sync_fixture_positions().
Start(t) ==
    /\ task[t].at \in {"idle", "done", "failed"}
    /\ started < MaxTasks
    /\ started' = started + 1
    /\ \/ \E position \in Requests :
             task' = [task EXCEPT ![t] = [Idle EXCEPT !.op = "upsert", !.at = "acquire",
                                                      !.position = position]]
       \/ task' = [task EXCEPT ![t] = [Idle EXCEPT !.op = "list", !.at = "open"]]
       \/ \E position \in Fixtures :
             task' = [task EXCEPT ![t] = [Idle EXCEPT !.op = "sync", !.at = "open",
                                                      !.position = position]]
    /\ UNCHANGED <<path, tmp, content, lock, crashes, history>>

\* Mutant: the lock is not waited for.
AcquireAnyway(t) ==
    /\ task[t].at = "acquire"
    /\ lock' = [lock EXCEPT ![Home[t]] = t]
    /\ Goto(t, IF task[t].op = "upsert" THEN "open" ELSE "create")
    /\ HandsIn(t)
    /\ UNCHANGED <<path, tmp, content, started, crashes>>

\* with _storage_lock: upsert() reads the file next, seed() writes at once.
Acquire(t) ==
    /\ task[t].at = "acquire"
    /\ lock[Home[t]] = None
    /\ lock' = [lock EXCEPT ![Home[t]] = t]
    /\ Goto(t, IF task[t].op = "upsert" THEN "open" ELSE "create")
    /\ HandsIn(t)
    /\ UNCHANGED <<path, tmp, content, started, crashes>>

\* What a thread does with the positions it read: return them, put its own
\* among them, or seed the journal if there were none.
AfterRead(op, positions) ==
    CASE op = "list"   -> "done"
      [] op = "upsert" -> "create"
      [] op = "sync"   -> IF positions = << >> THEN "acquire" ELSE "done"

\* _read_payload(): a missing file reads as [], another one is opened.
Open(t) ==
    /\ task[t].at = "open"
    /\ task' = [task EXCEPT ![t] =
          IF path = None
          THEN [@ EXCEPT !.seen = << >>, !.at = AfterRead(task[t].op, << >>)]
          ELSE [@ EXCEPT !.fd = path, !.at = "load"]]
    /\ UNCHANGED <<path, tmp, content, lock, started, crashes, history>>

\* read_text() and json.loads() of the file that was opened.
Load(t) ==
    /\ task[t].at = "load"
    /\ LET positions == Parsed(content[task[t].fd]) IN
       task' = [task EXCEPT ![t] = [@ EXCEPT !.seen = positions, !.fd = None,
                                             !.at = AfterRead(task[t].op, positions)]]
    /\ UNCHANGED <<path, tmp, content, lock, started, crashes, history>>

\* Mutant: the journal itself is opened for writing.
CreateInPlace(t) ==
    /\ task[t].at = "create"
    /\ \E i \in IF path = None THEN Fresh ELSE {path} :
          /\ content' = [content EXCEPT ![i] = Torn]
          /\ tmp' = i
          /\ task' = [task EXCEPT ![t].fd = i, ![t].at = "fill"]
    /\ UNCHANGED <<path, lock, started, crashes, history>>

\* write_text() opens positions.tmp: a new inode, or the old one truncated.
Create(t) ==
    /\ task[t].at = "create"
    /\ \E i \in IF tmp = None THEN Fresh ELSE {tmp} :
          /\ content' = [content EXCEPT ![i] = Torn]
          /\ tmp' = i
          /\ task' = [task EXCEPT ![t].fd = i, ![t].at = "fill"]
    /\ UNCHANGED <<path, lock, started, crashes, history>>

\* The journal a thread writes.
Payload(t) ==
    IF task[t].op = "upsert" THEN Upserted(task[t].seen, task[t].position)
    ELSE <<task[t].position>>

\* Nobody else filled or is filling the file that t has open.
FillsAlone(t) ==
    /\ content[task[t].fd] = Torn
    /\ \A u \in Threads \ {t} : ~(task[u].at = "fill" /\ task[u].fd = task[t].fd)

\* The text is written and the file closed; over the text of another writer
\* the result can be a mixture of both.
Fill(t) ==
    /\ task[t].at = "fill"
    /\ \E text \in {Payload(t)} \union (IF FillsAlone(t) THEN {} ELSE {Torn}) :
          content' = [content EXCEPT ![task[t].fd] = text]
    /\ task' = [task EXCEPT ![t].fd = None, ![t].at = "replace"]
    /\ UNCHANGED <<path, tmp, lock, started, crashes, history>>

\* Mutant: the lock is not released.
ReplaceHoldingLock(t) ==
    /\ task[t].at = "replace"
    /\ IF tmp # None
       THEN path' = tmp /\ tmp' = None /\ Goto(t, "done")
       ELSE UNCHANGED <<path, tmp>> /\ Goto(t, "failed")
    /\ UNCHANGED <<content, lock, started, crashes, history>>

\* positions.json now names what positions.tmp named; the call fails if
\* positions.tmp is gone.  Either way the lock is released.
Replace(t) ==
    /\ task[t].at = "replace"
    /\ IF tmp # None
       THEN path' = tmp /\ tmp' = None /\ Goto(t, "done")
       ELSE UNCHANGED <<path, tmp>> /\ Goto(t, "failed")
    /\ lock' = [lock EXCEPT ![Home[t]] = None]
    /\ UNCHANGED <<content, started, crashes, history>>

\* A process dies: its threads and its lock are gone, the files stay.
Crash(p) ==
    /\ crashes < MaxCrashes
    /\ \E t \in Threads : Home[t] = p /\ task[t].at \notin {"idle", "done", "failed"}
    /\ crashes' = crashes + 1
    /\ task' = [t \in Threads |-> IF Home[t] = p THEN Idle ELSE task[t]]
    /\ lock' = [lock EXCEPT ![p] = None]
    /\ UNCHANGED <<path, tmp, content, started, history>>

Step(t) ==
    \/ Acquire(t) \/ Open(t) \/ Load(t) \/ Create(t) \/ Fill(t) \/ Replace(t)

Next ==
    \/ \E t \in Threads : Start(t)
    \/ \E t \in Threads : Step(t)
    \/ \E p \in Processes : Crash(p)

Spec == Init /\ [][Next]_vars

\* A thread that can take a step takes it; operations need not be started.
LiveSpec == Spec /\ \A t \in Threads : WF_vars(Step(t))
-----------------------------------------------------------------------------
\* Did writes of two processes ever overlap?  Nothing keeps them from it.
Undisturbed == ~history.overlapped

\* Whatever died when, positions.json is absent or a complete journal: the
\* file is written under another name and moved (_write_payload).
FileIsWhole == path # None => content[path] # Torn

\* What a thread will write puts its position into what the file holds now:
\* no other upsert came between its read and its write (_storage_lock).
WritesAreCurrent ==
    \A t \in Threads :
        task[t].op = "upsert" /\ task[t].at \in {"create", "fill", "replace"} =>
            task[t].seen = Visible

\* What replace() is going to publish is the journal of the thread that
\* calls it, complete (write_text before replace).
PublishesOwnJournal ==
    \A t \in Threads : task[t].at = "replace" => tmp # None /\ content[tmp] = Payload(t)

\* Each operation goes its own way and carries what it will write.
TasksAreConsistent ==
    \A t \in Threads :
        /\ task[t].at # "idle" => task[t].op # "none"
        /\ task[t].op = "list" => task[t].at \in {"open", "load", "done"}
        /\ task[t].op = "upsert" => task[t].position \in Requests
        /\ task[t].op = "sync" => task[t].position \in Fixtures
        /\ task[t].at \in {"load", "fill"} => task[t].fd # None

\* The holder of the lock, and nobody else of its process, is inside.
LockIsHeld == \A t \in Threads : InSection(t) => lock[Home[t]] = t

\* _storage_lock is held by a thread of its process that is inside "with".
LocksAreInUse ==
    \A p \in Processes : lock[p] # None => Home[lock[p]] = p /\ InSection(lock[p])

\* Every id is there once, of positions that were handed in.
Remains(journal) ==
    /\ journal \in Seq(history.handed)
    /\ \A i, j \in DOMAIN journal : journal[i].id = journal[j].id => i = j

\* Whatever was torn or lost, nobody reads or writes anything else.
OnlyRemnants ==
    /\ IsFiniteSet(history.handed)
    /\ \A i \in Inodes : content[i] # Torn => Remains(content[i])
    /\ \A t \in Threads : Remains(task[t].seen)
    /\ \A t \in Threads : InSection(t) => task[t].position \in history.handed

\* One thread at a time is inside, whatever its process.
OneInside == \A t, u \in Threads : InSection(t) /\ InSection(u) => t = u

\* Who has which inode open: readers one that is no longer written, the
\* upsert the journal itself, the writer the temporary file.
FilesAreApart ==
    /\ path # None => path # tmp
    /\ \A t \in Threads :
          /\ task[t].at = "load" =>
                /\ task[t].fd # tmp /\ content[task[t].fd] # Torn
                /\ task[t].op = "upsert" => task[t].fd = path
          /\ task[t].at = "fill" =>
                tmp # None /\ task[t].fd = tmp /\ content[tmp] = Torn

\* The inductive invariant behind the properties: what holds of any number
\* of processes, and what holds as long as their writes do not overlap.
StorageInv ==
    /\ TypeOK /\ TasksAreConsistent /\ LockIsHeld /\ LocksAreInUse /\ OnlyRemnants
    /\ Undisturbed => OneInside /\ FilesAreApart /\ FileIsWhole
                      /\ WritesAreCurrent /\ PublishesOwnJournal

\* A position id is stored once, so that an upsert replaces all there is
\* under its id (the search in upsert), also when a journal of one command
\* is written back over that of another.
IdsAreUnique ==
    \A i, j \in DOMAIN Visible : Visible[i].id = Visible[j].id => i = j

\* A file that is being read does not change under its reader: readers take
\* no lock and rely on the move (read_text against _write_payload).
SnapshotsAreStable ==
    [][Undisturbed' => \A t \in Threads : task[t].at = "load" =>
          content'[task[t].fd] = content[task[t].fd]]_vars

\* The position a thread is storing.
Storing(t) == IF InSection(t) THEN task[t].position ELSE None

\* The files implement the journal, whatever threads, commands and crashes
\* do: it changes by whole upserts of what it held while writes of two
\* processes do not overlap, and is made of what was handed in when they do
\* (upsert, seed, _write_payload).
J == INSTANCE Journal WITH
    Writers <- Threads,
    journal <- IF history.overlapped THEN << >> ELSE Visible,
    inside <- [t \in Threads |-> Storing(t)]
ImplementsJournal == J!Spec /\ [](Visible \in J!Readable)

\* Every operation ends, with a result or with its process, also when
\* another command took the temporary file away (with _storage_lock).
OperationsEnd ==
    \A t \in Threads : task[t].at # "idle" ~> task[t].at \in {"idle", "done", "failed"}
=============================================================================
