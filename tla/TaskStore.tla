------------------------------ MODULE TaskStore ------------------------------
(***************************************************************************)
(* The task store (internal/task/store.go): one file per task, any number  *)
(* of dev processes.  A process reads records without a lock and keeps a   *)
(* copy; what it later writes is compared with the file under the store's  *)
(* lock and published by a rename.  A transaction (WithLock, WithMutation) *)
(* keeps the lock over several reads and writes.                           *)
(*                                                                         *)
(* A revision is a hash of everything a record holds, so a record stands   *)
(* for its own revision.  Timestamps are truncated to seconds: two writes  *)
(* within one second stamp the same time.                                  *)
(***************************************************************************)
EXTENDS Naturals

CONSTANTS
    Procs,      \* processes; each also is the mark its edits leave in a record
    Ids,        \* task ids
    States,     \* life-cycle states in use, "done" among them
    Operations, \* the store's methods that processes call
    MaxTime,    \* seconds the clock may count
    None,       \* no file, no copy, no revision, nobody
    Corrupt     \* a file that does not decode or validate

ASSUME StatesAssumption == States \subseteq {"hot", "warm", "cold", "done"}
ASSUME MaxTimeAssumption == MaxTime \in Nat \ {0}

VARIABLES
    file,       \* id -> the record, Corrupt or None
    lock,       \* the process that holds the store's lock, or None
    now,        \* the current second
    pc,         \* where each process is
    copy,       \* the task each process has in memory, or None
    call        \* the mutation each process has asked for, or None

vars == <<file, lock, now, pc, copy, call>>

Time == 0..MaxTime          \* 0 is the zero time of a task never saved
Task == [state : States, edits : SUBSET Procs, created : Time, updated : Time]
Copy == [id : Ids, task : Task, stored : Task \cup {None}]

Method == {"Save", "Create", "Update", "ReplaceDone", "SaveIfRevision",
           "ImportExact", "TxSave", "Delete", "DeleteIfRevision"}
InTx == {"Create", "Update", "SaveIfRevision", "TxSave", "DeleteIfRevision"}
ASSUME OperationsAssumption == Operations \subseteq Method
Call == [op : Operations, id : Ids, candidate : Task, expected : Task \cup {None},
         tx : BOOLEAN]

\* The two special values are no records.
ASSUME StoreNoneAssumption ==
    /\ None \notin Procs \cup Task \cup Copy \cup Call \cup [id : Ids, record : Task]
    /\ None # Corrupt /\ Corrupt \notin Task

Init ==
    /\ file \in [Ids -> {None, Corrupt}]
    /\ lock = None
    /\ now = 1
    /\ pc = [p \in Procs |-> "idle"]
    /\ copy = [p \in Procs |-> None]
    /\ call = [p \in Procs |-> None]

-------------------------------------------------------------------------------
(* In memory: reading a record, making a new task.                          *)

Tick == now < MaxTime /\ now' = now + 1 /\ UNCHANGED <<file, lock, pc, copy, call>>

\* Get and GetRecord take no lock; inside a transaction the caller has it.
Read(p, id) ==
    /\ pc[p] \in {"idle", "inside"}
    /\ file[id] \in Task
    /\ copy' = [copy EXCEPT ![p] = [id |-> id, task |-> file[id], stored |-> file[id]]]
    /\ UNCHANGED <<file, lock, now, pc, call>>

\* A new task in memory.  A caller that starts a finished task over keeps the
\* revision it read for ReplaceDone.
Draft(p, id) ==
    /\ pc[p] \in {"idle", "inside"}
    /\ \E s \in States, seen \in {None} \cup ({file[id]} \cap Task) :
          /\ seen # None => seen.state = "done"
          /\ copy' = [copy EXCEPT ![p] =
                [id |-> id, stored |-> seen,
                 task |-> [state |-> s, edits |-> {p}, created |-> 0, updated |-> 0]]]
    /\ UNCHANGED <<file, lock, now, pc, call>>

Restarts(p) == copy[p].stored # None /\ copy[p].task.created = 0
Askable(p) == IF Restarts(p) THEN {"ReplaceDone"} ELSE Operations \ {"ReplaceDone"}

\* The caller edits its copy and hands it to a method of the store.
Asked(p, op, s, tx) ==
    [op |-> op, id |-> copy[p].id, expected |-> copy[p].stored, tx |-> tx,
     candidate |-> [copy[p].task EXCEPT !.state = s, !.edits = @ \cup {p}]]

Request(p) ==
    /\ pc[p] = "idle" /\ copy[p] # None
    /\ \E op \in Operations \cap Askable(p), s \in States :
          call' = [call EXCEPT ![p] = Asked(p, op, s, FALSE)]
    /\ pc' = [pc EXCEPT ![p] = "waiting"]
    /\ UNCHANGED <<file, lock, now, copy>>

RequestInTx(p) ==
    /\ pc[p] = "inside" /\ copy[p] # None
    /\ \E op \in Operations \cap Askable(p) \cap InTx, s \in States :
          call' = [call EXCEPT ![p] = Asked(p, op, s, TRUE)]
    /\ pc' = [pc EXCEPT ![p] = "deciding"]
    /\ UNCHANGED <<file, lock, now, copy>>

-------------------------------------------------------------------------------
(* The lock.                                                                *)

BeginTx(p) ==
    /\ pc[p] = "idle"
    /\ pc' = [pc EXCEPT ![p] = "waiting"]
    /\ UNCHANGED <<file, lock, now, copy, call>>

\* Seeded fault: a method does not take the lock.
AcquireNothing(p) ==
    /\ pc[p] = "waiting"
    /\ lock = None \/ call[p] # None
    /\ lock' = IF call[p] = None THEN p ELSE lock
    /\ pc' = [pc EXCEPT ![p] = IF call[p] = None THEN "inside" ELSE "deciding"]
    /\ UNCHANGED <<file, now, copy, call>>

Acquire(p) ==
    /\ pc[p] = "waiting" /\ lock = None
    /\ lock' = p
    /\ pc' = [pc EXCEPT ![p] = IF call[p] = None THEN "inside" ELSE "deciding"]
    /\ UNCHANGED <<file, now, copy, call>>

Release(p) ==
    /\ lock' = IF lock = p THEN None ELSE lock
    /\ pc' = [pc EXCEPT ![p] = "idle"]
    /\ call' = [call EXCEPT ![p] = None]

\* A method that ends gives back the lock unless a transaction holds it.
Leave(p) ==
    /\ lock' = IF call[p].tx THEN lock ELSE None
    /\ pc' = [pc EXCEPT ![p] = IF call[p].tx THEN "inside" ELSE "idle"]
    /\ call' = [call EXCEPT ![p] = None]

EndTx(p) == pc[p] = "inside" /\ Release(p) /\ UNCHANGED <<file, now, copy>>

\* The context of a transaction ends while it polls for the lock.
Cancel(p) == pc[p] = "waiting" /\ Release(p) /\ UNCHANGED <<file, now, copy>>

-------------------------------------------------------------------------------
(* What each method compares and what it writes.                            *)

Matches(c, current) == current \in Task /\ c.expected = current
SameBirth(c, current) == c.candidate.created = current.created

\* Seeded faults: Save looks only at the creation time; a restart looks at
\* nothing; an import replaces what it finds.
AdmitsAnySave(c, current) ==
    CASE c.op = "Save"             -> current = None \/ (current \in Task /\ SameBirth(c, current))
      [] c.op = "Create"           -> current = None
      [] OTHER                     -> Matches(c, current)
AdmitsAnyRestart(c, current) ==
    IF c.op = "ReplaceDone" THEN current \in Task ELSE Matches(c, current) \/ current = None

Admits(c, current) ==
    CASE c.op = "Save"             -> IF current = None THEN c.expected = None
                                      ELSE Matches(c, current) /\ SameBirth(c, current)
      [] c.op = "SaveIfRevision"   -> Matches(c, current) /\ SameBirth(c, current)
      [] c.op = "Update"           -> Matches(c, current)
      [] c.op = "ReplaceDone"      -> Matches(c, current) /\ current.state = "done"
      [] c.op = "DeleteIfRevision" -> Matches(c, current)
      [] c.op = "Delete"           -> current # None
      [] c.op = "TxSave"           -> TRUE
      [] OTHER                     -> current = None    \* Create, ImportExact

Stamped(t) == [t EXCEPT !.created = IF @ = 0 THEN now ELSE @, !.updated = now]

Written(c) ==
    CASE c.op \in {"Delete", "DeleteIfRevision"} -> None
      [] c.op = "ImportExact" -> c.candidate
      [] c.op = "ReplaceDone" -> [c.candidate EXCEPT !.created = now, !.updated = now]
      [] OTHER                -> Stamped(c.candidate)

\* The comparison, in the call that will write.
Decide(p) ==
    /\ pc[p] = "deciding"
    /\ \/ /\ Admits(call[p], file[call[p].id])
          /\ pc' = [pc EXCEPT ![p] = "writing"]
          /\ UNCHANGED <<lock, call>>
       \/ ~Admits(call[p], file[call[p].id]) /\ Leave(p)
    /\ UNCHANGED <<file, now, copy>>

\* What the caller has in memory after its call succeeded.
CopyAfter(c, written, old) ==
    CASE written = None        -> None
      [] c.op = "ImportExact"  -> old
      [] OTHER                 -> [id |-> c.id, task |-> written, stored |-> written]

\* The rename: not reached, done, or done with an error because the directory
\* could not be synced.  Only a call that returns no error updates the copy.
Publish(p) ==
    /\ pc[p] = "writing"
    /\ Leave(p)
    /\ LET c == call[p] IN
       \/ UNCHANGED <<file, copy>>
       \/ /\ file' = [file EXCEPT ![c.id] = Written(c)]
          /\ \/ UNCHANGED copy
             \/ copy' = [copy EXCEPT ![p] = CopyAfter(c, Written(c), @)]
    /\ UNCHANGED now

Crash(p) ==
    /\ pc[p] # "idle"
    /\ Release(p)
    /\ copy' = [copy EXCEPT ![p] = None]
    /\ UNCHANGED <<file, now>>

Step(p) ==
    \/ \E id \in Ids : Read(p, id) \/ Draft(p, id)
    \/ Request(p) \/ RequestInTx(p) \/ BeginTx(p) \/ Acquire(p) \/ EndTx(p)
    \/ Cancel(p) \/ Decide(p) \/ Publish(p) \/ Crash(p)

Next == Tick \/ \E p \in Procs : Step(p)

Spec == Init /\ [][Next]_vars

-------------------------------------------------------------------------------
(* Properties.                                                              *)

\* The type of every variable.
TypeOK ==
    /\ file \in [Ids -> Task \cup {None, Corrupt}]
    /\ lock \in Procs \cup {None}
    /\ now \in Time
    /\ pc \in [Procs -> {"idle", "waiting", "inside", "deciding", "writing"}]
    /\ copy \in [Procs -> Copy \cup {None}]
    /\ call \in [Procs -> Call \cup {None}]

\* What a method compared is still so when it renames its file into place:
\* every writer takes the lock, and keeps it from the comparison on
\* (Save's "legacy callers cannot silently overwrite a newer process's mutation").
AdmittedStaysTrue == \A p \in Procs :
    pc[p] = "writing" => Admits(call[p], file[call[p].id])

\* No edit of a living task is lost: whoever writes it, however late, has seen
\* every edit that was written before; and a task keeps its creation time until
\* it is done and started over.
KeepsLiving == \A id \in Ids :
    LET old == file[id]
        new == file'[id]
    IN  old \in Task /\ new \in Task /\ new # old /\ old.state # "done"
        => old.edits \subseteq new.edits /\ old.created = new.created
NoUpdateLost == [][KeepsLiving]_vars

\* A file that does not decode is never overwritten by a new task of its id.
KeepsCorrupt == \A id \in Ids : file[id] = Corrupt => file'[id] \in {Corrupt, None}
CorruptKept == [][KeepsCorrupt]_vars

\* The store as its callers see it: module OptimisticStore.
Seen(p) == IF copy[p] = None THEN None
           ELSE IF copy[p].stored = None THEN None
           ELSE [id |-> copy[p].id, record |-> copy[p].stored]
Optimistic == INSTANCE OptimisticStore WITH seen <- [p \in Procs |-> Seen(p)]
ImplementsOptimistic == Optimistic!OSpec
===============================================================================
