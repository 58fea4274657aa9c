--------------------------- MODULE OptimisticStore ---------------------------
(***************************************************************************)
(* What the task store promises: every write is one indivisible step, and  *)
(* it replaces or removes exactly the record its caller saw last.  Only a  *)
(* record that is done is replaced by one that knows nothing of it.        *)
(* Whether the caller learns of its write is another matter: it may be     *)
(* told of a failure although the record was published.                    *)
(***************************************************************************)
EXTENDS Naturals

CONSTANTS Procs, Ids, Task, None, Corrupt

VARIABLES
    file,       \* id -> a record of Task, Corrupt or None
    seen        \* what each process saw last: an id and its record, or None

See(p, view) == seen' = [seen EXCEPT ![p] = view]
View(id, r)  == [id |-> id, record |-> r]

OInit == file \in [Ids -> {None, Corrupt}] /\ seen = [p \in Procs |-> None]

Look(p, id) == file[id] \in Task /\ See(p, View(id, file[id])) /\ UNCHANGED file
Forget(p)   == See(p, None) /\ UNCHANGED file

\* After a write the process has seen what it wrote, or was told of an error.
Write(p, id) ==
    /\ file'[id] \in Task \cup {None}
    /\ file' = [file EXCEPT ![id] = file'[id]]
    /\ UNCHANGED seen \/ See(p, IF file'[id] = None THEN None ELSE View(id, file'[id]))

Make(p, id) == file[id] = None /\ Write(p, id)

\* The record p saw is the one in the file: p may replace or remove it.
Replace(p) ==
    /\ seen[p] # None
    /\ LET id == seen[p].id
           old == seen[p].record
           new == file'[id]
       IN  /\ file[id] = old
           /\ Write(p, id)
           /\ \/ new = None \/ old.state = "done"
              \/ old.edits \subseteq new.edits /\ old.created = new.created

OStep(p) == Forget(p) \/ Replace(p) \/ \E id \in Ids : Look(p, id) \/ Make(p, id)

ONext == \E p \in Procs : OStep(p)
OSpec == OInit /\ [][ONext]_<<file, seen>>
===============================================================================
