------------------------------- MODULE Trials -------------------------------
(* Trial directories and their catalog records on one host                   *)
(* (internal/experiment, internal/catalog).                                  *)
(*                                                                           *)
(* A record says where a directory is; a directory changes place by a rename *)
(* the catalog cannot take part in.  A process therefore publishes a move    *)
(* intent under the catalog's lock, renames, and finalizes the record; all   *)
(* that under a lease on the record, which dies with the process.  Whoever   *)
(* lists trials repairs the intents of dead processes, and enrols the        *)
(* directories no record matches, from observations made before it has the   *)
(* catalog's lock.  Removal holds that lock from its intent to its end.      *)
(*                                                                           *)
(* A directory is its identity (device and inode, with its Git storage).     *)
(* Left out: tags, notes, origins and remote matches, deprecation, linked    *)
(* worktrees, records of other hosts, and permanent removal, which differs   *)
(* from the trash in that nothing comes back.                                *)
EXTENDS Integers, FiniteSets, Functions

CONSTANTS Id,           \* catalog identities, never used twice
          Name,         \* names directly under the root of the trials
          Project,      \* names under the root of the projects
          Proc,         \* processes of dev on the host
          Ops,          \* the commands they run
          AnyTarget,    \* whether restore is given --to
          None,
          MaxDirs,      \* directories ever made
          MaxTouches,   \* directories displaced behind dev's back
          MaxCrashes    \* processes killed

ASSUME TrialsAssumption ==
  /\ None \notin Id \cup Name \cup Project \cup 1 .. MaxDirs
  /\ Ops \subseteq {"archive", "restore", "graduate", "demote", "remove", "reassociate",
                    "attach", "forget", "list"}
  /\ AnyTarget \in BOOLEAN
  /\ MaxDirs \in Nat /\ MaxTouches \in Nat /\ MaxCrashes \in Nat

VARIABLES fs,       \* the directory at each path
          rec,      \* the catalog
          journal,  \* the last removal journal of each record
          trash,    \* the directories in the operator's trash
          proc,     \* what each process is doing
          own,      \* ghost: the directory each record was made for
          made, touches, crashes
vars == <<fs, rec, journal, trash, proc, own, made, touches, crashes>>

Dir == 1 .. MaxDirs
Visible == {<<"try", n>> : n \in Name}
Archive(i, n) == <<"archive", i, n>>
Reserved(i) == {Archive(i, n) : n \in Name}
Hidden == UNION {Reserved(i) : i \in Id}
Projects == {<<"project", n>> : n \in Project}
Path == Visible \cup Hidden \cup Projects

Intent == [op : {"archive", "restore", "graduate", "demote", "remove"},
           src : Path, dst : Path \cup {None}, dir : Dir \cup {None}]
Record == [state : {"present", "archived", "evicted"}, phase : {"active", "graduated"},
           path : Path \cup {None}, restore : Path \cup {None}, intent : Intent \cup {None}]
Journal == [outcome : {"pending", "removed", "reassociated", "forgotten"},
            src : Path, dir : Dir \cup {None}]

ASSUME NoneAssumption ==
  None \notin Path \cup Intent \cup Record \cup Journal

At(pc, i, m) == [pc |-> pc, id |-> i, plan |-> m, seen |-> {}]
Idle == At("idle", None, None)
Moving == {"begun", "checked", "moved", "undo", "undone"}
Removing == {"marked", "trashed", "recorded"}
Process == [pc : {"idle", "probed"} \cup Moving \cup Removing, id : Id \cup {None},
            plan : Intent \cup {None}, seen : SUBSET (Visible \X Dir)]

Present(path) == fs[path] # None
Exists(i) == rec[i] # None
Trial(i) == Exists(i) /\ rec[i].phase = "active"
\* Seeded fault: no lease is taken for a move.
LeaseUnasked(i) == i \in Id
LeaseFree(i) == \A p \in Proc : proc[p].pc \in Moving => proc[p].id # i
CatalogFree == \A p \in Proc : proc[p].pc \notin Removing

Claims(r) == {r.path, r.restore} \cup IF r.intent = None THEN {} ELSE {r.intent.src, r.intent.dst}
Claimed(i, path) == \E j \in Id \ {i} : Exists(j) /\ path \in Claims(rec[j])
Matches(path) == {i \in Id : Exists(i) /\ path \in {rec[i].path, rec[i].restore}}

Init == /\ fs = [path \in Path |-> None] /\ rec = [i \in Id |-> None]
        /\ journal = [i \in Id |-> None] /\ own = [i \in Id |-> None]
        /\ proc = [p \in Proc |-> Idle] /\ trash = {}
        /\ made = 0 /\ touches = 0 /\ crashes = 0

Goes(p, pc) == proc' = [proc EXCEPT ![p].pc = pc]
Ends(p) == proc' = [proc EXCEPT ![p] = Idle]
Records(i, r) == rec' = [rec EXCEPT ![i] = r]
Bounds == <<made, touches, crashes>>

-----------------------------------------------------------------------------
(* Intents.                                                                  *)
\* Seeded fault: the directory at the place is taken for the reviewed one.
SamePlace(m, path) == Present(path)
SameDirectory(m, path) == m.dir = None \/ fs[path] = m.dir

Finalized(r) ==
  LET moved == [r EXCEPT !.intent = None, !.path = r.intent.dst, !.restore = None] IN
  CASE r.intent.op = "archive"  -> [moved EXCEPT !.state = "archived", !.restore = r.intent.src]
    [] r.intent.op = "restore"  -> [moved EXCEPT !.state = "present"]
    [] r.intent.op = "graduate" -> [moved EXCEPT !.state = "present", !.phase = "graduated"]
    [] r.intent.op = "demote"   -> [moved EXCEPT !.state = "present", !.phase = "active"]

Evicted(r) == [r EXCEPT !.state = "evicted", !.path = None, !.intent = None,
                        !.restore = IF @ = None THEN r.intent.src ELSE @]

NotMoved(m) == Present(m.src) /\ ~Present(m.dst) /\ SameDirectory(m, m.src)
\* Seeded fault: only moves of reviewed directories are finished.
WasMovedReviewed(m) == ~Present(m.src) /\ m.dir # None /\ fs[m.dst] = m.dir
WasMoved(m) == ~Present(m.src) /\ Present(m.dst) /\ SameDirectory(m, m.dst)
WasRemoved(i, m) == journal[i].outcome = "removed" /\ ~Present(m.src)

\* Seeded fault: the destination of a pending move is not looked at.
ReconciledEagerly(i) ==
  LET r == rec[i] m == r.intent IN
  IF m.op = "remove" THEN IF WasRemoved(i, m) THEN Evicted(r) ELSE r
  ELSE IF Present(m.src) THEN [r EXCEPT !.intent = None]
  ELSE IF WasMoved(m) THEN Finalized(r)
  ELSE r
\* A record whose intent is reconciled; both paths present, or neither, keep it.
Reconciled(i) ==
  LET r == rec[i] m == r.intent IN
  IF m.op = "remove" THEN IF WasRemoved(i, m) THEN Evicted(r) ELSE r
  ELSE IF NotMoved(m) THEN [r EXCEPT !.intent = None]
  ELSE IF WasMoved(m) THEN Finalized(r)
  ELSE r

\* Listing repairs an intent once it has the lease the mover holds.
Repair(i) ==
  /\ Exists(i) /\ rec[i].intent # None
  /\ LeaseFree(i) /\ CatalogFree
  /\ Reconciled(i) # rec[i]
  /\ Records(i, Reconciled(i))
  /\ UNCHANGED <<fs, journal, trash, proc, own, Bounds>>
-----------------------------------------------------------------------------
(* Moves.  Archive and restore name a record; graduation and demotion also   *)
(* bind the directory the operator reviewed.                                 *)
Source(i, op) ==
  CASE op = "archive"  -> Trial(i) /\ rec[i].state = "present" /\ rec[i].path \in Visible
    [] op = "restore"  -> Trial(i) /\ rec[i].state = "archived" /\ rec[i].path \in Reserved(i)
    [] op = "graduate" -> Trial(i) /\ rec[i].state \in {"present", "archived"}
    [] op = "demote"   -> Exists(i) /\ rec[i].phase = "graduated" /\ rec[i].state = "present"

Targets(i, op) ==
  CASE op = "archive"  -> {Archive(i, rec[i].path[2])}
    [] op = "restore"  -> IF AnyTarget THEN Visible ELSE {rec[i].restore} \ {None}
    [] op = "graduate" -> Projects
    [] op = "demote"   -> {v \in Visible : ~Claimed(i, v) /\ ~Claimed(i, rec[i].path)}

Reviewed(i, op) == IF op \in {"graduate", "demote"} THEN fs[rec[i].path] ELSE None

Begin(p, i, op) ==
  /\ proc[p].pc = "idle" /\ op \in Ops
  /\ LeaseFree(i) /\ CatalogFree
  /\ Source(i, op) /\ rec[i].intent = None
  /\ \E dst \in Targets(i, op) :
       LET m == [op |-> op, src |-> rec[i].path, dst |-> dst, dir |-> Reviewed(i, op)] IN
       /\ Present(m.src) /\ ~Present(dst)
       /\ Records(i, [rec[i] EXCEPT !.intent = m])
       /\ proc' = [proc EXCEPT ![p] = At("begun", i, m)]
  /\ UNCHANGED <<fs, journal, trash, own, Bounds>>

\* The last looks before the rename; the directory may still be exchanged after.
Check(p) ==
  LET i == proc[p].id m == proc[p].plan IN
  /\ proc[p].pc = "begun"
  /\ Exists(i) /\ rec[i].path = m.src
  /\ Present(m.src) /\ ~Present(m.dst) /\ SameDirectory(m, m.src)
  /\ Goes(p, "checked")
  /\ UNCHANGED <<fs, rec, journal, trash, own, Bounds>>

\* Exclusive: the rename refuses an occupied destination.
Rename(src, dst) == /\ Present(src) /\ ~Present(dst)
                    /\ fs' = [fs EXCEPT ![src] = None, ![dst] = fs[src]]

Move(p) ==
  /\ proc[p].pc = "checked"
  /\ Rename(proc[p].plan.src, proc[p].plan.dst)
  /\ Goes(p, "moved")
  /\ UNCHANGED <<rec, journal, trash, own, Bounds>>

\* A refused check or a failed rename: the mover reconciles its own intent.
FailMove(p) ==
  LET i == proc[p].id IN
  /\ proc[p].pc \in {"begun", "checked"} /\ CatalogFree
  /\ rec' = IF Exists(i) /\ rec[i].intent # None THEN [rec EXCEPT ![i] = Reconciled(i)] ELSE rec
  /\ Ends(p)
  /\ UNCHANGED <<fs, journal, trash, own, Bounds>>

Finalize(p) ==
  LET i == proc[p].id IN
  /\ proc[p].pc = "moved" /\ CatalogFree
  /\ Exists(i) /\ rec[i].intent # None /\ WasMoved(rec[i].intent)
  /\ Records(i, Finalized(rec[i]))
  /\ Ends(p)
  /\ UNCHANGED <<fs, journal, trash, own, Bounds>>

\* The record refuses, or the write fails: the directory goes back.
FinalizeFails(p) ==
  /\ proc[p].pc = "moved"
  /\ Goes(p, "undo")
  /\ UNCHANGED <<fs, rec, journal, trash, own, Bounds>>

RollBack(p) ==
  LET m == proc[p].plan IN
  /\ proc[p].pc = "undo"
  /\ SameDirectory(m, m.dst)
  /\ Rename(m.dst, m.src)
  /\ Goes(p, "undone")
  /\ UNCHANGED <<rec, journal, trash, own, Bounds>>

RollBackRefused(p) ==
  LET m == proc[p].plan IN
  /\ proc[p].pc = "undo"
  /\ Present(m.src) \/ ~Present(m.dst) \/ ~SameDirectory(m, m.dst)
  /\ Ends(p)
  /\ UNCHANGED <<fs, rec, journal, trash, own, Bounds>>

RepairOwn(p) ==
  LET i == proc[p].id IN
  /\ proc[p].pc = "undone" /\ CatalogFree
  /\ rec' = IF Exists(i) /\ rec[i].intent # None THEN [rec EXCEPT ![i] = Reconciled(i)] ELSE rec
  /\ Ends(p)
  /\ UNCHANGED <<fs, journal, trash, own, Bounds>>

-----------------------------------------------------------------------------
(* Listing: what is on disk is looked at first, the catalog is locked after. *)
Probe(p, i) ==
  /\ proc[p].pc = "idle"
  /\ \/ "list" \in Ops /\ i = None
     \/ "attach" \in Ops /\ i # None
  /\ \E seen \in SUBSET {<<v, fs[v]>> : v \in {w \in Visible : Present(w)}} :
       /\ IF i = None THEN seen = {<<v, fs[v]>> : v \in {w \in Visible : Present(w)}}
          ELSE Cardinality(seen) = 1
       /\ proc' = [proc EXCEPT ![p] = [At("probed", i, None) EXCEPT !.seen = seen]]
  /\ UNCHANGED <<fs, rec, journal, trash, own, Bounds>>

Unused(i) == rec[i] = None /\ journal[i] = None /\ \A p \in Proc : proc[p].id # i
Owned(d) == \E i \in Id : Exists(i) /\ own[i] = d

\* The directories one after another; one that a record matches is left as it is,
\* and so is one whose record cannot be written.
Enrol(p) ==
  /\ proc[p].pc = "probed" /\ proc[p].id = None /\ CatalogFree
  /\ \E s \in proc[p].seen :
       /\ proc' = [proc EXCEPT ![p].seen = @ \ {s}]
       /\ \/ UNCHANGED <<rec, own>>
          \/ /\ Matches(s[1]) = {}
             /\ \E i \in Id :
                  /\ Unused(i)
                  /\ Records(i, [state |-> "present", phase |-> "active", path |-> s[1],
                                 restore |-> None, intent |-> None])
                  /\ own' = [own EXCEPT ![i] = IF Owned(s[2]) THEN None ELSE s[2]]
  /\ UNCHANGED <<fs, journal, trash, Bounds>>

Listed(p) ==
  /\ proc[p].pc = "probed" /\ proc[p].id = None /\ proc[p].seen = {}
  /\ Ends(p)
  /\ UNCHANGED <<fs, rec, journal, trash, own, Bounds>>

\* The operator names a record whose directory is missing and one that exists.
Attach(p) ==
  LET i == proc[p].id v == (CHOOSE s \in proc[p].seen : TRUE)[1]
      d == (CHOOSE s \in proc[p].seen : TRUE)[2] IN
  /\ proc[p].pc = "probed" /\ i # None /\ CatalogFree
  /\ IF /\ Trial(i) /\ rec[i].intent = None
        /\ rec[i].path # v => rec[i].state = "present" /\ ~Present(rec[i].path)
        /\ Matches(v) \subseteq {i}
     THEN /\ Records(i, [rec[i] EXCEPT !.state = "present", !.path = v, !.restore = None])
          /\ own' = [own EXCEPT ![i] = IF Owned(d) THEN @ ELSE d]
     ELSE UNCHANGED <<rec, own>>
  /\ Ends(p)
  /\ UNCHANGED <<fs, journal, trash, Bounds>>

-----------------------------------------------------------------------------
(* Removal, under the catalog's lock from the intent to the end.             *)
Removable(i) ==
  /\ Trial(i) /\ rec[i].state # "evicted" /\ rec[i].intent = None
  /\ Present(rec[i].path) /\ ~Claimed(i, rec[i].path)
  /\ rec[i].path \in Visible \cup Reserved(i)

Mark(p, i) ==
  /\ proc[p].pc = "idle" /\ "remove" \in Ops
  /\ CatalogFree /\ Removable(i)
  /\ LET m == [op |-> "remove", src |-> rec[i].path, dst |-> None, dir |-> fs[rec[i].path]] IN
     /\ Records(i, [rec[i] EXCEPT !.intent = m])
     /\ journal' = [journal EXCEPT ![i] = [outcome |-> "pending", src |-> m.src, dir |-> m.dir]]
     /\ proc' = [proc EXCEPT ![p] = At("marked", i, m)]
  /\ UNCHANGED <<fs, trash, own, Bounds>>

Trash(p) ==
  LET m == proc[p].plan IN
  /\ proc[p].pc = "marked" /\ fs[m.src] = m.dir
  /\ fs' = [fs EXCEPT ![m.src] = None] /\ trash' = trash \cup {m.dir}
  /\ Goes(p, "trashed")
  /\ UNCHANGED <<rec, journal, own, Bounds>>

\* The trash reports an error, or a last look refuses: nothing is tried again.
RemovalFails(p) ==
  /\ proc[p].pc \in {"marked", "trashed"}
  /\ Ends(p)
  /\ UNCHANGED <<fs, rec, journal, trash, own, Bounds>>

RecordRemoval(p) ==
  LET i == proc[p].id IN
  /\ proc[p].pc = "trashed" /\ ~Present(proc[p].plan.src)
  /\ journal' = [journal EXCEPT ![i].outcome = "removed"]
  /\ Goes(p, "recorded")
  /\ UNCHANGED <<fs, rec, trash, own, Bounds>>

FinishRemoval(p) ==
  LET i == proc[p].id IN
  /\ proc[p].pc = "recorded"
  /\ Records(i, Evicted(rec[i]))
  /\ Ends(p)
  /\ UNCHANGED <<fs, journal, trash, own, Bounds>>

\* What the operator took out of the trash is associated with its record again.
Pending(i) == rec[i].intent # None /\ rec[i].intent.op = "remove"
Reassociate(i, path) ==
  /\ "reassociate" \in Ops /\ CatalogFree
  /\ Trial(i) /\ journal[i] # None
  /\ \/ Pending(i)
     \/ rec[i].state = "evicted" /\ rec[i].intent = None /\ journal[i].outcome = "removed"
  /\ path \in Visible \cup Reserved(i) /\ fs[path] = journal[i].dir
  /\ Matches(path) \subseteq {i}
  /\ Records(i, [rec[i] EXCEPT !.state = IF path \in Visible THEN "present" ELSE "archived",
                               !.path = path, !.restore = IF path \in Visible THEN None ELSE @,
                               !.intent = None])
  /\ \/ journal' = [journal EXCEPT ![i].outcome = "reassociated"]
     \/ UNCHANGED journal    \* killed, or the write failed, in between
  /\ UNCHANGED <<fs, trash, proc, own, Bounds>>

\* A record of a directory that is gone and that nothing can bring back.
Forget(i) ==
  /\ "forget" \in Ops /\ CatalogFree
  /\ Trial(i) /\ rec[i].intent = None /\ rec[i].state = "present"
  /\ rec[i].path \in Visible /\ ~Present(rec[i].path)
  /\ ~Claimed(i, rec[i].path) /\ journal[i] = None
  /\ \A j \in Id : journal[j] # None /\ journal[j].src = rec[i].path => journal[j].outcome = "forgotten"
  /\ Records(i, None) /\ own' = [own EXCEPT ![i] = None]
  /\ journal' = [journal EXCEPT ![i] = [outcome |-> "forgotten", src |-> rec[i].path, dir |-> None]]
  /\ UNCHANGED <<fs, trash, proc, Bounds>>

-----------------------------------------------------------------------------
(* The operator and the machine.                                             *)
\* A new directory, made by dev or by hand; dev creates through Enrol too.
Make(v) ==
  /\ made < MaxDirs /\ ~Present(v)
  /\ made' = made + 1 /\ fs' = [fs EXCEPT ![v] = made + 1]
  /\ UNCHANGED <<rec, journal, trash, proc, own, touches, crashes>>

\* Put back from the trash to where it was.
PutBack(i) ==
  /\ journal[i] # None /\ journal[i].dir \in trash /\ ~Present(journal[i].src)
  /\ fs' = [fs EXCEPT ![journal[i].src] = journal[i].dir]
  /\ trash' = trash \ {journal[i].dir}
  /\ UNCHANGED <<rec, journal, proc, own, Bounds>>

\* Directories are moved, swapped or deleted under dev.
Displace(path) ==
  /\ touches < MaxTouches /\ Present(path) /\ touches' = touches + 1
  /\ \/ \E to \in Path : fs' = [fs EXCEPT ![path] = fs[to], ![to] = fs[path]] /\ to # path
     \/ fs' = [fs EXCEPT ![path] = None]
  /\ UNCHANGED <<rec, journal, trash, proc, own, made, crashes>>

Crash(p) ==
  /\ crashes < MaxCrashes /\ proc[p].pc # "idle" /\ crashes' = crashes + 1
  /\ Ends(p)
  /\ UNCHANGED <<fs, rec, journal, trash, own, made, touches>>

Onward(p) ==
  \/ Check(p) \/ Move(p) \/ FailMove(p) \/ Finalize(p) \/ FinalizeFails(p)
  \/ RollBack(p) \/ RollBackRefused(p) \/ RepairOwn(p)
  \/ Enrol(p) \/ Listed(p) \/ Attach(p)
  \/ Trash(p) \/ RemovalFails(p) \/ RecordRemoval(p) \/ FinishRemoval(p)

Next ==
  \/ \E p \in Proc, i \in Id, op \in {"archive", "restore", "graduate", "demote"} : Begin(p, i, op)
  \/ \E p \in Proc : Onward(p) \/ Crash(p)
  \/ \E p \in Proc, i \in Id \cup {None} : Probe(p, i)
  \/ \E p \in Proc, i \in Id : Mark(p, i)
  \/ \E i \in Id : Repair(i) \/ Forget(i) \/ PutBack(i)
  \/ \E i \in Id, path \in Path : Reassociate(i, path)
  \/ \E v \in Visible : Make(v)
  \/ \E path \in Path : Displace(path)

Spec == Init /\ [][Next]_vars

\* A live process goes on, and somebody lists the trials again and again.
Fairness == /\ \A p \in Proc : WF_vars(Onward(p))
            /\ \A i \in Id : WF_vars(Repair(i))
FairSpec == Spec /\ Fairness

-----------------------------------------------------------------------------
(* Records, journals and processes keep their shape (catalog.Entry).         *)
TypeOK ==
  /\ fs \in [Path -> Dir \cup {None}]
  /\ \A i \in Id : rec[i] = None \/ rec[i] \in Record
  /\ \A i \in Id : journal[i] = None \/ journal[i] \in Journal
  /\ \A p \in Proc : proc[p] \in Process
  /\ trash \subseteq Dir /\ own \in [Id -> Dir \cup {None}]

(* The catalog always says where a trial's directory is: at the recorded     *)
(* path, at one end of the pending move, or in the trash under a journal     *)
(* that names it, whatever dies or fails on the way (transitions.go,         *)
(* removal.go).  As long as nobody moves directories behind dev's back.      *)
Located(i) ==
  LET r == rec[i] m == r.intent d == own[i] IN
  IF m # None
  THEN \/ fs[m.src] = d
       \/ IF m.op = "remove" THEN journal[i].dir = d /\ d \in trash ELSE fs[m.dst] = d
  ELSE IF r.state = "evicted"
  THEN /\ journal[i].dir = d /\ journal[i].outcome = "removed"
       /\ d \in trash \/ fs[journal[i].src] = d
  ELSE fs[r.path] = d
Tracked == touches = 0 => \A i \in Id : Exists(i) /\ own[i] # None => Located(i)

(* The intent of a move under way belongs to the process that moves: no      *)
(* listing clears or finalizes it, no other command replaces it              *)
(* (withMoveLease, beginMoveIntent, reconcileDemoteIntent).                  *)
LiveIntentKept ==
  \A p \in Proc : proc[p].pc \in (Moving \cup Removing) =>
    Exists(proc[p].id) /\ rec[proc[p].id].intent = proc[p].plan

(* One directory, one record: enrolment never makes a second record of a     *)
(* directory that has one (inventory.go, Reconcile).  A listing that looked  *)
(* before a graduation and enrols after it makes one.                        *)
OneRecord == \A i \in Id : Exists(i) => own[i] # None

(* A record turns into a project's, or back, only together with the very     *)
(* directory that was reviewed, also when directories are exchanged during   *)
(* the move and when a listing finishes what a dead process began            *)
(* (verifyDemoteDestination).                                                *)
AsReviewed ==
  \A i \in Id : Exists(i) /\ rec'[i] # None /\ rec'[i].phase # rec[i].phase =>
    /\ rec[i].intent # None /\ rec[i].intent.dir # None
    /\ fs[rec'[i].path] = rec[i].intent.dir
ReviewedOnly == [][AsReviewed]_vars

(* An interrupted move is settled by listing, unless both or neither of its  *)
(* places hold a directory; a removal waits for the operator                 *)
(* (ReconcileMoveIntents).                                                   *)
Ambiguous(m) == Present(m.src) <=> Present(m.dst)
Settles ==
  \A i \in Id :
    (Exists(i) /\ rec[i].intent # None /\ rec[i].intent.op # "remove") ~>
      (~Exists(i) \/ rec[i].intent = None \/ Ambiguous(rec[i].intent))
-----------------------------------------------------------------------------
=============================================================================
