-------------------------- MODULE DirectoriesProofs --------------------------
(***************************************************************************)
(* Proofs about trial directories and the fragments of the list of         *)
(* remotes, for all sets of processes, identities, names and aliases.      *)
(*                                                                         *)
(* Trials: the process that moves or removes has its record and the intent *)
(* in it to itself (Leased); a record becomes a project's only through an  *)
(* intent that names the reviewed directory (Shaped).  Where directories   *)
(* are needs more (Settled): every trial has its one visible place and its *)
(* own names in the archive, no other record's (Region); its directory is  *)
(* in one of them or in the trash, under the journal that names it         *)
(* (Located); a process at work knows in which (Placed); and whoever lists *)
(* saw directories that are still there or have a record (Seen).  A step   *)
(* touches one record and its places (Touches), so that the others keep    *)
(* what they have (OthersGood).                                            *)
(*                                                                         *)
(* Fragments: what lies under the private name of a command is known from  *)
(* its position (Bare, Kept), and while the user changes nothing also what *)
(* is in the list, and that the new host still fits in (Undisturbed).      *)
(***************************************************************************)
EXTENDS MCDirectories, TLAPS, FiniteSetTheorems

-----------------------------------------------------------------------------
(***************************************************************************)
(* Trial directories.                                                      *)
(***************************************************************************)

TrialTypes ==
  /\ fs \in [Path -> Dir \cup {None}]
  /\ rec \in [Id -> Record \cup {None}]
  /\ journal \in [Id -> Journal \cup {None}]
  /\ proc \in [Proc -> Process]
  /\ own \in [Id -> Dir \cup {None}] /\ trash \subseteq Dir /\ made \in 0 .. MaxDirs

\* The commands that have begun to change a record.
Live == {p \in Proc : proc[p].pc \in Moving \cup Removing}

\* The process that moves or removes has the record to itself, and its intent.
Leased ==
  \A p \in Live :
    /\ proc[p].id \in Id /\ Exists(proc[p].id) /\ rec[proc[p].id].intent = proc[p].plan
    /\ proc[p].plan \in Intent
    /\ proc[p].plan.op = "remove" <=> proc[p].pc \in Removing
    /\ proc[p].pc \in Removing => journal[proc[p].id] # None /\ proc[p].plan.dir # None
    /\ \A q \in Live \ {p} : proc[q].id # proc[p].id

\* A record says where its directory is, and an intent where it goes; a
\* graduation or a demotion is of a directory.
Shaped(r) ==
  /\ r.state # "evicted" => r.path # None
  /\ r.intent # None /\ r.intent.op # "remove" => r.intent.dst # None
  /\ r.intent # None /\ r.intent.op \in {"graduate", "demote"} => r.intent.dir # None
AllShaped == \A i \in Id : Exists(i) => Shaped(rec[i])

\* Who attaches has looked at the directory.
Looked == \A p \in Proc : proc[p].pc = "probed" /\ proc[p].id # None => proc[p].seen # {}

TrialInv == Looked /\ TrialTypes /\ Leased /\ AllShaped

LEMMA PathTypes ==
  /\ Visible \subseteq Path /\ Projects \subseteq Path /\ \A i \in Id : Reserved(i) \subseteq Path
  /\ \A i \in Id : \A v \in Visible : Archive(i, v[2]) \in Reserved(i)
BY DEF Visible, Path, Projects, Reserved, Hidden, Archive

LEMMA FinalizedEffect ==
  ASSUME NEW r \in Record, r.intent \in Intent, r.intent.op # "remove"
  PROVE  /\ Finalized(r) \in Record /\ Finalized(r).intent = None
         /\ Finalized(r).path = r.intent.dst
         /\ Finalized(r).phase # r.phase => r.intent.op \in {"graduate", "demote"}
         /\ Finalized(r).restore = IF r.intent.op = "archive" THEN r.intent.src ELSE None
         /\ Finalized(r).state = IF r.intent.op = "archive" THEN "archived" ELSE "present"
         /\ r.intent.op \in {"archive", "restore"} => Finalized(r).phase = r.phase
BY DEF Finalized, Record, Intent

LEMMA EvictedEffect ==
  ASSUME NEW r \in Record, r.intent \in Intent
  PROVE  /\ Evicted(r) \in Record /\ Evicted(r).intent = None
         /\ Evicted(r).phase = r.phase /\ Evicted(r).state = "evicted" /\ Evicted(r).path = None
         /\ Evicted(r).restore = IF r.restore = None THEN r.intent.src ELSE r.restore
BY DEF Evicted, Record, Intent

LEMMA ClearedEffect ==
  ASSUME NEW r \in Record, NEW m \in Intent \cup {None}
  PROVE  LET s == [r EXCEPT !.intent = m] IN
         s \in Record /\ s.intent = m /\ s.phase = r.phase /\ s.path = r.path
           /\ s.restore = r.restore /\ s.state = r.state
BY DEF Record

\* Reconciliation keeps a record, clears its intent, or carries the intent out.
LEMMA ReconciledCases ==
  ASSUME TrialTypes, NEW i \in Id, Exists(i), rec[i].intent # None
  PROVE  LET r == rec[i] m == rec[i].intent s == Reconciled(i) IN
         \/ s = r
         \/ m.op # "remove" /\ NotMoved(m) /\ s = [r EXCEPT !.intent = None]
         \/ m.op # "remove" /\ WasMoved(m) /\ s = Finalized(r)
         \/ m.op = "remove" /\ WasRemoved(i, m) /\ s = Evicted(r)
BY DEF Reconciled

LEMMA ReconciledEffect ==
  ASSUME TrialTypes, NEW i \in Id, Exists(i), rec[i].intent # None
  PROVE  /\ rec[i] \in Record /\ rec[i].intent \in Intent
         /\ Reconciled(i) \in Record
         /\ Reconciled(i) = rec[i] \/ Reconciled(i).intent = None
         /\ Reconciled(i).phase # rec[i].phase =>
              /\ rec[i].intent.op \in {"graduate", "demote"}
              /\ Reconciled(i).path = rec[i].intent.dst /\ WasMoved(rec[i].intent)
<1>1. rec[i] \in Record /\ rec[i].intent \in Intent
  BY DEF TrialTypes, Exists, Record
<1> DEFINE r == rec[i]
<1>2. r.intent.op # "remove" =>
        /\ Finalized(r) \in Record /\ Finalized(r).intent = None
        /\ Finalized(r).path = r.intent.dst
        /\ Finalized(r).phase # r.phase => r.intent.op \in {"graduate", "demote"}
  BY <1>1, FinalizedEffect
<1>3. Evicted(r) \in Record /\ Evicted(r).intent = None /\ Evicted(r).phase = r.phase
  BY <1>1, EvictedEffect
<1>4. LET s == [r EXCEPT !.intent = None] IN
      s \in Record /\ s.intent = None /\ s.phase = r.phase
  BY <1>1, ClearedEffect
<1> QED
  BY <1>1, <1>2, <1>3, <1>4, ReconciledCases

USE TrialsAssumption, NoneAssumption

LEMMA BegunIntent ==
  ASSUME TrialInv, NEW p \in Proc, NEW i \in Id,
         NEW move \in {"archive", "restore", "graduate", "demote"}, Begin(p, i, move)
  PROVE  \E m \in Intent :
           /\ m.op = move /\ m.src = rec[i].path /\ m.dst \in Targets(i, move) /\ m.dst \in Path
           /\ m.dir = Reviewed(i, move) /\ Present(m.src) /\ ~Present(m.dst)
           /\ rec' = [rec EXCEPT ![i] = [rec[i] EXCEPT !.intent = m]]
           /\ proc' = [proc EXCEPT ![p] = At("begun", i, m)]
<1>1. PICK dst \in Targets(i, move) :
        LET m == [op |-> move, src |-> rec[i].path, dst |-> dst, dir |-> Reviewed(i, move)] IN
        /\ Present(m.src) /\ ~Present(dst)
        /\ Records(i, [rec[i] EXCEPT !.intent = m])
        /\ proc' = [proc EXCEPT ![p] = At("begun", i, m)]
  BY DEF Begin
<1>2. rec[i] \in Record /\ Source(i, move) /\ rec[i].path \in Path /\ Exists(i)
  <2>1. rec[i] \in Record /\ Source(i, move) /\ Exists(i)
    BY DEF Begin, Source, Trial, Exists, TrialInv, TrialTypes
  <2>2. rec[i].path \in Path \cup {None}
    BY <2>1 DEF Record
  <2>3. rec[i].state # "evicted"
    BY <2>1 DEF Source
  <2> QED
    BY <2>1, <2>2, <2>3 DEF TrialInv, AllShaped, Shaped
<1>3. Targets(i, move) \subseteq Path
  <2>1. CASE move = "archive"
    <3>1. rec[i].path \in Visible /\ Targets(i, move) = {Archive(i, rec[i].path[2])}
      BY <1>2, <2>1 DEF Source, Targets
    <3> QED
      BY <3>1, PathTypes
  <2>2. CASE move = "restore"
    BY <1>2, <2>2, PathTypes DEF Targets, Record
  <2>3. CASE move \in {"graduate", "demote"}
    BY <2>3, PathTypes DEF Targets
  <2> QED
    BY <2>1, <2>2, <2>3
<1>4. Reviewed(i, move) \in Dir \cup {None}
  BY <1>2 DEF Reviewed, TrialInv, TrialTypes
<1> DEFINE m == [op |-> move, src |-> rec[i].path, dst |-> dst, dir |-> Reviewed(i, move)]
<1>5. m \in Intent
  BY <1>1, <1>2, <1>3, <1>4 DEF Intent
<1>6. /\ m.op = move /\ m.src = rec[i].path /\ m.dst \in Targets(i, move) /\ m.dst \in Path
      /\ m.dir = Reviewed(i, move) /\ Present(m.src) /\ ~Present(m.dst)
      /\ rec' = [rec EXCEPT ![i] = [rec[i] EXCEPT !.intent = m]]
      /\ proc' = [proc EXCEPT ![p] = At("begun", i, m)]
  BY <1>1, <1>3 DEF Records
<1> QED
  BY <1>5, <1>6

LEMMA MarkedIntent ==
  ASSUME TrialInv, NEW p \in Proc, NEW i \in Id, Mark(p, i)
  PROVE  \E m \in Intent :
           /\ m.op = "remove" /\ m.src = rec[i].path /\ m.dst = None /\ m.dir = fs[m.src]
           /\ m.dir # None /\ m.dir \in Dir /\ m.src \in Path
           /\ rec' = [rec EXCEPT ![i] = [rec[i] EXCEPT !.intent = m]]
           /\ proc' = [proc EXCEPT ![p] = At("marked", i, m)]
           /\ journal' = [journal EXCEPT ![i] = [outcome |-> "pending", src |-> m.src,
                                                 dir |-> m.dir]]
<1>1. rec[i] \in Record /\ rec[i].path \in Path
  BY PathTypes DEF Mark, Removable, Trial, Exists, TrialInv, TrialTypes
<1>2. fs[rec[i].path] \in Dir
  BY <1>1 DEF Mark, Removable, Present, TrialInv, TrialTypes
<1> DEFINE m == [op |-> "remove", src |-> rec[i].path, dst |-> None, dir |-> fs[rec[i].path]]
<1>3. m \in Intent
  BY <1>1, <1>2 DEF Intent
<1>4. /\ m.op = "remove" /\ m.src = rec[i].path /\ m.dst = None /\ m.dir = fs[m.src]
      /\ m.dir # None /\ m.dir \in Dir /\ m.src \in Path
  BY <1>1, <1>2 DEF Dir
<1>5. /\ rec' = [rec EXCEPT ![i] = [rec[i] EXCEPT !.intent = m]]
      /\ proc' = [proc EXCEPT ![p] = At("marked", i, m)]
      /\ journal' = [journal EXCEPT ![i] = [outcome |-> "pending", src |-> m.src,
                                            dir |-> m.dir]]
  BY DEF Mark, Records
<1> QED
  BY <1>3, <1>4, <1>5

LEMMA FinalizingRecord ==
  ASSUME TrialInv, NEW p \in Proc, Finalize(p)
  PROVE  LET i == proc[p].id IN
         /\ i \in Id /\ rec[i] \in Record /\ rec[i].intent \in Intent
         /\ rec[i].intent.op # "remove" /\ rec[i].intent = proc[p].plan
BY DEF TrialInv, Leased, Live, Moving, Removing, Finalize, TrialTypes, Exists

LEMMA AttachedPath ==
  ASSUME TrialInv, NEW p \in Proc, Attach(p)
  PROVE  /\ (CHOOSE s \in proc[p].seen : TRUE)[1] \in Path
         /\ (CHOOSE s \in proc[p].seen : TRUE)[2] \in Dir
<1>1. proc[p] \in Process /\ proc[p].seen # {}
  BY DEF TrialInv, TrialTypes, Looked, Attach
<1>2. PICK s \in proc[p].seen : s = CHOOSE t \in proc[p].seen : TRUE
  BY <1>1
<1>3. s \in Visible \X Dir
  BY <1>1 DEF Process
<1> QED
  BY <1>2, <1>3, PathTypes

LEMMA MovedPaths ==
  ASSUME TrialInv, NEW p \in Proc, proc[p].pc \in Moving
  PROVE  /\ proc[p].plan \in Intent /\ proc[p].plan.op # "remove"
         /\ proc[p].plan.src \in Path /\ proc[p].plan.dst \in Path
<1>1. proc[p].plan \in Intent /\ proc[p].plan.op # "remove"
  BY DEF TrialInv, Leased, Live, Moving, Removing
<1>2. proc[p].plan.dst # None
  BY <1>1 DEF TrialInv, Leased, Live, AllShaped, Shaped
<1> QED
  BY <1>1, <1>2 DEF Intent

LEMMA RemovedThings ==
  ASSUME TrialInv, NEW p \in Proc, proc[p].pc \in Removing
  PROVE  /\ proc[p].plan \in Intent /\ proc[p].plan.op = "remove"
         /\ proc[p].plan.src \in Path /\ proc[p].plan.dir \in Dir
         /\ proc[p].id \in Id /\ journal[proc[p].id] \in Journal
<1>1. /\ proc[p].plan \in Intent /\ proc[p].plan.op = "remove" /\ proc[p].plan.dir # None
      /\ proc[p].id \in Id /\ journal[proc[p].id] # None
  BY DEF TrialInv, Leased, Live
<1> QED
  BY <1>1 DEF Intent, TrialInv, TrialTypes

LEMMA IdleProcess == Idle \in Process /\ Idle.pc = "idle" /\ Idle.id = None
BY DEF Idle, At, Process

LEMMA RecordTypes ==
  ASSUME TrialInv, Next
  PROVE  rec' \in [Id -> Record \cup {None}]

<1>1. ASSUME NEW p \in Proc, NEW i \in Id,
             NEW move \in {"archive", "restore", "graduate", "demote"}, Begin(p, i, move)
      PROVE  rec' \in [Id -> Record \cup {None}]
  <2>1. PICK m \in Intent : rec' = [rec EXCEPT ![i] = [rec[i] EXCEPT !.intent = m]]
    BY <1>1, BegunIntent
  <2>2. rec[i] \in Record
    BY <1>1 DEF Begin, Source, TrialInv, TrialTypes, Records, Exists, Trial
  <2> QED
    BY <2>1, <2>2, ClearedEffect DEF TrialInv, TrialTypes
<1>2. ASSUME NEW p \in Proc, Check(p)
      PROVE  rec' \in [Id -> Record \cup {None}]
  BY <1>2 DEF Check, TrialInv, TrialTypes, Records, Exists, Trial
<1>3. ASSUME NEW p \in Proc, Move(p)
      PROVE  rec' \in [Id -> Record \cup {None}]
  BY <1>3 DEF Move, TrialInv, TrialTypes, Records, Exists, Trial
<1>4. ASSUME NEW p \in Proc, FailMove(p)
      PROVE  rec' \in [Id -> Record \cup {None}]
  BY <1>4, ReconciledEffect DEF FailMove, TrialInv, TrialTypes, Records, Exists, Trial
<1>5. ASSUME NEW p \in Proc, Finalize(p)
      PROVE  rec' \in [Id -> Record \cup {None}]
  BY <1>5, FinalizingRecord, FinalizedEffect
     DEF Finalize, TrialInv, TrialTypes, Records, Exists, Trial
<1>6. ASSUME NEW p \in Proc, FinalizeFails(p)
      PROVE  rec' \in [Id -> Record \cup {None}]
  BY <1>6 DEF FinalizeFails, TrialInv, TrialTypes, Records, Exists, Trial
<1>7. ASSUME NEW p \in Proc, RollBack(p)
      PROVE  rec' \in [Id -> Record \cup {None}]
  BY <1>7 DEF RollBack, TrialInv, TrialTypes, Records, Exists, Trial
<1>8. ASSUME NEW p \in Proc, RollBackRefused(p)
      PROVE  rec' \in [Id -> Record \cup {None}]
  BY <1>8 DEF RollBackRefused, TrialInv, TrialTypes, Records, Exists, Trial
<1>9. ASSUME NEW p \in Proc, RepairOwn(p)
      PROVE  rec' \in [Id -> Record \cup {None}]
  BY <1>9, ReconciledEffect DEF RepairOwn, TrialInv, TrialTypes, Records, Exists, Trial
<1>10. ASSUME NEW p \in Proc, Enrol(p)
      PROVE  rec' \in [Id -> Record \cup {None}]
  BY <1>10, PathTypes
     DEF Enrol, Process, Record, TrialInv, TrialTypes, Records, Exists, Trial
<1>11. ASSUME NEW p \in Proc, Listed(p)
      PROVE  rec' \in [Id -> Record \cup {None}]
  BY <1>11 DEF Listed, TrialInv, TrialTypes, Records, Exists, Trial
<1>12. ASSUME NEW p \in Proc, Attach(p)
      PROVE  rec' \in [Id -> Record \cup {None}]
  <2> DEFINE v == (CHOOSE s \in proc[p].seen : TRUE)[1]
            d == (CHOOSE s \in proc[p].seen : TRUE)[2]
  <2>1. v \in Path
    BY <1>12, AttachedPath
  <2>2. \/ rec' = rec
        \/ /\ rec[proc[p].id] \in Record /\ proc[p].id \in Id
           /\ rec' = [rec EXCEPT ![proc[p].id] =
                        [rec[proc[p].id] EXCEPT !.state = "present", !.path = v, !.restore = None]]
    BY <1>12 DEF Attach, Process, TrialInv, TrialTypes, Records, Exists, Trial
  <2> HIDE DEF v
  <2> DEFINE w == [rec[proc[p].id] EXCEPT !.state = "present", !.path = v, !.restore = None]
  <2>3. rec[proc[p].id] \in Record => w \in Record
    BY <2>1 DEF Record
  <2> HIDE DEF w
  <2>4. rec' = rec \/ (w \in Record /\ rec' = [rec EXCEPT ![proc[p].id] = w])
    BY <2>2, <2>3 DEF w
  <2> QED
    BY <2>4 DEF TrialInv, TrialTypes
<1>13. ASSUME NEW p \in Proc, Trash(p)
      PROVE  rec' \in [Id -> Record \cup {None}]
  BY <1>13 DEF Trash, TrialInv, TrialTypes, Records, Exists, Trial
<1>14. ASSUME NEW p \in Proc, RemovalFails(p)
      PROVE  rec' \in [Id -> Record \cup {None}]
  BY <1>14 DEF RemovalFails, TrialInv, TrialTypes, Records, Exists, Trial
<1>15. ASSUME NEW p \in Proc, RecordRemoval(p)
      PROVE  rec' \in [Id -> Record \cup {None}]
  BY <1>15 DEF RecordRemoval, TrialInv, TrialTypes, Records, Exists, Trial
<1>16. ASSUME NEW p \in Proc, FinishRemoval(p)
      PROVE  rec' \in [Id -> Record \cup {None}]
  <2>1. /\ proc[p].id \in Id /\ rec[proc[p].id] \in Record
        /\ rec[proc[p].id].intent \in Intent
    BY <1>16
       DEF FinishRemoval, Leased, Live, Removing, TrialInv, TrialTypes, Records, Exists,
           Trial
  <2> QED
    BY <1>16, <2>1, EvictedEffect
       DEF FinishRemoval, TrialInv, TrialTypes, Records, Exists, Trial
<1>17. ASSUME NEW p \in Proc, Crash(p)
      PROVE  rec' \in [Id -> Record \cup {None}]
  BY <1>17 DEF Crash, TrialInv, TrialTypes, Records, Exists, Trial
<1>18. ASSUME NEW p \in Proc, NEW i \in Id \cup {None}, Probe(p, i)
      PROVE  rec' \in [Id -> Record \cup {None}]
  BY <1>18 DEF Probe, TrialInv, TrialTypes, Records, Exists, Trial
<1>19. ASSUME NEW p \in Proc, NEW i \in Id, Mark(p, i)
      PROVE  rec' \in [Id -> Record \cup {None}]
  <2>1. PICK m \in Intent : rec' = [rec EXCEPT ![i] = [rec[i] EXCEPT !.intent = m]]
    BY <1>19, MarkedIntent
  <2>2. rec[i] \in Record
    BY <1>19 DEF Mark, Removable, TrialInv, TrialTypes, Records, Exists, Trial
  <2> QED
    BY <2>1, <2>2, ClearedEffect DEF TrialInv, TrialTypes
<1>20. ASSUME NEW i \in Id, Repair(i)
      PROVE  rec' \in [Id -> Record \cup {None}]
  BY <1>20, ReconciledEffect DEF Repair, TrialInv, TrialTypes, Records, Exists, Trial
<1>21. ASSUME NEW i \in Id, Forget(i)
      PROVE  rec' \in [Id -> Record \cup {None}]
  BY <1>21 DEF Forget, TrialInv, TrialTypes, Records, Exists, Trial
<1>22. ASSUME NEW i \in Id, PutBack(i)
      PROVE  rec' \in [Id -> Record \cup {None}]
  BY <1>22 DEF PutBack, TrialInv, TrialTypes, Records, Exists, Trial
<1>23. ASSUME NEW i \in Id, NEW path \in Path, Reassociate(i, path)
      PROVE  rec' \in [Id -> Record \cup {None}]
  <2>1. rec[i] \in Record
    BY <1>23 DEF Reassociate, TrialInv, TrialTypes, Records, Exists, Trial
  <2> QED
    BY <1>23, <2>1 DEF Reassociate, Record, TrialInv, TrialTypes, Records, Exists, Trial
<1>24. ASSUME NEW v \in Visible, Make(v)
      PROVE  rec' \in [Id -> Record \cup {None}]
  BY <1>24 DEF Make, TrialInv, TrialTypes, Records, Exists, Trial
<1>25. ASSUME NEW path \in Path, Displace(path)
      PROVE  rec' \in [Id -> Record \cup {None}]
  BY <1>25 DEF Displace, TrialInv, TrialTypes, Records, Exists, Trial

<1> QED
  BY <1>1, <1>2, <1>3, <1>4, <1>5, <1>6, <1>7, <1>8, <1>9, <1>10, <1>11, <1>12, <1>13,
     <1>14, <1>15, <1>16, <1>17, <1>18, <1>19, <1>20, <1>21, <1>22, <1>23, <1>24, <1>25 DEF
     Next, Onward

LEMMA PositionTypes ==
  ASSUME TrialInv, Next
  PROVE  proc' \in [Proc -> Process]
<1>1. ASSUME NEW p \in Proc, NEW i \in Id,
             NEW move \in {"archive", "restore", "graduate", "demote"}, Begin(p, i, move)
      PROVE  proc' \in [Proc -> Process]
  <2>1. PICK m \in Intent : proc' = [proc EXCEPT ![p] = At("begun", i, m)]
    BY <1>1, BegunIntent
  <2> QED
    BY <2>1 DEF At, Process, Moving, TrialInv, TrialTypes
<1>2. ASSUME NEW p \in Proc, Check(p)
      PROVE  proc' \in [Proc -> Process]
  BY <1>2 DEF Check, TrialInv, TrialTypes, Exists, Goes, Bounds, Process, Moving, Removing
<1>3. ASSUME NEW p \in Proc, Move(p)
      PROVE  proc' \in [Proc -> Process]
  BY <1>3 DEF Move, TrialInv, TrialTypes, Goes, Bounds, Process, Moving, Removing
<1>4. ASSUME NEW p \in Proc, FailMove(p)
      PROVE  proc' \in [Proc -> Process]
  BY <1>4, IdleProcess
     DEF FailMove, TrialInv, TrialTypes, Exists, Ends, Bounds, Process, Moving, Removing
<1>5. ASSUME NEW p \in Proc, Finalize(p)
      PROVE  proc' \in [Proc -> Process]
  BY <1>5, IdleProcess
     DEF Finalize, TrialInv, TrialTypes, Records, Exists, Ends, Bounds, Process, Moving,
         Removing
<1>6. ASSUME NEW p \in Proc, FinalizeFails(p)
      PROVE  proc' \in [Proc -> Process]
  BY <1>6 DEF FinalizeFails, TrialInv, TrialTypes, Goes, Bounds, Process, Moving, Removing
<1>7. ASSUME NEW p \in Proc, RollBack(p)
      PROVE  proc' \in [Proc -> Process]
  BY <1>7 DEF RollBack, TrialInv, TrialTypes, Goes, Bounds, Process, Moving, Removing
<1>8. ASSUME NEW p \in Proc, RollBackRefused(p)
      PROVE  proc' \in [Proc -> Process]
  BY <1>8, IdleProcess
     DEF RollBackRefused, TrialInv, TrialTypes, Ends, Bounds, Process, Moving, Removing
<1>9. ASSUME NEW p \in Proc, RepairOwn(p)
      PROVE  proc' \in [Proc -> Process]
  BY <1>9, IdleProcess
     DEF RepairOwn, TrialInv, TrialTypes, Exists, Ends, Bounds, Process, Moving, Removing
<1>10. ASSUME NEW p \in Proc, Enrol(p)
      PROVE  proc' \in [Proc -> Process]
  BY <1>10 DEF Enrol, TrialInv, TrialTypes, Records, Bounds, Process, Moving, Removing
<1>11. ASSUME NEW p \in Proc, Listed(p)
      PROVE  proc' \in [Proc -> Process]
  BY <1>11, IdleProcess
     DEF Listed, TrialInv, TrialTypes, Ends, Bounds, Process, Moving, Removing
<1>12. ASSUME NEW p \in Proc, Attach(p)
      PROVE  proc' \in [Proc -> Process]
  BY <1>12, IdleProcess
     DEF Attach, TrialInv, TrialTypes, Records, Exists, Trial, Ends, Bounds, Process,
         Moving, Removing
<1>13. ASSUME NEW p \in Proc, Trash(p)
      PROVE  proc' \in [Proc -> Process]
  <2>1. proc' = [proc EXCEPT ![p].pc = "trashed"]
    BY <1>13 DEF Trash, Goes
  <2> QED
    BY <2>1 DEF Process, Removing, TrialInv, TrialTypes
<1>14. ASSUME NEW p \in Proc, RemovalFails(p)
      PROVE  proc' \in [Proc -> Process]
  BY <1>14, IdleProcess
     DEF RemovalFails, TrialInv, TrialTypes, Ends, Bounds, Process, Moving, Removing
<1>15. ASSUME NEW p \in Proc, RecordRemoval(p)
      PROVE  proc' \in [Proc -> Process]
  BY <1>15 DEF RecordRemoval, TrialInv, TrialTypes, Goes, Bounds, Process, Moving, Removing
<1>16. ASSUME NEW p \in Proc, FinishRemoval(p)
      PROVE  proc' \in [Proc -> Process]
  BY <1>16, IdleProcess
     DEF FinishRemoval, TrialInv, TrialTypes, Records, Ends, Bounds, Process, Moving,
         Removing
<1>17. ASSUME NEW p \in Proc, Crash(p)
      PROVE  proc' \in [Proc -> Process]
  BY <1>17, IdleProcess DEF Crash, TrialInv, TrialTypes, Ends, Process, Moving, Removing
<1>18. ASSUME NEW p \in Proc, NEW i \in Id \cup {None}, Probe(p, i)
      PROVE  proc' \in [Proc -> Process]
  <2>1. PICK seen \in SUBSET {<<v, fs[v]>> : v \in {w \in Visible : Present(w)}} :
          proc' = [proc EXCEPT ![p] = [At("probed", i, None) EXCEPT !.seen = seen]]
    BY <1>18 DEF Probe
  <2>2. seen \in SUBSET (Visible \X Dir)
    BY PathTypes DEF TrialInv, TrialTypes, Present
  <2>3. [At("probed", i, None) EXCEPT !.seen = seen] \in Process
    BY <2>2 DEF At, Process
  <2> QED
    BY <2>1, <2>3 DEF TrialInv, TrialTypes
<1>19. ASSUME NEW p \in Proc, NEW i \in Id, Mark(p, i)
      PROVE  proc' \in [Proc -> Process]
  <2>1. PICK m \in Intent : proc' = [proc EXCEPT ![p] = At("marked", i, m)]
    BY <1>19, MarkedIntent
  <2> QED
    BY <2>1 DEF At, Process, Removing, TrialInv, TrialTypes
<1>20. ASSUME NEW i \in Id, Repair(i)
      PROVE  proc' \in [Proc -> Process]
  BY <1>20
     DEF Repair, TrialInv, TrialTypes, Records, Exists, Bounds, Process, Moving, Removing
<1>21. ASSUME NEW i \in Id, Forget(i)
      PROVE  proc' \in [Proc -> Process]
  BY <1>21
     DEF Forget, TrialInv, TrialTypes, Records, Exists, Trial, Bounds, Process, Moving,
         Removing
<1>22. ASSUME NEW i \in Id, PutBack(i)
      PROVE  proc' \in [Proc -> Process]
  BY <1>22 DEF PutBack, TrialInv, TrialTypes, Bounds, Process, Moving, Removing
<1>23. ASSUME NEW i \in Id, NEW path \in Path, Reassociate(i, path)
      PROVE  proc' \in [Proc -> Process]
  BY <1>23
     DEF Reassociate, TrialInv, TrialTypes, Records, Exists, Trial, Bounds, Process, Moving,
         Removing
<1>24. ASSUME NEW v \in Visible, Make(v)
      PROVE  proc' \in [Proc -> Process]
  BY <1>24 DEF Make, TrialInv, TrialTypes, Process, Moving, Removing
<1>25. ASSUME NEW path \in Path, Displace(path)
      PROVE  proc' \in [Proc -> Process]
  BY <1>25 DEF Displace, TrialInv, TrialTypes, Process, Moving, Removing

<1> QED
  BY <1>1, <1>2, <1>3, <1>4, <1>5, <1>6, <1>7, <1>8, <1>9, <1>10, <1>11, <1>12, <1>13,
     <1>14, <1>15, <1>16, <1>17, <1>18, <1>19, <1>20, <1>21, <1>22, <1>23, <1>24, <1>25 DEF
     Next, Onward

LEMMA DiskTypes ==
  ASSUME TrialInv, Next
  PROVE  /\ fs' \in [Path -> Dir \cup {None}] /\ trash' \subseteq Dir /\ made' \in 0 .. MaxDirs
         /\ journal' \in [Id -> Journal \cup {None}]
<1>1. ASSUME NEW p \in Proc, NEW i \in Id,
             NEW move \in {"archive", "restore", "graduate", "demote"}, Begin(p, i, move)
      PROVE  /\ fs' \in [Path -> Dir \cup {None}] /\ trash' \subseteq Dir
             /\ journal' \in [Id -> Journal \cup {None}] /\ made' \in 0 .. MaxDirs
  BY <1>1 DEF Begin, TrialInv, TrialTypes, Records, Bounds
<1>2. ASSUME NEW p \in Proc, Check(p)
      PROVE  /\ fs' \in [Path -> Dir \cup {None}] /\ trash' \subseteq Dir
             /\ journal' \in [Id -> Journal \cup {None}] /\ made' \in 0 .. MaxDirs
  BY <1>2 DEF Check, TrialInv, TrialTypes, Exists, Goes, Bounds
<1>3. ASSUME NEW p \in Proc, Move(p)
      PROVE  /\ fs' \in [Path -> Dir \cup {None}] /\ trash' \subseteq Dir
             /\ journal' \in [Id -> Journal \cup {None}] /\ made' \in 0 .. MaxDirs
  <2>1. proc[p].plan.src \in Path /\ proc[p].plan.dst \in Path
    BY <1>3, MovedPaths DEF Move, Moving
  <2> QED
    BY <1>3, <2>1 DEF Move, Rename, Bounds, TrialInv, TrialTypes
<1>4. ASSUME NEW p \in Proc, FailMove(p)
      PROVE  /\ fs' \in [Path -> Dir \cup {None}] /\ trash' \subseteq Dir
             /\ journal' \in [Id -> Journal \cup {None}] /\ made' \in 0 .. MaxDirs
  BY <1>4 DEF FailMove, TrialInv, TrialTypes, Exists, Ends, Bounds
<1>5. ASSUME NEW p \in Proc, Finalize(p)
      PROVE  /\ fs' \in [Path -> Dir \cup {None}] /\ trash' \subseteq Dir
             /\ journal' \in [Id -> Journal \cup {None}] /\ made' \in 0 .. MaxDirs
  BY <1>5 DEF Finalize, TrialInv, TrialTypes, Records, Exists, Ends, Bounds
<1>6. ASSUME NEW p \in Proc, FinalizeFails(p)
      PROVE  /\ fs' \in [Path -> Dir \cup {None}] /\ trash' \subseteq Dir
             /\ journal' \in [Id -> Journal \cup {None}] /\ made' \in 0 .. MaxDirs
  BY <1>6 DEF FinalizeFails, TrialInv, TrialTypes, Goes, Bounds
<1>7. ASSUME NEW p \in Proc, RollBack(p)
      PROVE  /\ fs' \in [Path -> Dir \cup {None}] /\ trash' \subseteq Dir
             /\ journal' \in [Id -> Journal \cup {None}] /\ made' \in 0 .. MaxDirs
  <2>1. proc[p].plan.src \in Path /\ proc[p].plan.dst \in Path
    BY <1>7, MovedPaths DEF RollBack, Moving
  <2> QED
    BY <1>7, <2>1 DEF RollBack, Rename, Bounds, TrialInv, TrialTypes
<1>8. ASSUME NEW p \in Proc, RollBackRefused(p)
      PROVE  /\ fs' \in [Path -> Dir \cup {None}] /\ trash' \subseteq Dir
             /\ journal' \in [Id -> Journal \cup {None}] /\ made' \in 0 .. MaxDirs
  BY <1>8 DEF RollBackRefused, TrialInv, TrialTypes, Ends, Bounds
<1>9. ASSUME NEW p \in Proc, RepairOwn(p)
      PROVE  /\ fs' \in [Path -> Dir \cup {None}] /\ trash' \subseteq Dir
             /\ journal' \in [Id -> Journal \cup {None}] /\ made' \in 0 .. MaxDirs
  BY <1>9 DEF RepairOwn, TrialInv, TrialTypes, Exists, Ends, Bounds
<1>10. ASSUME NEW p \in Proc, Enrol(p)
      PROVE  /\ fs' \in [Path -> Dir \cup {None}] /\ trash' \subseteq Dir
             /\ journal' \in [Id -> Journal \cup {None}] /\ made' \in 0 .. MaxDirs
  BY <1>10 DEF Enrol, TrialInv, TrialTypes, Records, Bounds, Process
<1>11. ASSUME NEW p \in Proc, Listed(p)
      PROVE  /\ fs' \in [Path -> Dir \cup {None}] /\ trash' \subseteq Dir
             /\ journal' \in [Id -> Journal \cup {None}] /\ made' \in 0 .. MaxDirs
  BY <1>11 DEF Listed, TrialInv, TrialTypes, Ends, Bounds
<1>12. ASSUME NEW p \in Proc, Attach(p)
      PROVE  /\ fs' \in [Path -> Dir \cup {None}] /\ trash' \subseteq Dir
             /\ journal' \in [Id -> Journal \cup {None}] /\ made' \in 0 .. MaxDirs
  BY <1>12 DEF Attach, TrialInv, TrialTypes, Records, Exists, Trial, Ends, Bounds
<1>13. ASSUME NEW p \in Proc, Trash(p)
      PROVE  /\ fs' \in [Path -> Dir \cup {None}] /\ trash' \subseteq Dir
             /\ journal' \in [Id -> Journal \cup {None}] /\ made' \in 0 .. MaxDirs
  <2>1. proc[p].plan.src \in Path /\ proc[p].plan.dir \in Dir
    BY <1>13, RemovedThings DEF Trash, Removing
  <2> QED
    BY <1>13, <2>1 DEF Trash, Bounds, TrialInv, TrialTypes
<1>14. ASSUME NEW p \in Proc, RemovalFails(p)
      PROVE  /\ fs' \in [Path -> Dir \cup {None}] /\ trash' \subseteq Dir
             /\ journal' \in [Id -> Journal \cup {None}] /\ made' \in 0 .. MaxDirs
  BY <1>14 DEF RemovalFails, TrialInv, TrialTypes, Ends, Bounds
<1>15. ASSUME NEW p \in Proc, RecordRemoval(p)
      PROVE  /\ fs' \in [Path -> Dir \cup {None}] /\ trash' \subseteq Dir
             /\ journal' \in [Id -> Journal \cup {None}] /\ made' \in 0 .. MaxDirs
  <2>1. proc[p].id \in Id /\ journal[proc[p].id] \in Journal
    BY <1>15, RemovedThings DEF RecordRemoval, Removing
  <2>2. [journal[proc[p].id] EXCEPT !.outcome = "removed"] \in Journal
    BY <2>1 DEF Journal
  <2> QED
    BY <1>15, <2>1, <2>2 DEF RecordRemoval, Bounds, TrialInv, TrialTypes
<1>16. ASSUME NEW p \in Proc, FinishRemoval(p)
      PROVE  /\ fs' \in [Path -> Dir \cup {None}] /\ trash' \subseteq Dir
             /\ journal' \in [Id -> Journal \cup {None}] /\ made' \in 0 .. MaxDirs
  BY <1>16 DEF FinishRemoval, TrialInv, TrialTypes, Records, Ends, Bounds
<1>17. ASSUME NEW p \in Proc, Crash(p)
      PROVE  /\ fs' \in [Path -> Dir \cup {None}] /\ trash' \subseteq Dir
             /\ journal' \in [Id -> Journal \cup {None}] /\ made' \in 0 .. MaxDirs
  BY <1>17 DEF Crash, TrialInv, TrialTypes, Ends
<1>18. ASSUME NEW p \in Proc, NEW i \in Id \cup {None}, Probe(p, i)
      PROVE  /\ fs' \in [Path -> Dir \cup {None}] /\ trash' \subseteq Dir
             /\ journal' \in [Id -> Journal \cup {None}] /\ made' \in 0 .. MaxDirs
  BY <1>18 DEF Probe, TrialInv, TrialTypes, Bounds
<1>19. ASSUME NEW p \in Proc, NEW i \in Id, Mark(p, i)
      PROVE  /\ fs' \in [Path -> Dir \cup {None}] /\ trash' \subseteq Dir
             /\ journal' \in [Id -> Journal \cup {None}] /\ made' \in 0 .. MaxDirs
  <2>1. PICK m \in Intent :
          /\ m.dir \in Dir /\ m.src \in Path
          /\ journal' = [journal EXCEPT ![i] = [outcome |-> "pending", src |-> m.src,
                                                dir |-> m.dir]]
    BY <1>19, MarkedIntent
  <2>2. [outcome |-> "pending", src |-> m.src, dir |-> m.dir] \in Journal
    BY <2>1 DEF Journal
  <2> QED
    BY <1>19, <2>1, <2>2 DEF Mark, Bounds, TrialInv, TrialTypes
<1>20. ASSUME NEW i \in Id, Repair(i)
      PROVE  /\ fs' \in [Path -> Dir \cup {None}] /\ trash' \subseteq Dir
             /\ journal' \in [Id -> Journal \cup {None}] /\ made' \in 0 .. MaxDirs
  BY <1>20 DEF Repair, TrialInv, TrialTypes, Records, Exists, Bounds
<1>21. ASSUME NEW i \in Id, Forget(i)
      PROVE  /\ fs' \in [Path -> Dir \cup {None}] /\ trash' \subseteq Dir
             /\ journal' \in [Id -> Journal \cup {None}] /\ made' \in 0 .. MaxDirs
  <2>1. rec[i].path \in Path
    BY <1>21, PathTypes DEF Forget
  <2>2. [outcome |-> "forgotten", src |-> rec[i].path, dir |-> None] \in Journal
    BY <2>1 DEF Journal
  <2> QED
    BY <1>21, <2>2 DEF Forget, Bounds, TrialInv, TrialTypes
<1>22. ASSUME NEW i \in Id, PutBack(i)
      PROVE  /\ fs' \in [Path -> Dir \cup {None}] /\ trash' \subseteq Dir
             /\ journal' \in [Id -> Journal \cup {None}] /\ made' \in 0 .. MaxDirs
  <2>1. journal[i] \in Journal
    BY <1>22 DEF PutBack, TrialInv, TrialTypes
  <2>2. journal[i].src \in Path
    BY <2>1 DEF Journal
  <2> QED
    BY <1>22, <2>2 DEF PutBack, Bounds, TrialInv, TrialTypes
<1>23. ASSUME NEW i \in Id, NEW path \in Path, Reassociate(i, path)
      PROVE  /\ fs' \in [Path -> Dir \cup {None}] /\ trash' \subseteq Dir
             /\ journal' \in [Id -> Journal \cup {None}] /\ made' \in 0 .. MaxDirs
  <2>1. journal[i] \in Journal
    BY <1>23 DEF Reassociate, TrialInv, TrialTypes
  <2>2. [journal[i] EXCEPT !.outcome = "reassociated"] \in Journal
    BY <2>1 DEF Journal
  <2> QED
    BY <1>23, <2>1, <2>2 DEF Reassociate, Bounds, TrialInv, TrialTypes
<1>24. ASSUME NEW v \in Visible, Make(v)
      PROVE  /\ fs' \in [Path -> Dir \cup {None}] /\ trash' \subseteq Dir
             /\ journal' \in [Id -> Journal \cup {None}] /\ made' \in 0 .. MaxDirs
  BY <1>24, PathTypes DEF Make, TrialInv, TrialTypes, Dir
<1>25. ASSUME NEW path \in Path, Displace(path)
      PROVE  /\ fs' \in [Path -> Dir \cup {None}] /\ trash' \subseteq Dir
             /\ journal' \in [Id -> Journal \cup {None}] /\ made' \in 0 .. MaxDirs
  BY <1>25 DEF Displace, TrialInv, TrialTypes

<1> QED
  BY <1>1, <1>2, <1>3, <1>4, <1>5, <1>6, <1>7, <1>8, <1>9, <1>10, <1>11, <1>12, <1>13,
     <1>14, <1>15, <1>16, <1>17, <1>18, <1>19, <1>20, <1>21, <1>22, <1>23, <1>24, <1>25 DEF
     Next, Onward

LEMMA OwnTypes ==
  ASSUME TrialInv, Next
  PROVE  own' \in [Id -> Dir \cup {None}]
<1>1. ASSUME NEW p \in Proc, NEW i \in Id,
             NEW move \in {"archive", "restore", "graduate", "demote"}, Begin(p, i, move)
      PROVE  own' \in [Id -> Dir \cup {None}]
  BY <1>1 DEF Begin, TrialInv, TrialTypes, Records, Bounds
<1>2. ASSUME NEW p \in Proc, Check(p)
      PROVE  own' \in [Id -> Dir \cup {None}]
  BY <1>2 DEF Check, TrialInv, TrialTypes, Exists, Goes, Bounds
<1>3. ASSUME NEW p \in Proc, Move(p)
      PROVE  own' \in [Id -> Dir \cup {None}]
  BY <1>3 DEF Move, TrialInv, TrialTypes, Goes, Bounds
<1>4. ASSUME NEW p \in Proc, FailMove(p)
      PROVE  own' \in [Id -> Dir \cup {None}]
  BY <1>4 DEF FailMove, TrialInv, TrialTypes, Exists, Ends, Bounds
<1>5. ASSUME NEW p \in Proc, Finalize(p)
      PROVE  own' \in [Id -> Dir \cup {None}]
  BY <1>5 DEF Finalize, TrialInv, TrialTypes, Records, Exists, Ends, Bounds
<1>6. ASSUME NEW p \in Proc, FinalizeFails(p)
      PROVE  own' \in [Id -> Dir \cup {None}]
  BY <1>6 DEF FinalizeFails, TrialInv, TrialTypes, Goes, Bounds
<1>7. ASSUME NEW p \in Proc, RollBack(p)
      PROVE  own' \in [Id -> Dir \cup {None}]
  BY <1>7 DEF RollBack, TrialInv, TrialTypes, Goes, Bounds
<1>8. ASSUME NEW p \in Proc, RollBackRefused(p)
      PROVE  own' \in [Id -> Dir \cup {None}]
  BY <1>8 DEF RollBackRefused, TrialInv, TrialTypes, Ends, Bounds
<1>9. ASSUME NEW p \in Proc, RepairOwn(p)
      PROVE  own' \in [Id -> Dir \cup {None}]
  BY <1>9 DEF RepairOwn, TrialInv, TrialTypes, Exists, Ends, Bounds
<1>10. ASSUME NEW p \in Proc, Enrol(p)
      PROVE  own' \in [Id -> Dir \cup {None}]
  BY <1>10 DEF Enrol, TrialInv, TrialTypes, Records, Bounds, Process
<1>11. ASSUME NEW p \in Proc, Listed(p)
      PROVE  own' \in [Id -> Dir \cup {None}]
  BY <1>11 DEF Listed, TrialInv, TrialTypes, Ends, Bounds
<1>12. ASSUME NEW p \in Proc, Attach(p)
      PROVE  own' \in [Id -> Dir \cup {None}]
  <2> DEFINE d == (CHOOSE s \in proc[p].seen : TRUE)[2]
  <2>1. d \in Dir /\ proc[p].id \in Id \cup {None}
    BY <1>12, AttachedPath DEF TrialInv, TrialTypes, Process
  <2>2. \/ own' = own
        \/ own' = [own EXCEPT ![proc[p].id] = own[proc[p].id]]
        \/ own' = [own EXCEPT ![proc[p].id] = d]
    BY <1>12 DEF Attach
  <2> HIDE DEF d
  <2> QED
    BY <2>1, <2>2 DEF TrialInv, TrialTypes
<1>13. ASSUME NEW p \in Proc, Trash(p)
      PROVE  own' \in [Id -> Dir \cup {None}]
  BY <1>13 DEF Trash, TrialInv, TrialTypes, Goes, Bounds
<1>14. ASSUME NEW p \in Proc, RemovalFails(p)
      PROVE  own' \in [Id -> Dir \cup {None}]
  BY <1>14 DEF RemovalFails, TrialInv, TrialTypes, Ends, Bounds
<1>15. ASSUME NEW p \in Proc, RecordRemoval(p)
      PROVE  own' \in [Id -> Dir \cup {None}]
  BY <1>15 DEF RecordRemoval, TrialInv, TrialTypes, Goes, Bounds
<1>16. ASSUME NEW p \in Proc, FinishRemoval(p)
      PROVE  own' \in [Id -> Dir \cup {None}]
  BY <1>16 DEF FinishRemoval, TrialInv, TrialTypes, Records, Ends, Bounds
<1>17. ASSUME NEW p \in Proc, Crash(p)
      PROVE  own' \in [Id -> Dir \cup {None}]
  BY <1>17 DEF Crash, TrialInv, TrialTypes, Ends
<1>18. ASSUME NEW p \in Proc, NEW i \in Id \cup {None}, Probe(p, i)
      PROVE  own' \in [Id -> Dir \cup {None}]
  BY <1>18 DEF Probe, TrialInv, TrialTypes, Bounds
<1>19. ASSUME NEW p \in Proc, NEW i \in Id, Mark(p, i)
      PROVE  own' \in [Id -> Dir \cup {None}]
  BY <1>19 DEF Mark, TrialInv, TrialTypes, Records, Bounds
<1>20. ASSUME NEW i \in Id, Repair(i)
      PROVE  own' \in [Id -> Dir \cup {None}]
  BY <1>20 DEF Repair, TrialInv, TrialTypes, Records, Exists, Bounds
<1>21. ASSUME NEW i \in Id, Forget(i)
      PROVE  own' \in [Id -> Dir \cup {None}]
  BY <1>21 DEF Forget, TrialInv, TrialTypes, Records, Exists, Trial, Bounds
<1>22. ASSUME NEW i \in Id, PutBack(i)
      PROVE  own' \in [Id -> Dir \cup {None}]
  BY <1>22 DEF PutBack, TrialInv, TrialTypes, Bounds
<1>23. ASSUME NEW i \in Id, NEW path \in Path, Reassociate(i, path)
      PROVE  own' \in [Id -> Dir \cup {None}]
  BY <1>23 DEF Reassociate, TrialInv, TrialTypes, Records, Exists, Trial, Bounds
<1>24. ASSUME NEW v \in Visible, Make(v)
      PROVE  own' \in [Id -> Dir \cup {None}]
  BY <1>24 DEF Make, TrialInv, TrialTypes
<1>25. ASSUME NEW path \in Path, Displace(path)
      PROVE  own' \in [Id -> Dir \cup {None}]
  BY <1>25 DEF Displace, TrialInv, TrialTypes

<1> QED
  BY <1>1, <1>2, <1>3, <1>4, <1>5, <1>6, <1>7, <1>8, <1>9, <1>10, <1>11, <1>12, <1>13,
     <1>14, <1>15, <1>16, <1>17, <1>18, <1>19, <1>20, <1>21, <1>22, <1>23, <1>24, <1>25 DEF
     Next, Onward

LEMMA LookedStep ==
  ASSUME TrialInv, Next
  PROVE  Looked'
<1>1. ASSUME NEW p \in Proc, NEW i \in Id,
             NEW move \in {"archive", "restore", "graduate", "demote"}, Begin(p, i, move)
      PROVE  Looked'
  BY <1>1, BegunIntent DEF At, Looked, TrialInv, TrialTypes
<1>2. ASSUME NEW p \in Proc, Check(p)
      PROVE  Looked'
  BY <1>2 DEF Check, TrialInv, TrialTypes, Exists, Goes, Bounds, Looked
<1>3. ASSUME NEW p \in Proc, Move(p)
      PROVE  Looked'
  BY <1>3 DEF Move, TrialInv, TrialTypes, Goes, Bounds, Looked
<1>4. ASSUME NEW p \in Proc, FailMove(p)
      PROVE  Looked'
  BY <1>4, IdleProcess DEF FailMove, TrialInv, TrialTypes, Exists, Ends, Bounds, Looked
<1>5. ASSUME NEW p \in Proc, Finalize(p)
      PROVE  Looked'
  BY <1>5, IdleProcess
     DEF Finalize, TrialInv, TrialTypes, Records, Exists, Ends, Bounds, Looked
<1>6. ASSUME NEW p \in Proc, FinalizeFails(p)
      PROVE  Looked'
  BY <1>6 DEF FinalizeFails, TrialInv, TrialTypes, Goes, Bounds, Looked
<1>7. ASSUME NEW p \in Proc, RollBack(p)
      PROVE  Looked'
  BY <1>7 DEF RollBack, TrialInv, TrialTypes, Goes, Bounds, Looked
<1>8. ASSUME NEW p \in Proc, RollBackRefused(p)
      PROVE  Looked'
  BY <1>8, IdleProcess DEF RollBackRefused, TrialInv, TrialTypes, Ends, Bounds, Looked
<1>9. ASSUME NEW p \in Proc, RepairOwn(p)
      PROVE  Looked'
  BY <1>9, IdleProcess DEF RepairOwn, TrialInv, TrialTypes, Exists, Ends, Bounds, Looked
<1>10. ASSUME NEW p \in Proc, Enrol(p)
      PROVE  Looked'
  BY <1>10 DEF Enrol, TrialInv, TrialTypes, Records, Bounds, Looked
<1>11. ASSUME NEW p \in Proc, Listed(p)
      PROVE  Looked'
  BY <1>11, IdleProcess DEF Listed, TrialInv, TrialTypes, Ends, Bounds, Looked
<1>12. ASSUME NEW p \in Proc, Attach(p)
      PROVE  Looked'
  BY <1>12, IdleProcess
     DEF Attach, TrialInv, TrialTypes, Records, Exists, Trial, Ends, Bounds, Looked
<1>13. ASSUME NEW p \in Proc, Trash(p)
      PROVE  Looked'
  BY <1>13 DEF Trash, TrialInv, TrialTypes, Goes, Bounds, Looked
<1>14. ASSUME NEW p \in Proc, RemovalFails(p)
      PROVE  Looked'
  BY <1>14, IdleProcess DEF RemovalFails, TrialInv, TrialTypes, Ends, Bounds, Looked
<1>15. ASSUME NEW p \in Proc, RecordRemoval(p)
      PROVE  Looked'
  BY <1>15 DEF RecordRemoval, TrialInv, TrialTypes, Goes, Bounds, Looked
<1>16. ASSUME NEW p \in Proc, FinishRemoval(p)
      PROVE  Looked'
  BY <1>16, IdleProcess
     DEF FinishRemoval, TrialInv, TrialTypes, Records, Ends, Bounds, Looked
<1>17. ASSUME NEW p \in Proc, Crash(p)
      PROVE  Looked'
  BY <1>17, IdleProcess DEF Crash, TrialInv, TrialTypes, Ends, Looked
<1>18. ASSUME NEW p \in Proc, NEW i \in Id \cup {None}, Probe(p, i)
      PROVE  Looked'
  <2>1. PICK seen \in SUBSET {<<v, fs[v]>> : v \in {w \in Visible : Present(w)}} :
          /\ i # None => Cardinality(seen) = 1
          /\ proc' = [proc EXCEPT ![p] = [At("probed", i, None) EXCEPT !.seen = seen]]
    BY <1>18 DEF Probe
  <2>2. i # None => seen # {}
    BY <2>1, FS_EmptySet, 0 # 1
  <2> QED
    BY <2>1, <2>2 DEF At, Looked, TrialInv, TrialTypes, Process
<1>19. ASSUME NEW p \in Proc, NEW i \in Id, Mark(p, i)
      PROVE  Looked'
  BY <1>19, MarkedIntent DEF At, Looked, TrialInv, TrialTypes
<1>20. ASSUME NEW i \in Id, Repair(i)
      PROVE  Looked'
  BY <1>20 DEF Repair, TrialInv, TrialTypes, Records, Exists, Bounds, Looked
<1>21. ASSUME NEW i \in Id, Forget(i)
      PROVE  Looked'
  BY <1>21 DEF Forget, TrialInv, TrialTypes, Records, Exists, Trial, Bounds, Looked
<1>22. ASSUME NEW i \in Id, PutBack(i)
      PROVE  Looked'
  BY <1>22 DEF PutBack, TrialInv, TrialTypes, Bounds, Looked
<1>23. ASSUME NEW i \in Id, NEW path \in Path, Reassociate(i, path)
      PROVE  Looked'
  BY <1>23 DEF Reassociate, TrialInv, TrialTypes, Records, Exists, Trial, Bounds, Looked
<1>24. ASSUME NEW v \in Visible, Make(v)
      PROVE  Looked'
  BY <1>24 DEF Make, TrialInv, TrialTypes, Looked
<1>25. ASSUME NEW path \in Path, Displace(path)
      PROVE  Looked'
  BY <1>25 DEF Displace, TrialInv, TrialTypes, Looked

<1> QED
  BY <1>1, <1>2, <1>3, <1>4, <1>5, <1>6, <1>7, <1>8, <1>9, <1>10, <1>11, <1>12, <1>13,
     <1>14, <1>15, <1>16, <1>17, <1>18, <1>19, <1>20, <1>21, <1>22, <1>23, <1>24, <1>25 DEF
     Next, Onward

\* Whoever goes on keeps what it has, unless the step touches its record.
LEMMA LeasedKept ==
  ASSUME TrialInv,
         \A q \in Live' : /\ q \in Live
                          /\ proc'[q].id = proc[q].id /\ proc'[q].plan = proc[q].plan
                          /\ proc'[q].pc \in Removing <=> proc[q].pc \in Removing
                          /\ rec'[proc[q].id] # None
                          /\ rec'[proc[q].id].intent = rec[proc[q].id].intent
                          /\ proc[q].pc \in Removing => journal'[proc[q].id] # None
  PROVE  Leased'
BY DEF TrialInv, Leased, Exists

LEMMA LeasedStep ==
  ASSUME TrialInv, Next
  PROVE  Leased'
<1>1. ASSUME NEW p \in Proc, NEW i \in Id,
             NEW move \in {"archive", "restore", "graduate", "demote"}, Begin(p, i, move)
      PROVE  Leased'
  <2>1. PICK m \in Intent :
          /\ m.op = move
          /\ rec' = [rec EXCEPT ![i] = [rec[i] EXCEPT !.intent = m]]
          /\ proc' = [proc EXCEPT ![p] = At("begun", i, m)]
    BY <1>1, BegunIntent
  <2>0. rec[i] \in Record
    BY <1>1 DEF Begin, Source, Trial, Exists, TrialInv, TrialTypes
  <2>2. rec[i] \in Record /\ [rec[i] EXCEPT !.intent = m].intent = m
    BY <2>0, <2>1, ClearedEffect
  <2>3. \A q \in Live : proc[q].id # i
    BY <1>1 DEF Begin, LeaseFree, CatalogFree, Live
  <2>4. journal' = journal /\ [rec[i] EXCEPT !.intent = m] # None
    BY <1>1, <2>1, <2>2, ClearedEffect DEF Begin, Bounds
  <2> DEFINE w == [rec[i] EXCEPT !.intent = m]
  <2> HIDE DEF w
  <2>5. w.intent = m /\ w # None /\ rec' = [rec EXCEPT ![i] = w]
    BY <2>1, <2>2, <2>4 DEF w
  <2> QED
    BY <2>1, <2>3, <2>4, <2>5
       DEF TrialInv, TrialTypes, Leased, Live, At, Moving, Removing, Exists
<1>2. ASSUME NEW p \in Proc, Check(p)
      PROVE  Leased'
  BY <1>2
     DEF Check, TrialInv, TrialTypes, Exists, Goes, Bounds, Leased, Live, Moving, Removing,
         Process
<1>3. ASSUME NEW p \in Proc, Move(p)
      PROVE  Leased'
  BY <1>3
     DEF Move, TrialInv, TrialTypes, Exists, Goes, Bounds, Leased, Live, Moving, Removing,
         Process
<1>4. ASSUME NEW p \in Proc, FailMove(p)
      PROVE  Leased'
  BY <1>4, IdleProcess
     DEF FailMove, TrialInv, TrialTypes, Exists, Ends, Bounds, Leased, Live, Moving,
         Removing, Process
<1>5. ASSUME NEW p \in Proc, Finalize(p)
      PROVE  Leased'
  BY <1>5, IdleProcess
     DEF Finalize, TrialInv, TrialTypes, Records, Exists, Ends, Bounds, Leased, Live,
         Moving, Removing, Process
<1>6. ASSUME NEW p \in Proc, FinalizeFails(p)
      PROVE  Leased'
  BY <1>6
     DEF FinalizeFails, TrialInv, TrialTypes, Exists, Goes, Bounds, Leased, Live, Moving,
         Removing, Process
<1>7. ASSUME NEW p \in Proc, RollBack(p)
      PROVE  Leased'
  BY <1>7
     DEF RollBack, TrialInv, TrialTypes, Exists, Goes, Bounds, Leased, Live, Moving,
         Removing, Process
<1>8. ASSUME NEW p \in Proc, RollBackRefused(p)
      PROVE  Leased'
  BY <1>8, IdleProcess
     DEF RollBackRefused, TrialInv, TrialTypes, Exists, Ends, Bounds, Leased, Live, Moving,
         Removing, Process
<1>9. ASSUME NEW p \in Proc, RepairOwn(p)
      PROVE  Leased'
  BY <1>9, IdleProcess
     DEF RepairOwn, TrialInv, TrialTypes, Exists, Ends, Bounds, Leased, Live, Moving,
         Removing, Process
<1>10. ASSUME NEW p \in Proc, Enrol(p)
      PROVE  Leased'
  <2>1. PICK s \in proc[p].seen : proc' = [proc EXCEPT ![p].seen = @ \ {s}]
    BY <1>10 DEF Enrol
  <2>2. \A q \in Proc : /\ proc'[q].pc = proc[q].pc /\ proc'[q].id = proc[q].id
                       /\ proc'[q].plan = proc[q].plan
    BY <2>1 DEF TrialInv, TrialTypes, Process
  <2>3. \A i \in Id : rec[i] # None => rec'[i] = rec[i]
    BY <1>10 DEF Enrol, Unused, Records, TrialInv, TrialTypes
  <2>4. journal' = journal
    BY <1>10 DEF Enrol
  <2> QED
    BY <2>2, <2>3, <2>4, LeasedKept DEF Live, TrialInv, Leased, Exists
<1>11. ASSUME NEW p \in Proc, Listed(p)
      PROVE  Leased'
  BY <1>11, IdleProcess
     DEF Listed, TrialInv, TrialTypes, Exists, Ends, Bounds, Leased, Live, Moving, Removing,
         Process
<1>12. ASSUME NEW p \in Proc, Attach(p)
      PROVE  Leased'
  <2>1. proc' = [proc EXCEPT ![p] = Idle] /\ journal' = journal
    BY <1>12 DEF Attach, Ends
  <2>2. /\ proc[p].id \in Id \cup {None}
        /\ \A i \in Id \ {proc[p].id} : rec'[i] = rec[i]
        /\ rec' # rec => rec[proc[p].id].intent = None
    BY <1>12 DEF Attach, Records, TrialInv, TrialTypes, Process
  <2>3. \A q \in Live : rec[proc[q].id].intent \in Intent
    BY DEF TrialInv, Leased
  <2>4. \A q \in Live : rec'[proc[q].id] = rec[proc[q].id]
    BY <2>2, <2>3 DEF TrialInv, Leased
  <2>5. \A q \in Live' : q \in Live /\ proc'[q] = proc[q]
    BY <2>1, IdleProcess DEF Live, Moving, Removing, TrialInv, TrialTypes
  <2> QED
    BY <2>1, <2>4, <2>5, LeasedKept DEF TrialInv, Leased, Exists
<1>13. ASSUME NEW p \in Proc, Trash(p)
      PROVE  Leased'
  BY <1>13
     DEF Trash, TrialInv, TrialTypes, Exists, Goes, Bounds, Leased, Live, Moving, Removing,
         Process
<1>14. ASSUME NEW p \in Proc, RemovalFails(p)
      PROVE  Leased'
  BY <1>14, IdleProcess
     DEF RemovalFails, TrialInv, TrialTypes, Exists, Ends, Bounds, Leased, Live, Moving,
         Removing, Process
<1>15. ASSUME NEW p \in Proc, RecordRemoval(p)
      PROVE  Leased'
  <2>1. proc' = [proc EXCEPT ![p].pc = "recorded"] /\ rec' = rec /\ proc[p].pc = "trashed"
    BY <1>15 DEF RecordRemoval, Goes
  <2>2. \A i \in Id : journal[i] # None => journal'[i] # None
    <3>1. proc[p].id \in Id /\ journal[proc[p].id] \in Journal
      BY <2>1, RemovedThings DEF Removing
    <3>2. [journal[proc[p].id] EXCEPT !.outcome = "removed"] \in Journal
      BY <3>1 DEF Journal
    <3> QED
      BY <1>15, <3>1, <3>2 DEF RecordRemoval, TrialInv, TrialTypes
  <2>3. \A q \in Proc \ {p} : proc'[q] = proc[q]
    BY <2>1 DEF TrialInv, TrialTypes
  <2>4. /\ proc'[p].id = proc[p].id /\ proc'[p].plan = proc[p].plan
        /\ proc'[p].pc = "recorded"
    BY <2>1 DEF TrialInv, TrialTypes, Process
  <2> QED
    BY <2>1, <2>2, <2>3, <2>4, LeasedKept DEF Live, TrialInv, Leased, Exists, Removing
<1>16. ASSUME NEW p \in Proc, FinishRemoval(p)
      PROVE  Leased'
  BY <1>16, IdleProcess
     DEF FinishRemoval, TrialInv, TrialTypes, Records, Exists, Ends, Bounds, Leased, Live,
         Moving, Removing, Process
<1>17. ASSUME NEW p \in Proc, Crash(p)
      PROVE  Leased'
  BY <1>17, IdleProcess
     DEF Crash, TrialInv, TrialTypes, Exists, Ends, Leased, Live, Moving, Removing, Process
<1>18. ASSUME NEW p \in Proc, NEW i \in Id \cup {None}, Probe(p, i)
      PROVE  Leased'
  <2>1. PICK seen : proc' = [proc EXCEPT ![p] = [At("probed", i, None) EXCEPT !.seen = seen]]
    BY <1>18 DEF Probe
  <2>2. \A q \in Live' : q \in Live /\ proc'[q] = proc[q]
    BY <2>1 DEF At, Live, Moving, Removing, TrialInv, TrialTypes
  <2> QED
    BY <1>18, <2>2, LeasedKept DEF Probe, TrialInv, Leased, Exists
<1>19. ASSUME NEW p \in Proc, NEW i \in Id, Mark(p, i)
      PROVE  Leased'
  <2>1. PICK m \in Intent :
          /\ m.op = "remove" /\ m.dir # None /\ m.dir \in Dir /\ m.src \in Path
          /\ rec' = [rec EXCEPT ![i] = [rec[i] EXCEPT !.intent = m]]
          /\ proc' = [proc EXCEPT ![p] = At("marked", i, m)]
          /\ journal' = [journal EXCEPT ![i] = [outcome |-> "pending", src |-> m.src,
                                                dir |-> m.dir]]
    BY <1>19, MarkedIntent
  <2>2. rec[i] \in Record /\ [rec[i] EXCEPT !.intent = m].intent = m
    BY <1>19, <2>1, ClearedEffect DEF Mark, Removable, Trial, Exists, TrialInv, TrialTypes
  <2>3. \A q \in Live : proc[q].id # i
    BY <1>19 DEF Mark, Removable, TrialInv, Leased
  <2>4. [rec[i] EXCEPT !.intent = m] # None
    BY <1>19, <2>1, <2>2, ClearedEffect
  <2>6. [outcome |-> "pending", src |-> m.src, dir |-> m.dir] \in Journal
    BY <2>1 DEF Journal
  <2> DEFINE w == [rec[i] EXCEPT !.intent = m]
             j == [outcome |-> "pending", src |-> m.src, dir |-> m.dir]
  <2> HIDE DEF w, j
  <2>5. w.intent = m /\ w # None /\ rec' = [rec EXCEPT ![i] = w]
    BY <2>1, <2>2, <2>4 DEF w
  <2>7. j # None /\ journal' = [journal EXCEPT ![i] = j]
    BY <2>1, <2>6 DEF j
  <2> QED
    BY <2>1, <2>3, <2>5, <2>7
       DEF TrialInv, TrialTypes, Leased, Live, At, Moving, Removing, Exists
<1>20. ASSUME NEW i \in Id, Repair(i)
      PROVE  Leased'
  BY <1>20
     DEF Repair, TrialInv, TrialTypes, Records, Exists, Bounds, Leased, Live, Moving,
         Removing, Process, LeaseFree, CatalogFree
<1>21. ASSUME NEW i \in Id, Forget(i)
      PROVE  Leased'
  BY <1>21
     DEF Forget, TrialInv, TrialTypes, Records, Exists, Trial, Bounds, Leased, Live, Moving,
         Removing, Process
<1>22. ASSUME NEW i \in Id, PutBack(i)
      PROVE  Leased'
  BY <1>22
     DEF PutBack, TrialInv, TrialTypes, Exists, Bounds, Leased, Live, Moving, Removing,
         Process
<1>23. ASSUME NEW i \in Id, NEW path \in Path, Reassociate(i, path)
      PROVE  Leased'
  <2>1. /\ rec[i] \in Record /\ UNCHANGED proc /\ \A j \in Id \ {i} : rec'[j] = rec[j]
        /\ rec[i].intent = None \/ rec[i].intent.op = "remove"
    BY <1>23 DEF Reassociate, Trial, Exists, Records, TrialInv, TrialTypes, Pending
  <2>2. \A q \in Live : proc[q].id # i
    BY <1>23, <2>1 DEF Reassociate, CatalogFree, Live, TrialInv, Leased
  <2>3. \A j \in Id \ {i} : journal'[j] = journal[j]
    BY <1>23 DEF Reassociate, TrialInv, TrialTypes
  <2> QED
    BY <2>1, <2>2, <2>3, LeasedKept DEF Live, TrialInv, Leased, Exists
<1>24. ASSUME NEW v \in Visible, Make(v)
      PROVE  Leased'
  BY <1>24 DEF Make, TrialInv, TrialTypes, Exists, Leased, Live, Moving, Removing, Process
<1>25. ASSUME NEW path \in Path, Displace(path)
      PROVE  Leased'
  BY <1>25
     DEF Displace, TrialInv, TrialTypes, Exists, Leased, Live, Moving, Removing, Process

<1> QED
  BY <1>1, <1>2, <1>3, <1>4, <1>5, <1>6, <1>7, <1>8, <1>9, <1>10, <1>11, <1>12, <1>13,
     <1>14, <1>15, <1>16, <1>17, <1>18, <1>19, <1>20, <1>21, <1>22, <1>23, <1>24, <1>25 DEF
     Next, Onward

LEMMA FinalizedShaped ==
  ASSUME NEW r \in Record, r.intent \in Intent, r.intent.op # "remove", Shaped(r)
  PROVE  Shaped(Finalized(r))
BY FinalizedEffect DEF Shaped

LEMMA ReconciledShaped ==
  ASSUME TrialInv, NEW i \in Id, Exists(i), rec[i].intent # None
  PROVE  Shaped(Reconciled(i))
<1>1. rec[i] \in Record /\ rec[i].intent \in Intent /\ Shaped(rec[i]) /\ TrialTypes
  BY DEF TrialInv, TrialTypes, Exists, Record, AllShaped
<1>2. rec[i].intent.op # "remove" => Shaped(Finalized(rec[i]))
  BY <1>1, FinalizedShaped
<1>3. Shaped(Evicted(rec[i]))
  BY <1>1, EvictedEffect DEF Shaped
<1>4. Shaped([rec[i] EXCEPT !.intent = None])
  BY <1>1, ClearedEffect DEF Shaped
<1> QED
  BY <1>1, <1>2, <1>3, <1>4, ReconciledCases

LEMMA ShapedStep ==
  ASSUME TrialInv, Next
  PROVE  AllShaped'
<1>1. ASSUME NEW p \in Proc, NEW i \in Id,
             NEW move \in {"archive", "restore", "graduate", "demote"}, Begin(p, i, move)
      PROVE  AllShaped'
  <2>1. PICK m \in Intent :
          /\ m.op = move /\ m.src = rec[i].path /\ m.dst \in Path
          /\ m.dir = Reviewed(i, move) /\ Present(m.src)
          /\ rec' = [rec EXCEPT ![i] = [rec[i] EXCEPT !.intent = m]]
    BY <1>1, BegunIntent
  <2>2. rec[i] \in Record /\ Shaped(rec[i])
    BY <1>1 DEF Begin, Source, Trial, Exists, TrialInv, TrialTypes, AllShaped
  <2>3. move \in {"graduate", "demote"} => m.dir # None
    BY <2>1 DEF Reviewed, Present
  <2>4. Shaped([rec[i] EXCEPT !.intent = m])
    BY <2>1, <2>2, <2>3, ClearedEffect DEF Shaped
  <2> QED
    BY <2>1, <2>4 DEF AllShaped, Exists, TrialInv, TrialTypes
<1>2. ASSUME NEW p \in Proc, Check(p)
      PROVE  AllShaped'
  BY <1>2 DEF Check, TrialInv, TrialTypes, Exists, Goes, Bounds, AllShaped, Shaped
<1>3. ASSUME NEW p \in Proc, Move(p)
      PROVE  AllShaped'
  BY <1>3 DEF Move, TrialInv, TrialTypes, Exists, Goes, Bounds, AllShaped, Shaped
<1>4. ASSUME NEW p \in Proc, FailMove(p)
      PROVE  AllShaped'
  BY <1>4, ReconciledShaped DEF FailMove, AllShaped, Exists, TrialInv, TrialTypes
<1>5. ASSUME NEW p \in Proc, Finalize(p)
      PROVE  AllShaped'
  BY <1>5, FinalizingRecord, FinalizedShaped
     DEF Finalize, Records, AllShaped, Exists, TrialInv, TrialTypes
<1>6. ASSUME NEW p \in Proc, FinalizeFails(p)
      PROVE  AllShaped'
  BY <1>6 DEF FinalizeFails, TrialInv, TrialTypes, Exists, Goes, Bounds, AllShaped, Shaped
<1>7. ASSUME NEW p \in Proc, RollBack(p)
      PROVE  AllShaped'
  BY <1>7 DEF RollBack, TrialInv, TrialTypes, Exists, Goes, Bounds, AllShaped, Shaped
<1>8. ASSUME NEW p \in Proc, RollBackRefused(p)
      PROVE  AllShaped'
  BY <1>8 DEF RollBackRefused, TrialInv, TrialTypes, Exists, Ends, Bounds, AllShaped, Shaped
<1>9. ASSUME NEW p \in Proc, RepairOwn(p)
      PROVE  AllShaped'
  BY <1>9, ReconciledShaped DEF RepairOwn, AllShaped, Exists, TrialInv, TrialTypes
<1>10. ASSUME NEW p \in Proc, Enrol(p)
      PROVE  AllShaped'
  BY <1>10, PathTypes
     DEF Enrol, Process, Records, AllShaped, Shaped, Exists, TrialInv, TrialTypes
<1>11. ASSUME NEW p \in Proc, Listed(p)
      PROVE  AllShaped'
  BY <1>11 DEF Listed, TrialInv, TrialTypes, Exists, Ends, Bounds, AllShaped, Shaped
<1>12. ASSUME NEW p \in Proc, Attach(p)
      PROVE  AllShaped'
  <2> DEFINE v == (CHOOSE s \in proc[p].seen : TRUE)[1]
             w == [rec[proc[p].id] EXCEPT !.state = "present", !.path = v, !.restore = None]
  <2>1. v \in Path
    BY <1>12, AttachedPath
  <2>2. \/ rec' = rec
        \/ /\ rec[proc[p].id] \in Record /\ proc[p].id \in Id
           /\ rec[proc[p].id].intent = None /\ rec' = [rec EXCEPT ![proc[p].id] = w]
    BY <1>12 DEF Attach, Records, Trial, Exists, Process, TrialInv, TrialTypes
  <2> HIDE DEF v
  <2>3. rec[proc[p].id] \in Record /\ rec[proc[p].id].intent = None => Shaped(w)
    BY <2>1 DEF Record, Shaped
  <2> HIDE DEF w
  <2> QED
    BY <2>2, <2>3 DEF AllShaped, Exists, TrialInv, TrialTypes
<1>13. ASSUME NEW p \in Proc, Trash(p)
      PROVE  AllShaped'
  BY <1>13 DEF Trash, TrialInv, TrialTypes, Exists, Goes, Bounds, AllShaped, Shaped
<1>14. ASSUME NEW p \in Proc, RemovalFails(p)
      PROVE  AllShaped'
  BY <1>14 DEF RemovalFails, TrialInv, TrialTypes, Exists, Ends, Bounds, AllShaped, Shaped
<1>15. ASSUME NEW p \in Proc, RecordRemoval(p)
      PROVE  AllShaped'
  BY <1>15 DEF RecordRemoval, TrialInv, TrialTypes, Exists, Goes, Bounds, AllShaped, Shaped
<1>16. ASSUME NEW p \in Proc, FinishRemoval(p)
      PROVE  AllShaped'
  <2>1. /\ proc[p].id \in Id /\ rec[proc[p].id] \in Record
        /\ rec[proc[p].id].intent \in Intent
    BY <1>16 DEF FinishRemoval, Leased, Live, Removing, Exists, TrialInv, TrialTypes
  <2>2. Shaped(Evicted(rec[proc[p].id]))
    BY <2>1, EvictedEffect DEF Shaped
  <2> QED
    BY <1>16, <2>1, <2>2 DEF FinishRemoval, Records, AllShaped, Exists, TrialInv, TrialTypes
<1>17. ASSUME NEW p \in Proc, Crash(p)
      PROVE  AllShaped'
  BY <1>17 DEF Crash, TrialInv, TrialTypes, Exists, Ends, AllShaped, Shaped
<1>18. ASSUME NEW p \in Proc, NEW i \in Id \cup {None}, Probe(p, i)
      PROVE  AllShaped'
  BY <1>18 DEF Probe, TrialInv, TrialTypes, Exists, Bounds, AllShaped, Shaped
<1>19. ASSUME NEW p \in Proc, NEW i \in Id, Mark(p, i)
      PROVE  AllShaped'
  <2>1. PICK m \in Intent :
          /\ m.op = "remove" /\ rec' = [rec EXCEPT ![i] = [rec[i] EXCEPT !.intent = m]]
    BY <1>19, MarkedIntent
  <2>2. rec[i] \in Record /\ Shaped(rec[i])
    BY <1>19 DEF Mark, Removable, Trial, Exists, TrialInv, TrialTypes, AllShaped
  <2>4. Shaped([rec[i] EXCEPT !.intent = m])
    BY <2>1, <2>2, ClearedEffect DEF Shaped
  <2> QED
    BY <2>1, <2>4 DEF AllShaped, Exists, TrialInv, TrialTypes
<1>20. ASSUME NEW i \in Id, Repair(i)
      PROVE  AllShaped'
  BY <1>20, ReconciledShaped DEF Repair, Records, AllShaped, Exists, TrialInv, TrialTypes
<1>21. ASSUME NEW i \in Id, Forget(i)
      PROVE  AllShaped'
  BY <1>21
     DEF Forget, TrialInv, TrialTypes, Records, Exists, Trial, Bounds, AllShaped, Shaped
<1>22. ASSUME NEW i \in Id, PutBack(i)
      PROVE  AllShaped'
  BY <1>22 DEF PutBack, TrialInv, TrialTypes, Exists, Bounds, AllShaped, Shaped
<1>23. ASSUME NEW i \in Id, NEW path \in Path, Reassociate(i, path)
      PROVE  AllShaped'
  <2>1. rec[i] \in Record
    BY <1>23 DEF Reassociate, Trial, Exists, TrialInv, TrialTypes
  <2> DEFINE w == [rec[i] EXCEPT !.state = IF path \in Visible THEN "present" ELSE "archived",
                                 !.path = path, !.restore = IF path \in Visible THEN None ELSE @,
                                 !.intent = None]
  <2>2. Shaped(w)
    BY <2>1 DEF Record, Shaped
  <2>3. rec' = [rec EXCEPT ![i] = w]
    BY <1>23 DEF Reassociate, Records
  <2> HIDE DEF w
  <2> QED
    BY <2>2, <2>3 DEF AllShaped, Exists, TrialInv, TrialTypes
<1>24. ASSUME NEW v \in Visible, Make(v)
      PROVE  AllShaped'
  BY <1>24 DEF Make, TrialInv, TrialTypes, Exists, AllShaped, Shaped
<1>25. ASSUME NEW path \in Path, Displace(path)
      PROVE  AllShaped'
  BY <1>25 DEF Displace, TrialInv, TrialTypes, Exists, AllShaped, Shaped

<1> QED
  BY <1>1, <1>2, <1>3, <1>4, <1>5, <1>6, <1>7, <1>8, <1>9, <1>10, <1>11, <1>12, <1>13,
     <1>14, <1>15, <1>16, <1>17, <1>18, <1>19, <1>20, <1>21, <1>22, <1>23, <1>24, <1>25 DEF
     Next, Onward

LEMMA InitTrialInv == Init => TrialInv
<1> SUFFICES ASSUME Init PROVE TrialInv
  OBVIOUS
<1>1. TrialTypes
  BY IdleProcess DEF Init, TrialTypes
<1>2. Leased
  BY IdleProcess DEF Init, Leased, Live, Moving, Removing
<1>3. Looked /\ AllShaped
  BY IdleProcess DEF Init, Looked, AllShaped, Exists
<1> QED
  BY <1>1, <1>2, <1>3 DEF TrialInv

LEMMA TrialStep ==
  ASSUME TrialInv, [Next]_vars
  PROVE  TrialInv'
<1>1. CASE Next
  <2>1. TrialTypes'
    BY <1>1, RecordTypes, PositionTypes, DiskTypes, OwnTypes DEF TrialTypes
  <2> QED
    BY <1>1, <2>1, LookedStep, LeasedStep, ShapedStep DEF TrialInv
<1>2. CASE UNCHANGED vars
  BY <1>2 DEF vars, TrialInv, TrialTypes, Leased, Live, Looked, AllShaped, Exists
<1> QED
  BY <1>1, <1>2

\* Shapes, and who has which record, are kept by every step.
THEOREM TrialInvariance == Spec => []TrialInv
BY InitTrialInv, TrialStep, PTL DEF Spec

\* The intent of a move or removal under way belongs to the process that is at work,
\* whatever listings, other commands and the operator do (withMoveLease,
\* beginMoveIntent).
THEOREM LiveIntentKeptTheorem == Spec => []LiveIntentKept
<1>1. TrialInv => LiveIntentKept
  BY DEF TrialInv, Leased, Live, LiveIntentKept
<1> QED
  BY <1>1, TrialInvariance, PTL

\* A phase changes when an intent is carried out, and then its directory is there.
LEMMA CarriedOut ==
  ASSUME TrialInv, NEW i \in Id, Exists(i), rec[i].intent # None, rec[i].intent.op # "remove",
         WasMoved(rec[i].intent), NEW s \in Record, s = Finalized(rec[i]), s.phase # rec[i].phase
  PROVE  rec[i].intent.dir # None /\ fs[s.path] = rec[i].intent.dir
<1>1. rec[i] \in Record /\ rec[i].intent \in Intent /\ Shaped(rec[i])
  BY DEF TrialInv, TrialTypes, Exists, Record, AllShaped
<1>2. rec[i].intent.op \in {"graduate", "demote"} /\ s.path = rec[i].intent.dst
  BY <1>1, FinalizedEffect
<1> QED
  BY <1>1, <1>2 DEF Shaped, WasMoved, SameDirectory

LEMMA CarriedOutByRepair ==
  ASSUME TrialInv, NEW i \in Id, Exists(i), rec[i].intent # None, Reconciled(i).phase # rec[i].phase
  PROVE  rec[i].intent.dir # None /\ fs[Reconciled(i).path] = rec[i].intent.dir
<1>1. TrialTypes /\ Shaped(rec[i])
  BY DEF TrialInv, AllShaped
<1> QED
  BY <1>1, ReconciledEffect DEF Shaped, WasMoved, SameDirectory

LEMMA ReviewedStep ==
  ASSUME TrialInv, Next
  PROVE  AsReviewed
<1>1. ASSUME NEW p \in Proc, NEW i \in Id,
             NEW move \in {"archive", "restore", "graduate", "demote"}, Begin(p, i, move)
      PROVE  AsReviewed
  <2>1. PICK m \in Intent : rec' = [rec EXCEPT ![i] = [rec[i] EXCEPT !.intent = m]]
    BY <1>1, BegunIntent
  <2>2. rec[i] \in Record
    BY <1>1 DEF Begin, Source, Trial, Exists, TrialInv, TrialTypes
  <2>3. [rec[i] EXCEPT !.intent = m].phase = rec[i].phase
    BY <2>1, <2>2, ClearedEffect
  <2> QED
    BY <2>1, <2>3 DEF AsReviewed, TrialInv, TrialTypes
<1>2. ASSUME NEW p \in Proc, Check(p)
      PROVE  AsReviewed
  BY <1>2 DEF Check, TrialInv, TrialTypes, Exists, Goes, Bounds, AsReviewed
<1>3. ASSUME NEW p \in Proc, Move(p)
      PROVE  AsReviewed
  BY <1>3 DEF Move, TrialInv, TrialTypes, Exists, Goes, Bounds, AsReviewed
<1>4. ASSUME NEW p \in Proc, FailMove(p)
      PROVE  AsReviewed
  BY <1>4, CarriedOutByRepair DEF FailMove, AsReviewed, Exists, TrialInv, TrialTypes
<1>5. ASSUME NEW p \in Proc, Finalize(p)
      PROVE  AsReviewed
  <2>1. LET i == proc[p].id IN
        /\ i \in Id /\ rec[i] \in Record /\ rec[i].intent \in Intent /\ Exists(i)
        /\ rec[i].intent.op # "remove" /\ rec[i].intent # None /\ WasMoved(rec[i].intent)
        /\ rec' = [rec EXCEPT ![i] = Finalized(rec[i])]
    BY <1>5, FinalizingRecord DEF Finalize, Records, Exists
  <2>2. LET i == proc[p].id IN Finalized(rec[i]) \in Record
    BY <2>1, FinalizedEffect
  <2> QED
    BY <2>1, <2>2, CarriedOut DEF AsReviewed, TrialInv, TrialTypes
<1>6. ASSUME NEW p \in Proc, FinalizeFails(p)
      PROVE  AsReviewed
  BY <1>6 DEF FinalizeFails, TrialInv, TrialTypes, Exists, Goes, Bounds, AsReviewed
<1>7. ASSUME NEW p \in Proc, RollBack(p)
      PROVE  AsReviewed
  BY <1>7 DEF RollBack, TrialInv, TrialTypes, Exists, Goes, Bounds, AsReviewed
<1>8. ASSUME NEW p \in Proc, RollBackRefused(p)
      PROVE  AsReviewed
  BY <1>8 DEF RollBackRefused, TrialInv, TrialTypes, Exists, Ends, Bounds, AsReviewed
<1>9. ASSUME NEW p \in Proc, RepairOwn(p)
      PROVE  AsReviewed
  BY <1>9, CarriedOutByRepair DEF RepairOwn, AsReviewed, Exists, TrialInv, TrialTypes
<1>10. ASSUME NEW p \in Proc, Enrol(p)
      PROVE  AsReviewed
  BY <1>10 DEF Enrol, Unused, Records, AsReviewed, Exists, TrialInv, TrialTypes
<1>11. ASSUME NEW p \in Proc, Listed(p)
      PROVE  AsReviewed
  BY <1>11 DEF Listed, TrialInv, TrialTypes, Exists, Ends, Bounds, AsReviewed
<1>12. ASSUME NEW p \in Proc, Attach(p)
      PROVE  AsReviewed
  <2> DEFINE v == (CHOOSE s \in proc[p].seen : TRUE)[1]
             w == [rec[proc[p].id] EXCEPT !.state = "present", !.path = v, !.restore = None]
  <2>2. \/ rec' = rec
        \/ /\ rec[proc[p].id] \in Record /\ proc[p].id \in Id
           /\ rec' = [rec EXCEPT ![proc[p].id] = w]
    BY <1>12 DEF Attach, Records, Trial, Exists, Process, TrialInv, TrialTypes
  <2> HIDE DEF v
  <2>3. rec[proc[p].id] \in Record => w.phase = rec[proc[p].id].phase
    BY DEF Record
  <2> HIDE DEF w
  <2> QED
    BY <2>2, <2>3 DEF AsReviewed, TrialInv, TrialTypes
<1>13. ASSUME NEW p \in Proc, Trash(p)
      PROVE  AsReviewed
  BY <1>13 DEF Trash, TrialInv, TrialTypes, Exists, Goes, Bounds, AsReviewed
<1>14. ASSUME NEW p \in Proc, RemovalFails(p)
      PROVE  AsReviewed
  BY <1>14 DEF RemovalFails, TrialInv, TrialTypes, Exists, Ends, Bounds, AsReviewed
<1>15. ASSUME NEW p \in Proc, RecordRemoval(p)
      PROVE  AsReviewed
  BY <1>15 DEF RecordRemoval, TrialInv, TrialTypes, Exists, Goes, Bounds, AsReviewed
<1>16. ASSUME NEW p \in Proc, FinishRemoval(p)
      PROVE  AsReviewed
  <2>1. /\ proc[p].id \in Id /\ rec[proc[p].id] \in Record
        /\ rec[proc[p].id].intent \in Intent
    BY <1>16 DEF FinishRemoval, Leased, Live, Removing, Exists, TrialInv, TrialTypes
  <2>2. Evicted(rec[proc[p].id]).phase = rec[proc[p].id].phase
    BY <2>1, EvictedEffect
  <2> QED
    BY <1>16, <2>1, <2>2
       DEF FinishRemoval, Records, AsReviewed, Exists, TrialInv, TrialTypes
<1>17. ASSUME NEW p \in Proc, Crash(p)
      PROVE  AsReviewed
  BY <1>17 DEF Crash, TrialInv, TrialTypes, Exists, Ends, AsReviewed
<1>18. ASSUME NEW p \in Proc, NEW i \in Id \cup {None}, Probe(p, i)
      PROVE  AsReviewed
  BY <1>18 DEF Probe, TrialInv, TrialTypes, Exists, Bounds, AsReviewed
<1>19. ASSUME NEW p \in Proc, NEW i \in Id, Mark(p, i)
      PROVE  AsReviewed
  <2>1. PICK m \in Intent : rec' = [rec EXCEPT ![i] = [rec[i] EXCEPT !.intent = m]]
    BY <1>19, MarkedIntent
  <2>2. rec[i] \in Record
    BY <1>19 DEF Mark, Removable, Trial, Exists, TrialInv, TrialTypes
  <2>3. [rec[i] EXCEPT !.intent = m].phase = rec[i].phase
    BY <2>1, <2>2, ClearedEffect
  <2> QED
    BY <2>1, <2>3 DEF AsReviewed, TrialInv, TrialTypes
<1>20. ASSUME NEW i \in Id, Repair(i)
      PROVE  AsReviewed
  BY <1>20, CarriedOutByRepair DEF Repair, Records, AsReviewed, Exists, TrialInv, TrialTypes
<1>21. ASSUME NEW i \in Id, Forget(i)
      PROVE  AsReviewed
  BY <1>21 DEF Forget, TrialInv, TrialTypes, Records, Exists, Trial, Bounds, AsReviewed
<1>22. ASSUME NEW i \in Id, PutBack(i)
      PROVE  AsReviewed
  BY <1>22 DEF PutBack, TrialInv, TrialTypes, Exists, Bounds, AsReviewed
<1>23. ASSUME NEW i \in Id, NEW path \in Path, Reassociate(i, path)
      PROVE  AsReviewed
  <2>1. rec[i] \in Record
    BY <1>23 DEF Reassociate, Trial, Exists, TrialInv, TrialTypes
  <2> DEFINE w == [rec[i] EXCEPT !.state = IF path \in Visible THEN "present" ELSE "archived",
                                 !.path = path, !.restore = IF path \in Visible THEN None ELSE @,
                                 !.intent = None]
  <2>2. w.phase = rec[i].phase
    BY <2>1 DEF Record
  <2>3. rec' = [rec EXCEPT ![i] = w]
    BY <1>23 DEF Reassociate, Records
  <2> HIDE DEF w
  <2> QED
    BY <2>2, <2>3 DEF AsReviewed, TrialInv, TrialTypes
<1>24. ASSUME NEW v \in Visible, Make(v)
      PROVE  AsReviewed
  BY <1>24 DEF Make, TrialInv, TrialTypes, Exists, AsReviewed
<1>25. ASSUME NEW path \in Path, Displace(path)
      PROVE  AsReviewed
  BY <1>25 DEF Displace, TrialInv, TrialTypes, Exists, AsReviewed

<1> QED
  BY <1>1, <1>2, <1>3, <1>4, <1>5, <1>6, <1>7, <1>8, <1>9, <1>10, <1>11, <1>12, <1>13,
     <1>14, <1>15, <1>16, <1>17, <1>18, <1>19, <1>20, <1>21, <1>22, <1>23, <1>24, <1>25 DEF
     Next, Onward

\* A record turns into a project's, or back, only together with the very directory
\* that was reviewed, also when directories are exchanged and when a listing finishes
\* what a dead process began (verifyDemoteDestination, finalizeMoveIntent).
THEOREM ReviewedOnlyTheorem == Spec => ReviewedOnly
BY ReviewedStep, TrialInvariance, PTL DEF Spec, ReviewedOnly

-----------------------------------------------------------------------------
(* Where directories are while nobody but dev moves them.                    *)
HomeOps == {"archive", "restore", "remove", "reassociate", "list"}
AtHome == Ops \subseteq HomeOps /\ ~AnyTarget

\* The one visible place of a trial: there it was enrolled, and there it returns.
Home(i) == IF rec[i].state = "present" THEN rec[i].path ELSE rec[i].restore
Region(i) == {Home(i)} \cup Reserved(i)

Housed(i) ==
  LET r == rec[i] IN
  /\ Home(i) \in Visible /\ r.phase = "active"
  /\ r.state = "present"  => r.restore = None
  /\ r.state = "archived" => r.path \in Reserved(i)
  /\ r.state = "evicted"  => r.intent = None /\ journal[i] # None

Bound(i) ==
  LET r == rec[i] m == rec[i].intent IN
  m # None =>
    /\ m.src = r.path
    /\ m.op = "archive" => r.state = "present" /\ m.dst \in Reserved(i)
    /\ m.op = "restore" => r.state = "archived" /\ m.dst = Home(i)
    /\ m.op \in {"archive", "restore"} => m.dir = None
    /\ m.op = "remove" => journal[i] # None /\ journal[i].src = m.src /\ m.dir = own[i]
    /\ m.op \in {"archive", "restore", "remove"}

Traced(i) == journal[i] # None => journal[i].src \in Region(i) /\ journal[i].dir = own[i]

Good(i) == own[i] # None /\ Housed(i) /\ Bound(i) /\ Traced(i) /\ Located(i)

\* Where the directory is that a process is at work on.
Placed(p) ==
  LET i == proc[p].id m == proc[p].plan IN
  /\ proc[p].pc \in {"begun", "checked", "undone", "marked"} => fs[m.src] = own[i]
  /\ proc[p].pc \in {"moved", "undo"} => fs[m.dst] = own[i]
  /\ proc[p].pc = "recorded" => journal[i].outcome = "removed"

\* Nothing was enrolled from where it had left.
Seen(s) == \/ fs[s[1]] = s[2] /\ ~Owned(s[2])
           \/ \E i \in Id : Exists(i) /\ own[i] = s[2] /\ Home(i) = s[1]

OnePlace ==
  /\ \A x \in Path : \A y \in Path : fs[x] # None /\ fs[x] = fs[y] => x = y
  /\ \A x \in Path : fs[x] \notin trash
  /\ \A x \in Path : fs[x] # None => fs[x] <= made
  /\ \A d \in trash : d <= made

Settled ==
  /\ \A i \in Id : ~Exists(i) => journal[i] = None
  /\ \A i \in Id : Exists(i) => Good(i)
  /\ \A i, j \in Id : i # j /\ Exists(i) /\ Exists(j) => own[i] # own[j] /\ Home(i) # Home(j)
  /\ OnePlace
  /\ \A p \in Proc : Placed(p)
  /\ \A p \in Proc : \A s \in proc[p].seen : Seen(s)
  /\ \A p \in Proc : proc[p].pc = "probed" => proc[p].id = None
HomeInv == TrialInv /\ touches \in Nat /\ (touches = 0 => Settled)

LEMMA PlacesApart ==
  /\ \A i \in Id : Visible \cap Reserved(i) = {}
  /\ \A i, j \in Id : i # j => Reserved(i) \cap Reserved(j) = {}
<1>1. ASSUME NEW i \in Id, NEW m \in Name, NEW n \in Name
      PROVE  <<"try", m>> # Archive(i, n)
  BY DEF Archive
<1>2. ASSUME NEW i \in Id, NEW j \in Id, i # j, NEW m \in Name, NEW n \in Name
      PROVE  Archive(i, m) # Archive(j, n)
  BY <1>2 DEF Archive
<1> QED
  BY <1>1, <1>2 DEF Visible, Reserved

\* A record's places are its own.
LEMMA RegionsApart ==
  ASSUME Settled, NEW i \in Id, NEW j \in Id, i # j, Exists(i), Exists(j)
  PROVE  Region(i) \cap Region(j) = {}
<1>1. Home(i) \in Visible /\ Home(j) \in Visible /\ Home(i) # Home(j)
  BY DEF Settled, Good, Housed
<1> QED
  BY <1>1, PlacesApart DEF Region

LEMMA PlacesOf ==
  ASSUME TrialInv, Settled, NEW i \in Id, Exists(i)
  PROVE  /\ rec[i] \in Record /\ Region(i) \subseteq Path /\ own[i] # None /\ own[i] \in Dir
         /\ rec[i].state # "evicted" => rec[i].path \in Region(i)
         /\ rec[i].intent # None =>
              /\ rec[i].intent \in Intent /\ rec[i].intent.src \in Region(i)
              /\ rec[i].intent.op # "remove" => rec[i].intent.dst \in Region(i)
<1>1. rec[i] \in Record /\ Good(i) /\ own[i] \in Dir
  BY DEF TrialInv, TrialTypes, Settled, Exists, Good
<1>2. Region(i) \subseteq Path
  BY <1>1, PathTypes DEF Region, Good, Housed
<1>3. rec[i].state # "evicted" => rec[i].path \in Region(i)
  BY <1>1 DEF Good, Housed, Region, Home, Record
<1>4. ASSUME rec[i].intent # None
      PROVE  /\ rec[i].intent \in Intent /\ rec[i].intent.src \in Region(i)
             /\ rec[i].intent.op # "remove" => rec[i].intent.dst \in Region(i)
  BY <1>1, <1>3, <1>4 DEF Good, Housed, Bound, Region, Record
<1> QED
  BY <1>1, <1>2, <1>3, <1>4 DEF Good

\* Where a trial's directory is.
LEMMA Found ==
  ASSUME TrialInv, Settled, NEW i \in Id, Exists(i)
  PROVE  own[i] \in trash \/ \E x \in Region(i) : fs[x] = own[i]
<1>1. Located(i) /\ Traced(i)
  BY DEF Settled, Good
<1>2. CASE rec[i].intent # None
  BY <1>1, <1>2, PlacesOf DEF Located
<1>3. CASE rec[i].intent = None /\ rec[i].state = "evicted"
  <2>1. journal[i].dir = own[i] /\ (own[i] \in trash \/ fs[journal[i].src] = own[i])
    BY <1>1, <1>3 DEF Located
  <2>2. journal[i] # None
    BY <1>3 DEF Settled, Good, Housed
  <2> QED
    BY <1>1, <2>1, <2>2 DEF Traced
<1>4. CASE rec[i].intent = None /\ rec[i].state # "evicted"
  BY <1>1, <1>4, PlacesOf DEF Located
<1> QED
  BY <1>2, <1>3, <1>4

\* A step that leaves a record, and does not take its directory from it.
LEMMA GoodStill ==
  ASSUME TrialInv, Settled, NEW j \in Id, Exists(j),
         rec'[j] = rec[j], journal'[j] = journal[j], own'[j] = own[j],
         \A x \in Region(j) : fs[x] = own[j] => fs'[x] = own[j],
         own[j] \in trash => own[j] \in trash'
  PROVE  Good(j)' /\ Home(j)' = Home(j) /\ Exists(j)'
<1>1. Good(j)
  BY DEF Settled
<1>2. Home(j)' = Home(j) /\ Exists(j)'
  BY DEF Home, Exists
<1>3. own'[j] # None /\ Housed(j)' /\ Bound(j)' /\ Traced(j)'
  BY <1>1, <1>2 DEF Good, Housed, Bound, Traced, Region
<1>4. Located(j)'
  <2>1. rec[j].intent # None =>
          /\ rec[j].intent.src \in Region(j)
          /\ rec[j].intent.op # "remove" => rec[j].intent.dst \in Region(j)
    BY PlacesOf
  <2>2. rec[j].state # "evicted" => rec[j].path \in Region(j)
    BY PlacesOf
  <2>3. rec[j].state = "evicted" /\ rec[j].intent = None => journal[j].src \in Region(j)
    BY <1>1 DEF Good, Traced, Housed
  <2>4. Located(j)
    BY <1>1 DEF Good
  <2> QED
    BY <2>1, <2>2, <2>3, <2>4 DEF Located
<1> QED
  BY <1>2, <1>3, <1>4 DEF Good

\* A step at one record: the places and records of the others stay.
Touches(i) ==
  /\ \A j \in Id \ {i} : rec'[j] = rec[j] /\ journal'[j] = journal[j] /\ own'[j] = own[j]
  /\ \A x \in Path : fs'[x] # fs[x] /\ fs[x] # None => x \in Region(i) /\ fs[x] = own[i]
  /\ \A d \in trash : d # own[i] => d \in trash'

LEMMA OthersGood ==
  ASSUME TrialInv, Settled, NEW i \in Id, Exists(i), Touches(i), NEW j \in Id \ {i}
  PROVE  /\ Exists(j)' <=> Exists(j)
         /\ Exists(j) => Good(j)' /\ Home(j)' = Home(j)
         /\ own'[j] = own[j] /\ journal'[j] = journal[j]
<1>1. rec'[j] = rec[j] /\ journal'[j] = journal[j] /\ own'[j] = own[j]
  BY DEF Touches
<1>2. Exists(j)' <=> Exists(j)
  BY <1>1 DEF Exists
<1>3. ASSUME Exists(j)
      PROVE  Good(j)' /\ Home(j)' = Home(j)
  <2>1. Region(i) \cap Region(j) = {} /\ Region(j) \subseteq Path /\ own[j] # None
    BY <1>3, RegionsApart, PlacesOf
  <2>2. \A x \in Region(j) : fs[x] = own[j] => fs'[x] = own[j]
    BY <2>1 DEF Touches
  <2>3. own[i] # own[j]
    BY <1>3 DEF Settled
  <2> QED
    BY <1>1, <1>3, <2>2, <2>3, GoodStill DEF Touches
<1> QED
  BY <1>1, <1>2, <1>3

\* What a process at work on another record counts on.
LEMMA PlacedStill ==
  ASSUME TrialInv, Settled, NEW i \in Id, Exists(i), Touches(i),
         NEW q \in Proc, proc'[q] = proc[q], q \in Live => proc[q].id # i
  PROVE  Placed(q)'
<1>1. CASE q \notin Live
  BY <1>1 DEF Placed, Live, Moving, Removing
<1>2. CASE q \in Live
  <2> DEFINE j == proc[q].id
  <2>1. /\ j \in Id \ {i} /\ Exists(j) /\ rec[j].intent = proc[q].plan /\ rec[j].intent # None
        /\ rec[j].intent.op = "remove" <=> proc[q].pc \in Removing
    BY <1>2 DEF TrialInv, Leased
  <2>2. Region(i) \cap Region(j) = {} /\ Region(j) \subseteq Path /\ own[j] # None
    BY <2>1, RegionsApart, PlacesOf
  <2>3. /\ rec[j].intent.src \in Region(j)
        /\ rec[j].intent.op # "remove" => rec[j].intent.dst \in Region(j)
    BY <2>1, PlacesOf
  <2>4. \A x \in Region(j) : fs[x] = own[j] => fs'[x] = own[j]
    BY <2>2 DEF Touches
  <2>5. own'[j] = own[j] /\ journal'[j] = journal[j] /\ Placed(q)
    BY <2>1 DEF Touches, Settled
  <2> HIDE DEF j
  <2>6. proc[q].pc \in {"moved", "undo"} => rec[j].intent.op # "remove"
    BY <2>1 DEF Removing
  <2> QED
    BY <2>1, <2>3, <2>4, <2>5, <2>6 DEF Placed, j
<1> QED
  BY <1>1, <1>2

LEMMA Assembled ==
  ASSUME TrialInv, Settled, NEW i \in Id, Exists(i), Touches(i),
         Exists(i)', own'[i] = own[i], Home(i)' = Home(i), Good(i)', OnePlace',
         \A q \in Proc : proc'[q].seen \subseteq proc[q].seen,
         \A q \in Proc : proc'[q].pc = "probed" => proc'[q].id = None,
         \A q \in Proc : Placed(q)' \/ (proc'[q] = proc[q] /\ (q \in Live => proc[q].id # i))
  PROVE  Settled'
<1>1. \A j \in Id : /\ Exists(j)' <=> Exists(j)
                    /\ Exists(j) => Good(j)' /\ Home(j)' = Home(j)
                    /\ own'[j] = own[j]
  BY OthersGood
<1>2. \A j \in Id : ~Exists(j)' => journal'[j] = None
  BY OthersGood DEF Settled
<1>3. \A j, k \in Id : j # k /\ Exists(j)' /\ Exists(k)' => own'[j] # own'[k] /\ Home(j)' # Home(k)'
  BY <1>1 DEF Settled
<1>4. \A q \in Proc : Placed(q)'
  BY PlacedStill
<1>5. \A d : Owned(d)' <=> Owned(d)
  BY <1>1 DEF Owned
<1>6. ASSUME NEW q \in Proc, NEW s \in proc'[q].seen
      PROVE  Seen(s)'
  <2>1. Seen(s) /\ s[1] \in Path
    BY <1>6, PathTypes DEF Settled, TrialInv, TrialTypes, Process
  <2>2. CASE fs[s[1]] = s[2] /\ ~Owned(s[2])
    <3>1. s[2] # None
      BY <1>6 DEF TrialInv, TrialTypes, Process, Dir
    <3>2. fs'[s[1]] = s[2]
      BY <2>1, <2>2, <3>1 DEF Touches, Owned
    <3> QED
      BY <2>2, <3>2, <1>5 DEF Seen
  <2>3. CASE \E j \in Id : Exists(j) /\ own[j] = s[2] /\ Home(j) = s[1]
    BY <1>1, <2>3 DEF Seen
  <2> QED
    BY <2>1, <2>2, <2>3 DEF Seen
<1> QED
  BY <1>1, <1>2, <1>3, <1>4, <1>6 DEF Settled

\* Nothing changes but positions.
LEMMA SettledStill ==
  ASSUME TrialInv, Settled, UNCHANGED <<fs, rec, journal, trash, own, made>>,
         \A q \in Proc : Placed(q)',
         \A q \in Proc : \A s \in proc'[q].seen : Seen(s)',
         \A q \in Proc : proc'[q].pc = "probed" => proc'[q].id = None
  PROVE  Settled'
<1>1. \A i \in Id : (Exists(i)' <=> Exists(i)) /\ Home(i)' = Home(i)
  BY DEF Exists, Home
<1>2. \A i \in Id : Exists(i) => Good(i)' /\ Home(i)' = Home(i) /\ Exists(i)'
  BY GoodStill
<1>3. OnePlace'
  BY DEF Settled, OnePlace
<1> QED
  BY <1>1, <1>2, <1>3 DEF Settled, Exists

-----------------------------------------------------------------------------
(* What the steps on one record do to it.                                    *)
LEMMA RenamedOnce ==
  ASSUME TrialInv, Settled, NEW src \in Path, NEW dst \in Path, Rename(src, dst),
         UNCHANGED <<trash, made>>
  PROVE  /\ OnePlace' /\ fs'[dst] = fs[src] /\ fs'[src] = None
         /\ \A x \in Path : fs'[x] # fs[x] /\ fs[x] # None => x = src
<1>1. fs \in [Path -> Dir \cup {None}] /\ OnePlace /\ src # dst
  BY DEF TrialInv, TrialTypes, Settled, Rename, Present
<1>2. \A x \in Path : fs'[x] = IF x = dst THEN fs[src] ELSE IF x = src THEN None ELSE fs[x]
  BY <1>1 DEF Rename
<1>3. fs[src] # None /\ fs[dst] = None
  BY DEF Rename, Present
<1>4. \A x \in Path : \A y \in Path : fs'[x] # None /\ fs'[x] = fs'[y] => x = y
  BY <1>1, <1>2, <1>3 DEF OnePlace
<1>5. \A d \in trash : d <= made
  BY <1>1 DEF OnePlace
<1>6. \A x \in Path : fs'[x] \notin trash
  BY <1>1, <1>2, <1>3 DEF OnePlace, TrialInv, TrialTypes, Dir
<1>7. \A x \in Path : fs'[x] # None => fs'[x] <= made
  BY <1>1, <1>2, <1>3 DEF OnePlace
<1> QED
  BY <1>1, <1>2, <1>3, <1>4, <1>5, <1>6, <1>7 DEF OnePlace

LEMMA ClearedGood ==
  ASSUME TrialInv, Settled, NEW i \in Id, Exists(i), rec[i].intent # None,
         rec[i].intent.op # "remove", NotMoved(rec[i].intent),
         rec'[i] = [rec[i] EXCEPT !.intent = None], UNCHANGED <<fs, journal, own, trash>>
  PROVE  Good(i)' /\ Home(i)' = Home(i) /\ Exists(i)'
<1> DEFINE s == rec'[i]
<1>1. /\ s \in Record /\ s.intent = None /\ s.phase = rec[i].phase /\ s.path = rec[i].path
      /\ s.restore = rec[i].restore /\ s.state = rec[i].state
  BY ClearedEffect, PlacesOf
<1>2. Good(i) /\ rec[i].path = rec[i].intent.src
  BY DEF Settled, Good, Bound
<1>3. fs[rec[i].path] = own[i]
  BY <1>2 DEF Good, Located, NotMoved, Present
<1>4. s.state # "evicted" /\ s # None
  BY <1>1, <1>2 DEF Good, Housed
<1> HIDE DEF s
<1>5. Home(i)' = Home(i) /\ Exists(i)'
  BY <1>1, <1>4 DEF Home, Exists, s
<1>6. Housed(i)' /\ Bound(i)' /\ Traced(i)' /\ Located(i)'
  BY <1>1, <1>2, <1>3, <1>4, <1>5 DEF Good, Housed, Bound, Traced, Region, Located, s
<1> QED
  BY <1>2, <1>5, <1>6 DEF Good

LEMMA FinalizedGood ==
  ASSUME TrialInv, Settled, NEW i \in Id, Exists(i), rec[i].intent # None,
         rec[i].intent.op # "remove", fs[rec[i].intent.dst] = own[i],
         rec'[i] = Finalized(rec[i]), UNCHANGED <<fs, journal, own, trash>>
  PROVE  Good(i)' /\ Home(i)' = Home(i) /\ Exists(i)'
<1> DEFINE s == rec'[i]
           m == rec[i].intent
<1>1. Good(i) /\ rec[i] \in Record /\ m \in Intent
  BY PlacesOf DEF Settled
<1>2. /\ m.op \in {"archive", "restore"}
      /\ m.op = "archive" => rec[i].state = "present" /\ m.dst \in Reserved(i)
      /\ m.op = "restore" => rec[i].state = "archived" /\ m.dst = Home(i)
      /\ m.src = rec[i].path
  BY <1>1 DEF Good, Bound
<1>3. /\ s \in Record /\ s.intent = None /\ s.path = m.dst /\ s.phase = rec[i].phase
      /\ s.restore = IF m.op = "archive" THEN m.src ELSE None
      /\ s.state = IF m.op = "archive" THEN "archived" ELSE "present"
  BY <1>1, <1>2, FinalizedEffect
<1>4. s # None
  BY <1>3
<1> HIDE DEF s, m
<1>5. Home(i)' = Home(i) /\ Exists(i)'
  BY <1>2, <1>3, <1>4 DEF Home, Exists, s
<1>6. Housed(i)'
  BY <1>1, <1>2, <1>3, <1>5 DEF Good, Housed, s
<1>7. Bound(i)' /\ Traced(i)'
  BY <1>1, <1>3, <1>5 DEF Good, Bound, Traced, Region, s
<1>8. Located(i)'
  BY <1>3 DEF Located, s, m
<1> QED
  BY <1>1, <1>5, <1>6, <1>7, <1>8 DEF Good

LEMMA EvictedGood ==
  ASSUME TrialInv, Settled, NEW i \in Id, Exists(i), rec[i].intent # None,
         rec[i].intent.op = "remove", journal[i].outcome = "removed",
         rec'[i] = Evicted(rec[i]), UNCHANGED <<fs, journal, own, trash>>
  PROVE  Good(i)' /\ Home(i)' = Home(i) /\ Exists(i)'
<1> DEFINE s == rec'[i]
           m == rec[i].intent
<1>1. Good(i) /\ rec[i] \in Record /\ m \in Intent
  BY PlacesOf DEF Settled
<1>2. journal[i] # None /\ journal[i].src = m.src /\ m.src = rec[i].path
  BY <1>1 DEF Good, Bound
<1>3. /\ s \in Record /\ s.intent = None /\ s.phase = rec[i].phase /\ s.state = "evicted"
      /\ s.restore = IF rec[i].restore = None THEN m.src ELSE rec[i].restore
  BY <1>1, EvictedEffect
<1>4. s # None
  BY <1>3
<1> HIDE DEF s, m
<1>5. Home(i) \in Visible /\ rec[i].state # "evicted"
  BY <1>1 DEF Good, Housed, m
<1>6. Home(i)' = Home(i) /\ Exists(i)'
  BY <1>1, <1>2, <1>3, <1>4, <1>5, PathTypes DEF Home, Exists, Good, Housed, Record, s
<1>7. Housed(i)'
  BY <1>1, <1>2, <1>3, <1>6 DEF Good, Housed, s
<1>8. Bound(i)' /\ Traced(i)'
  BY <1>1, <1>3, <1>6 DEF Good, Bound, Traced, Region, s
<1>9. Located(i)'
  BY <1>1, <1>2, <1>3 DEF Good, Located, Traced, s, m
<1> QED
  BY <1>1, <1>6, <1>7, <1>8, <1>9 DEF Good

LEMMA ReconciledGood ==
  ASSUME TrialInv, Settled, NEW i \in Id, Exists(i), rec[i].intent # None,
         rec'[i] = Reconciled(i), UNCHANGED <<fs, journal, own, trash>>
  PROVE  Good(i)' /\ Home(i)' = Home(i) /\ Exists(i)'
<1> DEFINE m == rec[i].intent
<1>1. Good(i) /\ m.op # "remove" => fs[m.src] = own[i] \/ fs[m.dst] = own[i]
  BY DEF Settled, Good, Located
<1>2. CASE rec'[i] = rec[i]
  BY <1>2, GoodStill
<1>3. CASE m.op # "remove" /\ NotMoved(m) /\ rec'[i] = [rec[i] EXCEPT !.intent = None]
  BY <1>3, ClearedGood
<1>4. CASE m.op # "remove" /\ WasMoved(m) /\ rec'[i] = Finalized(rec[i])
  <2>1. fs[m.dst] = own[i]
    BY <1>1, <1>4, PlacesOf DEF WasMoved, Present, Settled
  <2> QED
    BY <1>4, <2>1, FinalizedGood
<1>5. CASE m.op = "remove" /\ WasRemoved(i, m) /\ rec'[i] = Evicted(rec[i])
  BY <1>5, EvictedGood DEF WasRemoved
<1> QED
  BY <1>2, <1>3, <1>4, <1>5, ReconciledCases DEF TrialInv

\* A step that rewrites one record and leaves the directories where they are.
LEMMA Rewritten ==
  ASSUME TrialInv, Settled, NEW i \in Id, Exists(i), UNCHANGED <<fs, trash, own, made>>,
         \A j \in Id \ {i} : rec'[j] = rec[j] /\ journal'[j] = journal[j],
         Good(i)' /\ Home(i)' = Home(i) /\ Exists(i)',
         \A q \in Proc : proc'[q].seen \subseteq proc[q].seen,
         \A q \in Proc : proc'[q].pc = "probed" => proc'[q].id = None,
         \A q \in Proc : Placed(q)' \/ (proc'[q] = proc[q] /\ (q \in Live => proc[q].id # i))
  PROVE  Settled'
<1>1. Touches(i)
  BY DEF Touches
<1>2. OnePlace'
  BY DEF Settled, OnePlace
<1> QED
  BY <1>1, <1>2, Assembled

-----------------------------------------------------------------------------
(* The steps of the commands.                                                *)
\* What a command at work knows of its record.
LEMMA AtWork ==
  ASSUME TrialInv, Settled, NEW p \in Proc, proc[p].pc \in Moving \cup Removing
  PROVE  LET i == proc[p].id IN
         /\ i \in Id /\ Exists(i) /\ Good(i) /\ own[i] # None /\ own[i] \in Dir
         /\ rec[i].intent = proc[p].plan /\ rec[i].intent # None /\ Placed(p)
         /\ proc[p].plan.op # "remove" <=> proc[p].pc \in Moving
         /\ proc[p].plan.src \in Region(i) /\ proc[p].plan.src \in Path
         /\ proc[p].pc \in Moving => proc[p].plan.dst \in Region(i) /\ proc[p].plan.dst \in Path
         /\ \A q \in Live \ {p} : proc[q].id # i
<1> DEFINE i == proc[p].id
<1>1. /\ i \in Id /\ Exists(i) /\ rec[i].intent = proc[p].plan /\ proc[p].plan \in Intent
      /\ proc[p].plan.op = "remove" <=> proc[p].pc \in Removing
      /\ \A q \in Live \ {p} : proc[q].id # i
  BY DEF TrialInv, Leased, Live
<1>2. proc[p].pc \in Moving <=> proc[p].pc \notin Removing
  BY DEF Moving, Removing
<1>3. /\ Region(i) \subseteq Path /\ own[i] # None /\ own[i] \in Dir /\ rec[i].intent # None
      /\ rec[i].intent.src \in Region(i)
      /\ rec[i].intent.op # "remove" => rec[i].intent.dst \in Region(i)
  BY <1>1, PlacesOf
<1> QED
  BY <1>1, <1>2, <1>3 DEF Settled

LEMMA IdlePlaced ==
  ASSUME TrialTypes, NEW p \in Proc, proc' = [proc EXCEPT ![p] = Idle]
  PROVE  /\ Placed(p)' /\ proc'[p].seen = {} /\ proc'[p].pc = "idle"
         /\ \A q \in Proc \ {p} : proc'[q] = proc[q]
BY DEF TrialTypes, Placed, Idle, At

LEMMA GoesOn ==
  ASSUME TrialTypes, NEW p \in Proc, NEW place, proc' = [proc EXCEPT ![p].pc = place]
  PROVE  /\ proc'[p].pc = place /\ proc'[p].id = proc[p].id /\ proc'[p].plan = proc[p].plan
         /\ proc'[p].seen = proc[p].seen
         /\ \A q \in Proc \ {p} : proc'[q] = proc[q]
BY DEF TrialTypes, Process

\* A position changes, and what is known there is still so.
LEMMA Repositioned ==
  ASSUME TrialInv, Settled, UNCHANGED <<fs, rec, journal, trash, own, made>>, NEW p \in Proc,
         \A q \in Proc \ {p} : proc'[q] = proc[q], proc'[p].seen \subseteq proc[p].seen,
         proc'[p].pc = "probed" => proc'[p].id = None, Placed(p)'
  PROVE  Settled'
<1>1. ASSUME NEW q \in Proc
      PROVE  Placed(q)'
  <2>1. CASE q = p
    BY <2>1
  <2>2. CASE q # p
    <3>1. Placed(q) /\ proc'[q] = proc[q]
      BY <2>2 DEF Settled
    <3> QED
      BY <3>1 DEF Placed
  <2> QED
    BY <2>1, <2>2
<1>2. \A i \in Id : (Exists(i)' <=> Exists(i)) /\ Home(i)' = Home(i)
  BY DEF Exists, Home
<1>3. ASSUME NEW q \in Proc, NEW s \in proc'[q].seen
      PROVE  Seen(s)'
  <2>1. s \in proc[q].seen
    BY <1>3
  <2>2. Seen(s)
    BY <2>1 DEF Settled
  <2> QED
    BY <1>2, <2>2 DEF Seen, Owned, Exists
<1>4. \A q \in Proc : proc'[q].pc = "probed" => proc'[q].id = None
  BY DEF Settled
<1> QED
  BY <1>1, <1>3, <1>4, SettledStill

LEMMA CheckSettled ==
  ASSUME TrialInv, Settled, NEW p \in Proc, Check(p)
  PROVE  Settled'
<1>1. TrialTypes /\ proc' = [proc EXCEPT ![p].pc = "checked"] /\ Placed(p)
  BY DEF TrialInv, Check, Goes, Settled
<1>2. Placed(p)'
  BY <1>1, GoesOn DEF Placed, Check
<1> QED
  BY <1>1, <1>2, GoesOn, Repositioned DEF Check, Bounds

LEMMA FinalizeFailsSettled ==
  ASSUME TrialInv, Settled, NEW p \in Proc, FinalizeFails(p)
  PROVE  Settled'
<1>1. TrialTypes /\ proc' = [proc EXCEPT ![p].pc = "undo"] /\ Placed(p)
  BY DEF TrialInv, FinalizeFails, Goes, Settled
<1>2. Placed(p)'
  BY <1>1, GoesOn DEF Placed, FinalizeFails
<1> QED
  BY <1>1, <1>2, GoesOn, Repositioned DEF FinalizeFails, Bounds

LEMMA StoppedSettled ==
  ASSUME TrialInv, Settled, NEW p \in Proc, Ends(p),
         UNCHANGED <<fs, rec, journal, trash, own, made>>
  PROVE  Settled'
<1>1. TrialTypes /\ proc' = [proc EXCEPT ![p] = Idle]
  BY DEF TrialInv, Ends
<1> QED
  BY <1>1, IdlePlaced, Repositioned

LEMMA MoveSettled ==
  ASSUME TrialInv, Settled, NEW p \in Proc, Move(p), NEW i \in Id, i = proc[p].id,
         NEW m \in Intent, m = proc[p].plan
  PROVE  Settled'
<1>1. /\ TrialTypes /\ proc' = [proc EXCEPT ![p].pc = "moved"] /\ Rename(m.src, m.dst)
      /\ UNCHANGED <<rec, journal, trash, own, made>> /\ proc[p].pc = "checked"
      /\ proc[p].pc \in Moving
  BY DEF TrialInv, Move, Goes, Bounds, Moving
<1>2. /\ Exists(i) /\ Good(i) /\ own[i] # None /\ rec[i].intent = m
      /\ rec[i].intent # None /\ m.op # "remove" /\ m.src \in Region(i) /\ m.src \in Path
      /\ m.dst \in Path /\ Placed(p) /\ \A q \in Live \ {p} : proc[q].id # i
  BY <1>1, AtWork
<1>3. fs[m.src] = own[i]
  BY <1>1, <1>2 DEF Placed
<1>4. /\ OnePlace' /\ fs'[m.dst] = own[i]
      /\ \A x \in Path : fs'[x] # fs[x] /\ fs[x] # None => x = m.src
  BY <1>1, <1>2, <1>3, RenamedOnce
<1>5. Touches(i)
  BY <1>1, <1>2, <1>3, <1>4 DEF Touches
<1>6. Good(i)' /\ Home(i)' = Home(i) /\ Exists(i)'
  <2>1. Home(i)' = Home(i) /\ Exists(i)' /\ Housed(i)' /\ Bound(i)' /\ Traced(i)'
    BY <1>1, <1>2 DEF Home, Exists, Good, Housed, Bound, Traced, Region
  <2>2. Located(i)'
    BY <1>1, <1>2, <1>4 DEF Located
  <2> QED
    BY <1>1, <1>2, <2>1, <2>2 DEF Good
<1>7. /\ proc'[p].pc = "moved" /\ proc'[p].id = i /\ proc'[p].plan = m
      /\ proc'[p].seen = proc[p].seen /\ \A q \in Proc \ {p} : proc'[q] = proc[q]
  BY <1>1, GoesOn
<1>8. \A q \in {p} : Placed(q)'
  BY <1>1, <1>4, <1>7 DEF Placed
<1>9. \A q \in Proc : proc'[q].seen \subseteq proc[q].seen
  BY <1>7
<1>10. \A q \in Proc : proc'[q].pc = "probed" => proc'[q].id = None
  BY <1>7 DEF Settled
<1>11. ASSUME NEW q \in Proc
       PROVE  Placed(q)' \/ (proc'[q] = proc[q] /\ (q \in Live => proc[q].id # i))
  <2>1. CASE q \in {p}
    BY <1>8, <2>1
  <2>2. CASE q \notin {p}
    BY <1>2, <1>7, <2>2
  <2> QED
    BY <2>1, <2>2
<1>12. own'[i] = own[i] /\ OnePlace'
  BY <1>1, <1>4
<1> QED
  BY <1>2, <1>5, <1>6, <1>9, <1>10, <1>11, <1>12, Assembled

LEMMA RollBackSettled ==
  ASSUME TrialInv, Settled, NEW p \in Proc, RollBack(p), NEW i \in Id, i = proc[p].id,
         NEW m \in Intent, m = proc[p].plan
  PROVE  Settled'
<1>1. /\ TrialTypes /\ proc' = [proc EXCEPT ![p].pc = "undone"] /\ Rename(m.dst, m.src)
      /\ UNCHANGED <<rec, journal, trash, own, made>> /\ proc[p].pc = "undo"
      /\ proc[p].pc \in Moving
  BY DEF TrialInv, RollBack, Goes, Bounds, Moving
<1>2. /\ Exists(i) /\ Good(i) /\ own[i] # None /\ rec[i].intent = m
      /\ rec[i].intent # None /\ m.op # "remove" /\ m.dst \in Region(i) /\ m.src \in Path
      /\ m.dst \in Path /\ Placed(p) /\ \A q \in Live \ {p} : proc[q].id # i
  BY <1>1, AtWork
<1>3. fs[m.dst] = own[i]
  BY <1>1, <1>2 DEF Placed
<1>4. /\ OnePlace' /\ fs'[m.src] = own[i]
      /\ \A x \in Path : fs'[x] # fs[x] /\ fs[x] # None => x = m.dst
  BY <1>1, <1>2, <1>3, RenamedOnce
<1>5. Touches(i)
  BY <1>1, <1>2, <1>3, <1>4 DEF Touches
<1>6. Good(i)' /\ Home(i)' = Home(i) /\ Exists(i)'
  <2>1. Home(i)' = Home(i) /\ Exists(i)' /\ Housed(i)' /\ Bound(i)' /\ Traced(i)'
    BY <1>1, <1>2 DEF Home, Exists, Good, Housed, Bound, Traced, Region
  <2>2. Located(i)'
    BY <1>1, <1>2, <1>4 DEF Located
  <2> QED
    BY <1>1, <1>2, <2>1, <2>2 DEF Good
<1>7. /\ proc'[p].pc = "undone" /\ proc'[p].id = i /\ proc'[p].plan = m
      /\ proc'[p].seen = proc[p].seen /\ \A q \in Proc \ {p} : proc'[q] = proc[q]
  BY <1>1, GoesOn
<1>8. \A q \in {p} : Placed(q)'
  BY <1>1, <1>4, <1>7 DEF Placed
<1>9. \A q \in Proc : proc'[q].seen \subseteq proc[q].seen
  BY <1>7
<1>10. \A q \in Proc : proc'[q].pc = "probed" => proc'[q].id = None
  BY <1>7 DEF Settled
<1>11. ASSUME NEW q \in Proc
       PROVE  Placed(q)' \/ (proc'[q] = proc[q] /\ (q \in Live => proc[q].id # i))
  <2>1. CASE q \in {p}
    BY <1>8, <2>1
  <2>2. CASE q \notin {p}
    BY <1>2, <1>7, <2>2
  <2> QED
    BY <2>1, <2>2
<1>12. own'[i] = own[i] /\ OnePlace'
  BY <1>1, <1>4
<1> QED
  BY <1>2, <1>5, <1>6, <1>9, <1>10, <1>11, <1>12, Assembled

\* A command ends with a new version of its record.
LEMMA EndedSettled ==
  ASSUME TrialInv, Settled, NEW p \in Proc, Ends(p), NEW i \in Id, i = proc[p].id,
         proc[p].pc \in Moving \cup Removing, UNCHANGED <<fs, journal, trash, own, made>>,
         NEW r, rec' = [rec EXCEPT ![i] = r], Good(i)' /\ Home(i)' = Home(i) /\ Exists(i)'
  PROVE  Settled'
<1>1. TrialTypes /\ proc' = [proc EXCEPT ![p] = Idle]
  BY DEF TrialInv, Ends
<1>2. /\ \A q \in {p} : Placed(q)' /\ proc'[q].seen = {} /\ proc'[q].pc = "idle"
      /\ \A q \in Proc \ {p} : proc'[q] = proc[q]
  BY <1>1, IdlePlaced DEF Placed
<1>3. Exists(i) /\ \A q \in Live \ {p} : proc[q].id # i
  BY AtWork
<1>4. ASSUME NEW q \in Proc
      PROVE  /\ proc'[q].seen \subseteq proc[q].seen
             /\ proc'[q].pc = "probed" => proc'[q].id = None
             /\ Placed(q)' \/ (proc'[q] = proc[q] /\ (q \in Live => proc[q].id # i))
  <2>1. CASE q \in {p}
    BY <1>2, <2>1
  <2>2. CASE q \notin {p}
    BY <1>2, <1>3, <2>2 DEF Settled
  <2> QED
    BY <2>1, <2>2
<1>5. \A j \in Id \ {i} : rec'[j] = rec[j] /\ journal'[j] = journal[j]
  BY <1>1 DEF TrialTypes
<1> QED
  BY <1>3, <1>4, <1>5, Rewritten

LEMMA ReconciledSettled ==
  ASSUME TrialInv, Settled, NEW p \in Proc, FailMove(p) \/ RepairOwn(p),
         NEW i \in Id, i = proc[p].id
  PROVE  Settled'
<1>1. /\ Ends(p) /\ proc[p].pc \in Moving \cup Removing
      /\ UNCHANGED <<fs, journal, trash, own, made>>
      /\ rec' = IF Exists(i) /\ rec[i].intent # None
                THEN [rec EXCEPT ![i] = Reconciled(i)] ELSE rec
  BY DEF FailMove, RepairOwn, Moving, Bounds
<1>2. Exists(i) /\ rec[i].intent # None
  BY <1>1, AtWork
<1>3. rec' = [rec EXCEPT ![i] = Reconciled(i)]
  BY <1>1, <1>2
<1>4. rec'[i] = Reconciled(i)
  BY <1>3 DEF TrialInv, TrialTypes
<1>5. Good(i)' /\ Home(i)' = Home(i) /\ Exists(i)'
  BY <1>1, <1>2, <1>4, ReconciledGood
<1> QED
  BY <1>1, <1>3, <1>5, EndedSettled

LEMMA FinalizeSettled ==
  ASSUME TrialInv, Settled, NEW p \in Proc, Finalize(p), NEW i \in Id, i = proc[p].id
  PROVE  Settled'
<1>1. /\ Ends(p) /\ proc[p].pc \in Moving \cup Removing /\ proc[p].pc = "moved"
      /\ UNCHANGED <<fs, journal, trash, own, made>>
      /\ rec' = [rec EXCEPT ![i] = Finalized(rec[i])]
  BY DEF Finalize, Moving, Bounds, Records
<1>2. /\ Exists(i) /\ rec[i].intent # None /\ rec[i].intent.op # "remove"
      /\ rec[i].intent = proc[p].plan /\ Placed(p)
  BY <1>1, AtWork DEF Moving
<1>3. fs[rec[i].intent.dst] = own[i]
  BY <1>1, <1>2 DEF Placed
<1>4. rec'[i] = Finalized(rec[i])
  BY <1>1 DEF TrialInv, TrialTypes
<1>5. Good(i)' /\ Home(i)' = Home(i) /\ Exists(i)'
  BY <1>1, <1>2, <1>3, <1>4, FinalizedGood
<1> QED
  BY <1>1, <1>5, EndedSettled

LEMMA FinishRemovalSettled ==
  ASSUME TrialInv, Settled, NEW p \in Proc, FinishRemoval(p), NEW i \in Id, i = proc[p].id
  PROVE  Settled'
<1>1. /\ Ends(p) /\ proc[p].pc \in Moving \cup Removing /\ proc[p].pc = "recorded"
      /\ UNCHANGED <<fs, journal, trash, own, made>>
      /\ rec' = [rec EXCEPT ![i] = Evicted(rec[i])]
  BY DEF FinishRemoval, Removing, Bounds, Records
<1>2. /\ Exists(i) /\ rec[i].intent # None /\ rec[i].intent.op = "remove" /\ Placed(p)
  BY <1>1, AtWork DEF Moving
<1>3. journal[i].outcome = "removed"
  BY <1>1, <1>2 DEF Placed
<1>4. rec'[i] = Evicted(rec[i])
  BY <1>1 DEF TrialInv, TrialTypes
<1>5. Good(i)' /\ Home(i)' = Home(i) /\ Exists(i)'
  BY <1>1, <1>2, <1>3, <1>4, EvictedGood
<1> QED
  BY <1>1, <1>5, EndedSettled

LEMMA RepairSettled ==
  ASSUME TrialInv, Settled, NEW i \in Id, Repair(i)
  PROVE  Settled'
<1>1. /\ Exists(i) /\ rec[i].intent # None /\ UNCHANGED <<fs, journal, trash, own, made, proc>>
      /\ rec' = [rec EXCEPT ![i] = Reconciled(i)]
  BY DEF Repair, Records, Bounds
<1>2. rec'[i] = Reconciled(i) /\ \A j \in Id \ {i} : rec'[j] = rec[j]
  BY <1>1 DEF TrialInv, TrialTypes
<1>3. Good(i)' /\ Home(i)' = Home(i) /\ Exists(i)'
  BY <1>1, <1>2, ReconciledGood
<1>4. \A q \in Proc : q \in Live => proc[q].id # i
  BY DEF Repair, LeaseFree, CatalogFree, Live
<1>5. \A q \in Proc : proc'[q] = proc[q] /\ (proc'[q].pc = "probed" => proc'[q].id = None)
  BY <1>1 DEF Settled
<1> QED
  BY <1>1, <1>2, <1>3, <1>4, <1>5, Rewritten

LEMMA RecordRemovalSettled ==
  ASSUME TrialInv, Settled, NEW p \in Proc, RecordRemoval(p), NEW i \in Id, i = proc[p].id
  PROVE  Settled'
<1>1. /\ proc' = [proc EXCEPT ![p].pc = "recorded"] /\ proc[p].pc \in Moving \cup Removing
      /\ proc[p].pc = "trashed" /\ UNCHANGED <<fs, rec, trash, own, made>>
      /\ journal' = [journal EXCEPT ![i].outcome = "removed"] /\ TrialTypes
  BY DEF RecordRemoval, Removing, Bounds, Goes, TrialInv
<1>2. /\ Exists(i) /\ rec[i].intent # None /\ rec[i].intent.op = "remove" /\ Good(i)
      /\ \A q \in Live \ {p} : proc[q].id # i
  BY <1>1, AtWork DEF Moving
<1>3. journal[i] # None /\ journal[i] \in Journal
  BY <1>1, <1>2 DEF Good, Bound, TrialTypes
<1>4. /\ journal'[i].outcome = "removed" /\ journal'[i].src = journal[i].src
      /\ journal'[i].dir = journal[i].dir /\ journal'[i] # None
      /\ \A j \in Id \ {i} : journal'[j] = journal[j]
  BY <1>1, <1>3 DEF TrialTypes, Journal
<1>5. Good(i)' /\ Home(i)' = Home(i) /\ Exists(i)'
  <2>1. Home(i)' = Home(i) /\ Exists(i)' /\ Housed(i)' /\ Bound(i)' /\ Traced(i)'
    BY <1>1, <1>2, <1>3, <1>4 DEF Home, Exists, Good, Housed, Bound, Traced, Region
  <2>2. Located(i)'
    BY <1>1, <1>2, <1>4 DEF Located, Good
  <2> QED
    BY <1>1, <1>2, <2>1, <2>2 DEF Good
<1>6. /\ proc'[p].pc = "recorded" /\ proc'[p].id = i /\ proc'[p].seen = proc[p].seen
      /\ \A q \in Proc \ {p} : proc'[q] = proc[q]
  BY <1>1, GoesOn
<1>7. \A q \in {p} : Placed(q)'
  BY <1>4, <1>6 DEF Placed
<1>8. ASSUME NEW q \in Proc
      PROVE  /\ proc'[q].seen \subseteq proc[q].seen
             /\ proc'[q].pc = "probed" => proc'[q].id = None
             /\ Placed(q)' \/ (proc'[q] = proc[q] /\ (q \in Live => proc[q].id # i))
  <2>1. CASE q \in {p}
    BY <1>6, <1>7, <2>1
  <2>2. CASE q \notin {p}
    BY <1>2, <1>6, <2>2 DEF Settled
  <2> QED
    BY <2>1, <2>2
<1> QED
  BY <1>1, <1>2, <1>4, <1>5, <1>8, Rewritten

LEMMA TrashSettled ==
  ASSUME TrialInv, Settled, NEW p \in Proc, Trash(p), NEW i \in Id, i = proc[p].id,
         NEW m \in Intent, m = proc[p].plan
  PROVE  Settled'
<1>1. /\ proc' = [proc EXCEPT ![p].pc = "trashed"] /\ proc[p].pc \in Moving \cup Removing
      /\ proc[p].pc = "marked" /\ UNCHANGED <<journal, rec, own, made>> /\ fs[m.src] = m.dir
      /\ fs' = [fs EXCEPT ![m.src] = None] /\ trash' = trash \cup {m.dir} /\ TrialTypes
  BY DEF Trash, Removing, Bounds, Goes, TrialInv
<1>2. /\ Exists(i) /\ rec[i].intent # None /\ rec[i].intent.op = "remove" /\ Good(i)
      /\ rec[i].intent = m /\ m.src \in Path /\ m.src \in Region(i) /\ Placed(p)
      /\ own[i] # None /\ own[i] \in Dir /\ \A q \in Live \ {p} : proc[q].id # i
  BY <1>1, AtWork DEF Moving
<1>3. fs[m.src] = own[i] /\ m.dir = own[i]
  BY <1>1, <1>2 DEF Placed
<1>4. \A x \in Path : fs'[x] = IF x = m.src THEN None ELSE fs[x]
  BY <1>1 DEF TrialTypes
<1>5. Touches(i)
  BY <1>1, <1>2, <1>3, <1>4 DEF Touches
<1>6. Good(i)' /\ Home(i)' = Home(i) /\ Exists(i)'
  <2>1. Home(i)' = Home(i) /\ Exists(i)' /\ Housed(i)' /\ Bound(i)' /\ Traced(i)'
    BY <1>1, <1>2 DEF Home, Exists, Good, Housed, Bound, Traced, Region
  <2>2. Located(i)'
    BY <1>1, <1>2, <1>3 DEF Located, Good, Bound, Traced
  <2> QED
    BY <1>1, <1>2, <2>1, <2>2 DEF Good
<1>7. OnePlace'
  <2>1. OnePlace
    BY DEF Settled
  <2>2. \A d \in trash' : d <= made
    BY <1>1, <1>2, <1>3, <2>1 DEF OnePlace
  <2>3. \A x \in Path : fs'[x] \notin trash'
    BY <1>1, <1>2, <1>3, <1>4, <2>1 DEF OnePlace, TrialTypes, Dir
  <2> QED
    BY <1>1, <1>2, <1>4, <2>1, <2>2, <2>3 DEF OnePlace
<1>8. /\ proc'[p].pc = "trashed" /\ proc'[p].id = i /\ proc'[p].seen = proc[p].seen
      /\ \A q \in Proc \ {p} : proc'[q] = proc[q]
  BY <1>1, GoesOn
<1>9. \A q \in {p} : Placed(q)'
  BY <1>8 DEF Placed
<1>10. ASSUME NEW q \in Proc
       PROVE  /\ proc'[q].seen \subseteq proc[q].seen
              /\ proc'[q].pc = "probed" => proc'[q].id = None
              /\ Placed(q)' \/ (proc'[q] = proc[q] /\ (q \in Live => proc[q].id # i))
  <2>1. CASE q \in {p}
    BY <1>8, <1>9, <2>1
  <2>2. CASE q \notin {p}
    BY <1>2, <1>8, <2>2 DEF Settled
  <2> QED
    BY <2>1, <2>2
<1> QED
  BY <1>1, <1>2, <1>5, <1>6, <1>7, <1>10, Assembled

\* Where a trial that waits for nothing is.
LEMMA AtRest ==
  ASSUME TrialInv, Settled, NEW i \in Id, Exists(i), rec[i].intent = None,
         rec[i].state # "evicted"
  PROVE  Good(i) /\ fs[rec[i].path] = own[i] /\ own[i] # None /\ rec[i].path \in Region(i)
BY PlacesOf DEF Settled, Good, Located

\* A command begins with an intent.
LEMMA BegunSettled ==
  ASSUME TrialInv, Settled, NEW p \in Proc, NEW i \in Id, Exists(i), rec[i].intent = None,
         NEW m \in Intent, rec' = [rec EXCEPT ![i] = [rec[i] EXCEPT !.intent = m]],
         NEW place \in {"begun", "marked"}, proc' = [proc EXCEPT ![p] = At(place, i, m)],
         UNCHANGED <<fs, trash, own, made>>,
         \A j \in Id \ {i} : journal'[j] = journal[j],
         rec[i].state # "evicted", m.src = rec[i].path, Traced(i)',
         \/ /\ m.op = "archive" /\ rec[i].state = "present" /\ m.dst \in Reserved(i)
            /\ m.dir = None
         \/ /\ m.op = "restore" /\ rec[i].state = "archived" /\ m.dst = Home(i)
            /\ m.dir = None
         \/ /\ m.op = "remove" /\ journal'[i] # None /\ journal'[i].src = m.src
            /\ m.dir = own[i]
  PROVE  Settled'
<1>1. Good(i) /\ fs[rec[i].path] = own[i] /\ own[i] # None /\ rec[i] \in Record
  BY AtRest, PlacesOf
<1> DEFINE s == rec'[i]
<1>2. rec'[i] = [rec[i] EXCEPT !.intent = m] /\ \A j \in Id \ {i} : rec'[j] = rec[j]
  BY DEF TrialInv, TrialTypes
<1>3. /\ s \in Record /\ s.intent = m /\ s.phase = rec[i].phase /\ s.path = rec[i].path
      /\ s.restore = rec[i].restore /\ s.state = rec[i].state /\ s # None
  <2>1. m \in Intent \cup {None} /\ s = [rec[i] EXCEPT !.intent = m]
    BY <1>2
  <2> HIDE DEF s
  <2> QED
    BY <1>1, <2>1, ClearedEffect
<1> HIDE DEF s
<1>4. m # None
  OBVIOUS
<1>5. Good(i)' /\ Home(i)' = Home(i) /\ Exists(i)'
  <2>1. Home(i)' = Home(i) /\ Exists(i)'
    BY <1>3 DEF Home, Exists, s
  <2>2. Housed(i)'
    BY <1>1, <1>3, <2>1 DEF Good, Housed, s
  <2>3. Bound(i)'
    BY <1>3, <2>1 DEF Bound, s
  <2>4. Located(i)'
    BY <1>1, <1>3, <1>4 DEF Located, s
  <2> QED
    BY <1>1, <2>1, <2>2, <2>3, <2>4 DEF Good
<1>6. /\ proc'[p].pc = place /\ proc'[p].id = i /\ proc'[p].plan = m /\ proc'[p].seen = {}
      /\ \A q \in Proc \ {p} : proc'[q] = proc[q]
  BY DEF At, TrialInv, TrialTypes
<1>7. \A q \in {p} : Placed(q)'
  BY <1>1, <1>6 DEF Placed
<1>8. \A q \in Live : proc[q].id # i
  BY <1>1 DEF TrialInv, Leased, Exists
<1>9. ASSUME NEW q \in Proc
      PROVE  /\ proc'[q].seen \subseteq proc[q].seen
             /\ proc'[q].pc = "probed" => proc'[q].id = None
             /\ Placed(q)' \/ (proc'[q] = proc[q] /\ (q \in Live => proc[q].id # i))
  <2>1. CASE q \in {p}
    BY <1>6, <1>7, <2>1
  <2>2. CASE q \notin {p}
    BY <1>6, <1>8, <2>2 DEF Settled
  <2> QED
    BY <2>1, <2>2
<1> QED
  BY <1>2, <1>5, <1>9, Rewritten

LEMMA BeginSettled ==
  ASSUME AtHome, TrialInv, Settled, NEW p \in Proc, NEW i \in Id,
         NEW move \in {"archive", "restore", "graduate", "demote"}, Begin(p, i, move)
  PROVE  Settled'
<1>1. PICK m \in Intent :
        /\ m.op = move /\ m.src = rec[i].path /\ m.dst \in Targets(i, move)
        /\ m.dir = Reviewed(i, move)
        /\ rec' = [rec EXCEPT ![i] = [rec[i] EXCEPT !.intent = m]]
        /\ proc' = [proc EXCEPT ![p] = At("begun", i, m)]
  BY BegunIntent
<1>2. /\ move \in {"archive", "restore"} /\ Source(i, move) /\ rec[i].intent = None
      /\ UNCHANGED <<fs, journal, trash, own, made>>
  BY DEF Begin, AtHome, HomeOps, Bounds
<1>3. m.dir = None /\ Exists(i) /\ rec[i].state # "evicted"
  BY <1>1, <1>2 DEF Reviewed, Source, Trial
<1>4. Good(i) /\ rec[i].path \in Path
  BY <1>2, <1>3, AtRest, PlacesOf
<1>5. move = "archive" => rec[i].state = "present" /\ m.dst \in Reserved(i)
  BY <1>1, <1>2, PathTypes DEF Source, Targets
<1>6. move = "restore" => rec[i].state = "archived" /\ m.dst = Home(i)
  BY <1>1, <1>2, <1>4 DEF Source, Targets, AtHome, Home
<1>7. Traced(i)'
  <2>1. Home(i)' = Home(i)
    <3>1. rec[i] \in Record /\ rec'[i] = [rec[i] EXCEPT !.intent = m]
      BY <1>1, <1>3, PlacesOf DEF TrialInv, TrialTypes
    <3>2. rec'[i].path = rec[i].path /\ rec'[i].restore = rec[i].restore
            /\ rec'[i].state = rec[i].state
      BY <3>1, ClearedEffect
    <3> QED
      BY <3>2 DEF Home
  <2> QED
    BY <1>2, <1>4, <2>1 DEF Good, Traced, Region
<1> QED
  BY <1>1, <1>2, <1>3, <1>5, <1>6, <1>7, BegunSettled

LEMMA MarkSettled ==
  ASSUME TrialInv, Settled, NEW p \in Proc, NEW i \in Id, Mark(p, i)
  PROVE  Settled'
<1>1. PICK m \in Intent :
        /\ m.op = "remove" /\ m.src = rec[i].path /\ m.dir = fs[m.src]
        /\ rec' = [rec EXCEPT ![i] = [rec[i] EXCEPT !.intent = m]]
        /\ proc' = [proc EXCEPT ![p] = At("marked", i, m)]
        /\ journal' = [journal EXCEPT ![i] = [outcome |-> "pending", src |-> m.src,
                                              dir |-> m.dir]]
  BY MarkedIntent
<1>2. /\ Exists(i) /\ rec[i].intent = None /\ rec[i].state # "evicted"
      /\ UNCHANGED <<fs, trash, own, made>>
  BY DEF Mark, Removable, Trial, Bounds
<1>3. Good(i) /\ fs[rec[i].path] = own[i] /\ rec[i].path \in Region(i)
  BY <1>2, AtRest
<1>4. /\ journal'[i].src = m.src /\ journal'[i].dir = m.dir /\ journal'[i] \in Journal
      /\ \A j \in Id \ {i} : journal'[j] = journal[j]
  <2>1. m.src \in Path /\ m.dir \in Dir \cup {None}
    BY DEF Intent
  <2>2. [outcome |-> "pending", src |-> m.src, dir |-> m.dir] \in Journal
    BY <2>1 DEF Journal
  <2> QED
    BY <1>1, <2>2 DEF TrialInv, TrialTypes
<1>5. Home(i)' = Home(i)
  <2>1. rec[i] \in Record /\ rec'[i] = [rec[i] EXCEPT !.intent = m]
    BY <1>1, <1>2, PlacesOf DEF TrialInv, TrialTypes
  <2>2. rec'[i].path = rec[i].path /\ rec'[i].restore = rec[i].restore
          /\ rec'[i].state = rec[i].state
    BY <2>1, ClearedEffect
  <2> QED
    BY <2>2 DEF Home
<1>6. Traced(i)'
  BY <1>1, <1>2, <1>3, <1>4, <1>5 DEF Traced, Region
<1> QED
  BY <1>1, <1>2, <1>3, <1>4, <1>6, BegunSettled

LEMMA PutBackSettled ==
  ASSUME TrialInv, Settled, NEW i \in Id, PutBack(i)
  PROVE  Settled'
<1> DEFINE src == journal[i].src
<1>1. /\ journal[i] # None /\ journal[i].dir \in trash /\ fs[src] = None
      /\ fs' = [fs EXCEPT ![src] = journal[i].dir] /\ trash' = trash \ {journal[i].dir}
      /\ UNCHANGED <<rec, journal, proc, own, made>>
  BY DEF PutBack, Present, Bounds
<1>2. Exists(i) /\ Good(i)
  BY <1>1 DEF Settled
<1>3. journal[i].dir = own[i] /\ src \in Region(i) /\ src \in Path /\ own[i] # None
  BY <1>1, <1>2, PlacesOf DEF Good, Traced
<1>4. \A x \in Path : fs'[x] = IF x = src THEN own[i] ELSE fs[x]
  BY <1>1, <1>3 DEF TrialInv, TrialTypes
<1>5. Touches(i)
  BY <1>1, <1>3, <1>4 DEF Touches
<1>6. Good(i)' /\ Home(i)' = Home(i) /\ Exists(i)'
  <2>1. Home(i)' = Home(i) /\ Exists(i)' /\ Housed(i)' /\ Bound(i)' /\ Traced(i)'
    BY <1>1, <1>2 DEF Home, Exists, Good, Housed, Bound, Traced, Region
  <2>2. own[i] \in trash /\ \A x \in Path : fs[x] # own[i]
    BY <1>1, <1>3 DEF Settled, OnePlace
  <2>3. rec[i].intent # None =>
          /\ rec[i].intent.src \in Path
          /\ rec[i].intent.op # "remove" => rec[i].intent.dst \in Path
    BY <1>2, PlacesOf
  <2>4. rec[i].intent = None => rec[i].state = "evicted"
    BY <1>2, <2>2, AtRest, PlacesOf
  <2>5. Located(i)'
    BY <1>1, <1>2, <1>3, <1>4, <2>2, <2>3, <2>4 DEF Located, Good, Bound
  <2> QED
    BY <1>1, <1>2, <2>1, <2>5 DEF Good
<1>7. OnePlace'
  <2>1. OnePlace
    BY DEF Settled
  <2>2. \A d \in trash' : d <= made
    BY <1>1, <2>1 DEF OnePlace
  <2>3. \A x \in Path : fs'[x] \notin trash'
    BY <1>1, <1>3, <1>4, <2>1 DEF OnePlace
  <2>4. \A x \in Path : fs'[x] # None => fs'[x] <= made
    BY <1>1, <1>3, <1>4, <2>1 DEF OnePlace
  <2>5. \A x \in Path : \A y \in Path : fs'[x] # None /\ fs'[x] = fs'[y] => x = y
    BY <1>1, <1>3, <1>4, <2>1 DEF OnePlace
  <2> QED
    BY <1>1, <2>2, <2>3, <2>4, <2>5 DEF OnePlace
<1>8. ASSUME NEW q \in Proc
      PROVE  Placed(q)' \/ (proc'[q] = proc[q] /\ (q \in Live => proc[q].id # i))
  <2>1. CASE q \in Live /\ proc[q].id = i
    <3>1. /\ Placed(q) /\ proc[q].plan.src \in Path
          /\ proc[q].pc \in Moving => proc[q].plan.dst \in Path
      BY <2>1, AtWork DEF Live
    <3>2. Placed(q)'
      BY <1>1, <1>3, <1>4, <2>1, <3>1 DEF Placed, Moving
    <3> QED
      BY <3>2
  <2>2. CASE ~(q \in Live /\ proc[q].id = i)
    BY <1>1, <2>2
  <2> QED
    BY <2>1, <2>2
<1>9. \A q \in Proc : proc'[q].seen \subseteq proc[q].seen
  BY <1>1
<1>10. \A q \in Proc : proc'[q].pc = "probed" => proc'[q].id = None
  BY <1>1 DEF Settled
<1>11. own'[i] = own[i]
  BY <1>1
<1> QED
  BY <1>2, <1>5, <1>6, <1>7, <1>8, <1>9, <1>10, <1>11, Assembled

LEMMA ReassociateSettled ==
  ASSUME TrialInv, Settled, NEW i \in Id, NEW path \in Path, Reassociate(i, path)
  PROVE  Settled'
<1> DEFINE s == [rec[i] EXCEPT !.state = IF path \in Visible THEN "present" ELSE "archived",
                               !.path = path,
                               !.restore = IF path \in Visible THEN None ELSE @,
                               !.intent = None]
<1>1. /\ Exists(i) /\ rec[i].phase = "active" /\ journal[i] # None /\ fs[path] = journal[i].dir
      /\ Pending(i) \/ (rec[i].state = "evicted" /\ rec[i].intent = None)
      /\ path \in Visible \cup Reserved(i) /\ CatalogFree
      /\ rec' = [rec EXCEPT ![i] = s]
      /\ UNCHANGED <<fs, trash, proc, own, made>>
      /\ \/ journal' = [journal EXCEPT ![i].outcome = "reassociated"]
         \/ journal' = journal
  BY DEF Reassociate, Trial, Records, Bounds
<1>2. /\ Good(i) /\ rec[i] \in Record /\ own[i] # None /\ journal[i] \in Journal
      /\ Region(i) \subseteq Path
  BY <1>1, PlacesOf DEF Settled, TrialInv, TrialTypes
<1>3. journal[i].dir = own[i] /\ fs[path] = own[i] /\ own[i] \notin trash
  BY <1>1, <1>2 DEF Good, Traced, Settled, OnePlace
<1>4. \A x \in Path : fs[x] = own[i] => x = path
  BY <1>2, <1>3 DEF Settled, OnePlace
<1>5. path \in Region(i)
  BY <1>1, <1>2, <1>3, <1>4, Found
<1>6. path \in Visible => path = Home(i)
  BY <1>5, PlacesApart DEF Region
<1>7. path \notin Visible => rec[i].state # "present"
  <2>1. CASE Pending(i)
    <3>1. fs[rec[i].intent.src] = own[i] /\ rec[i].intent.src = rec[i].path
      BY <1>2, <1>3, <2>1 DEF Pending, Good, Located, Bound
    <3>2. rec[i].path = path
      BY <1>2, <1>4, <2>1, <3>1, PlacesOf, <1>1 DEF Pending
    <3> QED
      BY <1>2, <3>2 DEF Good, Housed, Home
  <2> QED
    BY <1>1, <2>1
<1>8. /\ s.intent = None /\ s.phase = "active" /\ s.path = path
      /\ s.restore = IF path \in Visible THEN None ELSE rec[i].restore
      /\ s.state = IF path \in Visible THEN "present" ELSE "archived"
      /\ s \in Record
  BY <1>1, <1>2 DEF Record
<1>9. rec'[i] = s /\ s # None /\ \A j \in Id \ {i} : rec'[j] = rec[j]
  BY <1>1, <1>8 DEF TrialInv, TrialTypes
<1> HIDE DEF s
<1>10. /\ journal'[i].src = journal[i].src /\ journal'[i].dir = journal[i].dir
       /\ \A j \in Id \ {i} : journal'[j] = journal[j]
  BY <1>1, <1>2 DEF TrialInv, TrialTypes, Journal
<1>11. Good(i)' /\ Home(i)' = Home(i) /\ Exists(i)'
  <2>1. Home(i)' = Home(i)
    BY <1>2, <1>6, <1>7, <1>8, <1>9 DEF Home
  <2>2. Exists(i)' /\ Housed(i)'
    BY <1>1, <1>2, <1>6, <1>8, <1>9, <2>1 DEF Exists, Housed, Good
  <2>3. Bound(i)' /\ Traced(i)'
    BY <1>1, <1>2, <1>8, <1>9, <1>10, <2>1 DEF Bound, Traced, Good, Region
  <2>4. Located(i)'
    BY <1>1, <1>3, <1>8, <1>9 DEF Located
  <2> QED
    BY <1>1, <1>2, <2>1, <2>2, <2>3, <2>4 DEF Good
<1>12. ASSUME NEW q \in Proc, q \in Live
       PROVE  proc[q].id # i
  <2>1. proc[q].pc \in Moving
    BY <1>1, <1>12 DEF CatalogFree, Live
  <2>2. rec[proc[q].id].intent # None /\ rec[proc[q].id].intent.op # "remove"
    BY <2>1, AtWork
  <2> QED
    BY <1>1, <2>2 DEF Pending
<1>13. \A q \in Proc : proc'[q] = proc[q] /\ (proc'[q].pc = "probed" => proc'[q].id = None)
  BY <1>1 DEF Settled
<1>14. UNCHANGED <<fs, trash, own, made>> /\ Exists(i)
  BY <1>1
<1> QED
  BY <1>9, <1>10, <1>11, <1>12, <1>13, <1>14, Rewritten

LEMMA ProbeSettled ==
  ASSUME AtHome, TrialInv, Settled, NEW p \in Proc, NEW i \in Id \cup {None}, Probe(p, i)
  PROVE  Settled'
<1>1. PICK seen \in SUBSET {<<v, fs[v]>> : v \in {w \in Visible : Present(w)}} :
        proc' = [proc EXCEPT ![p] = [At("probed", i, None) EXCEPT !.seen = seen]]
  BY DEF Probe
<1>2. i = None /\ UNCHANGED <<fs, rec, journal, trash, own, made>>
  BY DEF Probe, AtHome, HomeOps, Bounds
<1>3. /\ proc'[p].pc = "probed" /\ proc'[p].id = None /\ proc'[p].seen = seen
      /\ \A q \in Proc \ {p} : proc'[q] = proc[q]
  BY <1>1, <1>2 DEF At, TrialInv, TrialTypes
<1>4. ASSUME NEW v \in Visible, Present(v)
      PROVE  Seen(<<v, fs[v]>>)
  <2>1. CASE Owned(fs[v])
    <3>1. PICK j \in Id : Exists(j) /\ own[j] = fs[v]
      BY <2>1 DEF Owned
    <3>2. own[j] \notin trash
      BY <3>1, PathTypes DEF Settled, OnePlace
    <3>3. PICK x \in Region(j) : fs[x] = own[j]
      BY <3>1, <3>2, Found
    <3>4. x = v
      BY <1>4, <3>1, <3>3, PlacesOf, PathTypes DEF Settled, OnePlace, Present
    <3>5. v = Home(j)
      BY <3>3, <3>4, PlacesApart DEF Region
    <3> QED
      BY <3>1, <3>5 DEF Seen
  <2>2. CASE ~Owned(fs[v])
    BY <2>2 DEF Seen
  <2> QED
    BY <2>1, <2>2
<1>5. \A s \in seen : Seen(s)
  BY <1>1, <1>4
<1>6. \A s : Seen(s) => Seen(s)'
  BY <1>2 DEF Seen, Owned, Exists, Home
<1>7. ASSUME NEW q \in Proc
      PROVE  /\ Placed(q)' /\ \A s \in proc'[q].seen : Seen(s)'
             /\ proc'[q].pc = "probed" => proc'[q].id = None
  <2>1. CASE q = p
    BY <1>3, <1>5, <1>6, <2>1 DEF Placed
  <2>2. CASE q # p
    BY <1>2, <1>3, <1>6, <2>2 DEF Settled, Placed
  <2> QED
    BY <2>1, <2>2
<1> QED
  BY <1>2, <1>7, SettledStill

LEMMA MakeSettled ==
  ASSUME TrialInv, Settled, NEW v \in Visible, Make(v)
  PROVE  Settled'
<1>1. /\ fs[v] = None /\ fs' = [fs EXCEPT ![v] = made + 1] /\ made' = made + 1
      /\ UNCHANGED <<rec, journal, trash, proc, own>> /\ v \in Path /\ made \in Nat
      /\ made + 1 # None /\ made + 1 \in Dir
  BY PathTypes DEF Make, Present, TrialInv, TrialTypes, Dir
<1>2. \A x \in Path : fs'[x] = IF x = v THEN made + 1 ELSE fs[x]
  BY <1>1 DEF TrialInv, TrialTypes
<1>3. \A i \in Id : (Exists(i)' <=> Exists(i)) /\ Home(i)' = Home(i)
  BY <1>1 DEF Exists, Home
<1>4. ASSUME NEW i \in Id, Exists(i)
      PROVE  Good(i)'
  <2>1. Region(i) \subseteq Path /\ own[i] # None
    BY <1>4, PlacesOf
  <2>2. \A x \in Region(i) : fs[x] = own[i] => fs'[x] = own[i]
    BY <1>1, <1>2, <2>1
  <2> QED
    BY <1>1, <1>4, <2>2, GoodStill
<1>5. OnePlace'
  <2>1. OnePlace /\ \A x \in Path : fs[x] # None => fs[x] \in Nat
    BY DEF Settled, TrialInv, TrialTypes, Dir
  <2>2. \A d \in trash' : d <= made' /\ d \in Nat
    BY <1>1, <2>1 DEF OnePlace, TrialInv, TrialTypes, Dir
  <2>3. \A d \in trash : d <= made
    BY <2>1 DEF OnePlace
  <2>4. \A x \in Path : fs'[x] \notin trash'
    BY <1>1, <1>2, <2>1, <2>2, <2>3 DEF OnePlace
  <2>5. \A x \in Path : fs'[x] # None => fs'[x] <= made'
    BY <1>1, <1>2, <2>1 DEF OnePlace
  <2>6. \A x \in Path : \A y \in Path : fs'[x] # None /\ fs'[x] = fs'[y] => x = y
    BY <1>1, <1>2, <2>1 DEF OnePlace
  <2> QED
    BY <2>2, <2>4, <2>5, <2>6 DEF OnePlace
<1>6. ASSUME NEW q \in Proc
      PROVE  Placed(q)'
  <2>1. CASE proc[q].pc \in Moving \cup Removing
    <3>1. /\ own[proc[q].id] # None /\ Placed(q) /\ proc[q].plan.src \in Path
          /\ proc[q].pc \in Moving => proc[q].plan.dst \in Path
      BY <2>1, AtWork
    <3> QED
      BY <1>1, <1>2, <3>1 DEF Placed, Moving
  <2>2. CASE proc[q].pc \notin Moving \cup Removing
    BY <1>1, <2>2 DEF Placed, Moving, Removing
  <2> QED
    BY <2>1, <2>2
<1>7. ASSUME NEW q \in Proc, NEW s \in proc'[q].seen
      PROVE  Seen(s)'
  <2>1. Seen(s) /\ s[1] \in Path /\ s[2] # None
    BY <1>1, <1>7, PathTypes DEF Settled, TrialInv, TrialTypes, Process, Dir
  <2> QED
    BY <1>1, <1>2, <2>1 DEF Seen, Owned, Exists, Home
<1>8. \A i \in Id : ~Exists(i)' => journal'[i] = None
  BY <1>1, <1>3 DEF Settled
<1>9. \A i, j \in Id : i # j /\ Exists(i)' /\ Exists(j)' =>
        own'[i] # own'[j] /\ Home(i)' # Home(j)'
  BY <1>1, <1>3 DEF Settled
<1>10. \A q \in Proc : proc'[q].pc = "probed" => proc'[q].id = None
  BY <1>1 DEF Settled
<1> QED
  BY <1>3, <1>4, <1>5, <1>6, <1>7, <1>8, <1>9, <1>10 DEF Settled

LEMMA EnrolSettled ==
  ASSUME TrialInv, Settled, NEW p \in Proc, Enrol(p)
  PROVE  Settled'
<1>1. PICK s \in proc[p].seen :
        /\ proc' = [proc EXCEPT ![p].seen = @ \ {s}]
        /\ \/ UNCHANGED <<rec, own>>
           \/ /\ Matches(s[1]) = {}
              /\ \E i \in Id :
                   /\ Unused(i)
                   /\ Records(i, [state |-> "present", phase |-> "active", path |-> s[1],
                                  restore |-> None, intent |-> None])
                   /\ own' = [own EXCEPT ![i] = IF Owned(s[2]) THEN None ELSE s[2]]
  BY DEF Enrol
<1>2. UNCHANGED <<fs, journal, trash, made>> /\ proc[p].pc = "probed" /\ proc[p].id = None
  BY DEF Enrol, Bounds
<1>3. /\ proc'[p].pc = "probed" /\ proc'[p].id = None /\ proc'[p].seen \subseteq proc[p].seen
      /\ \A q \in Proc \ {p} : proc'[q] = proc[q]
  BY <1>1, <1>2 DEF TrialInv, TrialTypes, Process
<1>4. \A q \in Proc : /\ proc'[q].pc = proc[q].pc /\ proc'[q].id = proc[q].id
                      /\ proc'[q].seen \subseteq proc[q].seen
                      /\ proc'[q].pc = "probed" => proc'[q].id = None
                      /\ proc[q].pc # "probed" => proc'[q] = proc[q]
  BY <1>2, <1>3 DEF Settled
<1>5. CASE UNCHANGED <<rec, own>>
  <2>1. \A q \in {p} : Placed(q)'
    BY <1>3 DEF Placed
  <2> QED
    BY <1>2, <1>3, <1>5, <2>1, Repositioned
<1>6. CASE Matches(s[1]) = {} /\ ~UNCHANGED <<rec, own>>
  <2> DEFINE v == s[1]
             d == s[2]
             r == [state |-> "present", phase |-> "active", path |-> s[1],
                   restore |-> None, intent |-> None]
  <2>1. PICK i \in Id : /\ Unused(i) /\ rec' = [rec EXCEPT ![i] = r]
                        /\ own' = [own EXCEPT ![i] = IF Owned(d) THEN None ELSE d]
    BY <1>1, <1>6 DEF Records
  <2>2. v \in Visible /\ v \in Path /\ d \in Dir /\ d # None /\ Seen(s) /\ OnePlace
    BY <1>1, PathTypes DEF TrialInv, TrialTypes, Process, Settled, Dir
  <2>3. /\ r.state = "present" /\ r.phase = "active" /\ r.path = v /\ r.restore = None
        /\ r.intent = None /\ r \in Record
    BY <2>2 DEF Record
  <2>4. r # None
    BY <2>3
  <2>5. rec'[i] = r /\ ~Exists(i) /\ journal[i] = None /\ \A j \in Id \ {i} : rec'[j] = rec[j]
    BY <2>1 DEF TrialInv, TrialTypes, Unused, Exists
  <2> HIDE DEF r
  <2>6. \A j \in Id : Exists(j) => Home(j) # v
    BY <1>6 DEF Matches, Home
  <2>7. fs[v] = d /\ ~Owned(d)
    BY <2>2, <2>6 DEF Seen
  <2>8. own'[i] = d /\ \A j \in Id \ {i} : own'[j] = own[j]
    BY <2>1, <2>7 DEF TrialInv, TrialTypes
  <2>9. Exists(i)' /\ Home(i)' = v
    BY <2>3, <2>4, <2>5 DEF Exists, Home
  <2>10. Good(i)'
    <3>1. Housed(i)' /\ Bound(i)'
      BY <2>2, <2>3, <2>5, <2>9 DEF Housed, Bound
    <3>2. Traced(i)' /\ Located(i)'
      BY <1>2, <2>3, <2>5, <2>7, <2>8 DEF Traced, Located
    <3> QED
      BY <2>2, <2>8, <3>1, <3>2 DEF Good
  <2>11. ASSUME NEW j \in Id \ {i}
         PROVE  /\ Exists(j)' <=> Exists(j)
                /\ Exists(j) => Good(j)' /\ Home(j)' = Home(j) /\ own'[j] # d
    <3>1. rec'[j] = rec[j] /\ own'[j] = own[j] /\ journal'[j] = journal[j]
      BY <1>2, <2>5, <2>8
    <3>2. Exists(j)' <=> Exists(j)
      BY <3>1 DEF Exists
    <3>3. Exists(j) => own[j] # d
      BY <2>7 DEF Owned
    <3>4. Exists(j) => Good(j)' /\ Home(j)' = Home(j)
      BY <1>2, <3>1, GoodStill
    <3> QED
      BY <3>1, <3>2, <3>3, <3>4
  <2>12. \A j \in Id : ~Exists(j)' => journal'[j] = None
    BY <1>2, <2>9, <2>11 DEF Settled
  <2>13. \A j \in Id : Exists(j)' => Good(j)'
    BY <2>10, <2>11
  <2>14. ASSUME NEW j \in Id, NEW k \in Id, j # k, Exists(j)', Exists(k)'
         PROVE  own'[j] # own'[k] /\ Home(j)' # Home(k)'
    <3>1. CASE j # i /\ k # i
      BY <2>8, <2>11, <2>14, <3>1 DEF Settled
    <3>2. CASE j = i
      BY <2>6, <2>8, <2>9, <2>11, <2>14, <3>2
    <3>3. CASE k = i
      BY <2>6, <2>8, <2>9, <2>11, <2>14, <3>3
    <3> QED
      BY <3>1, <3>2, <3>3
  <2>15. OnePlace'
    BY <1>2, <2>2 DEF OnePlace
  <2>16. ASSUME NEW q \in Proc
         PROVE  Placed(q)'
    <3>1. CASE proc[q].pc = "probed"
      BY <1>4, <3>1 DEF Placed
    <3>2. CASE proc[q].pc # "probed"
      <4>1. proc'[q] = proc[q] /\ proc[q].id # i /\ Placed(q)
        BY <1>4, <2>1, <3>2 DEF Unused, Settled
      <4>2. CASE proc[q].pc \in Moving \cup Removing
        <5>1. proc[q].id \in Id
          BY <4>2, AtWork
        <5> QED
          BY <1>2, <2>8, <4>1, <5>1 DEF Placed
      <4>3. CASE proc[q].pc \notin Moving \cup Removing
        BY <4>1, <4>3 DEF Placed, Moving, Removing
      <4> QED
        BY <4>2, <4>3
    <3> QED
      BY <3>1, <3>2
  <2>17. ASSUME NEW q \in Proc, NEW t \in proc'[q].seen
         PROVE  Seen(t)'
    <3>1. t \in proc[q].seen
      BY <1>4, <2>17
    <3>2. Seen(t) /\ t[1] \in Path /\ t[2] # None
      BY <3>1, PathTypes DEF TrialInv, TrialTypes, Process, Settled, Dir
    <3>3. CASE fs[t[1]] = t[2] /\ ~Owned(t[2]) /\ t[2] # d
      BY <1>2, <2>5, <2>8, <2>9, <2>11, <3>3 DEF Seen, Owned
    <3>4. CASE fs[t[1]] = t[2] /\ t[2] = d
      <4>1. t[1] = v
        BY <2>2, <2>7, <3>2, <3>4 DEF OnePlace
      <4> QED
        BY <2>8, <2>9, <3>4, <4>1 DEF Seen
    <3>5. CASE \E j \in Id : Exists(j) /\ own[j] = t[2] /\ Home(j) = t[1]
      <4>1. PICK j \in Id : Exists(j) /\ own[j] = t[2] /\ Home(j) = t[1]
        BY <3>5
      <4> QED
        BY <2>5, <2>8, <2>11, <4>1 DEF Seen
    <3> QED
      BY <3>2, <3>3, <3>4, <3>5 DEF Seen
  <2> QED
    BY <1>4, <2>12, <2>13, <2>14, <2>15, <2>16, <2>17 DEF Settled
<1> QED
  BY <1>1, <1>5, <1>6

-----------------------------------------------------------------------------
LEMMA InitHome == Init => HomeInv
<1> SUFFICES ASSUME Init PROVE HomeInv
  OBVIOUS
<1>1. TrialInv /\ touches \in Nat
  BY InitTrialInv DEF Init
<1>2. \A i \in Id : ~Exists(i)
  BY DEF Init, Exists
<1>3. OnePlace
  BY DEF Init, OnePlace
<1>4. \A p \in Proc : proc[p].pc = "idle" /\ proc[p].seen = {}
  BY DEF Init, Idle, At
<1>5. \A p \in Proc : Placed(p)
  BY <1>4 DEF Placed
<1> QED
  BY <1>1, <1>2, <1>3, <1>4, <1>5 DEF Settled, Init, HomeInv

LEMMA HomeSteps ==
  ASSUME AtHome, TrialInv, Settled, touches = 0, touches' = 0, touches \in Nat, Next
  PROVE  Settled'
<1>1. ASSUME NEW p \in Proc, NEW i \in Id,
             NEW move \in {"archive", "restore", "graduate", "demote"}, Begin(p, i, move)
      PROVE  Settled'
  BY <1>1, BeginSettled
<1>2. ASSUME NEW p \in Proc, Onward(p)
      PROVE  Settled'
  <2>1. CASE Check(p)
    BY <2>1, CheckSettled
  <2>2. CASE Enrol(p)
    BY <2>2, EnrolSettled
  <2>3. CASE FinalizeFails(p)
    BY <2>3, FinalizeFailsSettled
  <2>4. CASE RollBackRefused(p) \/ Listed(p) \/ RemovalFails(p)
    BY <2>4, StoppedSettled DEF RollBackRefused, Listed, RemovalFails, Bounds
  <2>5. CASE Attach(p)
    BY <2>5 DEF Attach, Settled
  <2>6. CASE \/ Move(p) \/ FailMove(p) \/ Finalize(p) \/ RollBack(p) \/ RepairOwn(p)
             \/ Trash(p) \/ RecordRemoval(p) \/ FinishRemoval(p)
    <3>1. proc[p].pc \in Moving \cup Removing
      BY <2>6
         DEF Move, FailMove, Finalize, RollBack, RepairOwn, Trash, RecordRemoval,
             FinishRemoval, Moving, Removing
    <3>2. PICK i \in Id, m \in Intent : i = proc[p].id /\ m = proc[p].plan
      BY <3>1 DEF TrialInv, Leased, Live
    <3> QED
      BY <2>6, <3>2, MoveSettled, ReconciledSettled, FinalizeSettled, RollBackSettled,
         TrashSettled, RecordRemovalSettled, FinishRemovalSettled
  <2> QED
    BY <1>2, <2>1, <2>2, <2>3, <2>4, <2>5, <2>6 DEF Onward
<1>3. ASSUME NEW p \in Proc, Crash(p)
      PROVE  Settled'
  BY <1>3, StoppedSettled DEF Crash
<1>4. ASSUME NEW p \in Proc, NEW i \in Id \cup {None}, Probe(p, i)
      PROVE  Settled'
  BY <1>4, ProbeSettled
<1>5. ASSUME NEW p \in Proc, NEW i \in Id, Mark(p, i)
      PROVE  Settled'
  BY <1>5, MarkSettled
<1>6. ASSUME NEW i \in Id, Repair(i) \/ Forget(i) \/ PutBack(i)
      PROVE  Settled'
  BY <1>6, RepairSettled, PutBackSettled DEF Forget, AtHome, HomeOps
<1>7. ASSUME NEW i \in Id, NEW path \in Path, Reassociate(i, path)
      PROVE  Settled'
  BY <1>7, ReassociateSettled
<1>8. ASSUME NEW v \in Visible, Make(v)
      PROVE  Settled'
  BY <1>8, MakeSettled
<1>9. ASSUME NEW path \in Path, Displace(path)
      PROVE  Settled'
  BY <1>9 DEF Displace
<1> QED
  BY <1>1, <1>2, <1>3, <1>4, <1>5, <1>6, <1>7, <1>8, <1>9 DEF Next

LEMMA TouchesStep ==
  ASSUME touches \in Nat, Next
  PROVE  touches' \in Nat /\ (touches' = 0 => touches = 0)
<1>1. ASSUME NEW p \in Proc, Onward(p) \/ Crash(p)
      PROVE  UNCHANGED touches
  BY <1>1
     DEF Onward, Check, Move, FailMove, Finalize, FinalizeFails, RollBack, RollBackRefused,
         RepairOwn, Enrol, Listed, Attach, Trash, RemovalFails, RecordRemoval,
         FinishRemoval, Crash, Bounds
<1>2. ASSUME NEW i \in Id, Repair(i) \/ Forget(i) \/ PutBack(i)
      PROVE  UNCHANGED touches
  BY <1>2 DEF Repair, Forget, PutBack, Bounds
<1>3. ASSUME NEW p \in Proc, NEW i \in Id,
             NEW move \in {"archive", "restore", "graduate", "demote"}, Begin(p, i, move)
      PROVE  UNCHANGED touches
  BY <1>3 DEF Begin, Bounds
<1>4. ASSUME NEW p \in Proc, NEW i \in Id \cup {None}, Probe(p, i) \/ Mark(p, i)
      PROVE  UNCHANGED touches
  BY <1>4 DEF Probe, Mark, Bounds
<1>5. ASSUME NEW i \in Id, NEW path \in Path, Reassociate(i, path)
      PROVE  UNCHANGED touches
  BY <1>5 DEF Reassociate, Bounds
<1>6. ASSUME NEW v \in Visible, Make(v)
      PROVE  UNCHANGED touches
  BY <1>6 DEF Make
<1>7. ASSUME NEW path \in Path, Displace(path)
      PROVE  touches' = touches + 1
  BY <1>7 DEF Displace
<1> QED
  BY <1>1, <1>2, <1>3, <1>4, <1>5, <1>6, <1>7 DEF Next

LEMMA HomeStep ==
  ASSUME AtHome, HomeInv, [Next]_vars
  PROVE  HomeInv'
<1>1. TrialInv'
  BY TrialStep DEF HomeInv
<1>2. CASE Next
  <2>1. touches' \in Nat /\ (touches' = 0 => touches = 0)
    BY <1>2, TouchesStep DEF HomeInv
  <2> QED
    BY <1>1, <1>2, <2>1, HomeSteps DEF HomeInv
<1>3. CASE UNCHANGED vars
  <2>1. UNCHANGED <<fs, rec, journal, trash, proc, own, made, touches>>
    BY <1>3 DEF vars
  <2>2. ASSUME Settled
        PROVE  Settled'
    <3>1. \A q \in Proc : Placed(q)'
      BY <2>1, <2>2 DEF Settled, Placed
    <3>2. \A q \in Proc : \A s \in proc'[q].seen : Seen(s)'
      BY <2>1, <2>2 DEF Settled, Seen, Owned, Exists, Home
    <3>3. \A q \in Proc : proc'[q].pc = "probed" => proc'[q].id = None
      BY <2>1, <2>2 DEF Settled
    <3> QED
      BY <2>1, <2>2, <3>1, <3>2, <3>3, SettledStill DEF HomeInv
  <2> QED
    BY <1>1, <2>1, <2>2 DEF HomeInv
<1> QED
  BY <1>2, <1>3

LEMMA HomeTracked == HomeInv => Tracked
BY DEF HomeInv, Settled, Good, Tracked

-----------------------------------------------------------------------------
(***************************************************************************)
(* Fragments of the list of remotes.                                       *)
(***************************************************************************)

Locked == {"locked", "writing", "staged", "ready", "published", "matched", "undoing",
           "cleaning", "final", "verify", "rollback", "removing", "leaving", "out", "gone"}
Kinds == {"register", "unregister", "undo"}

FleetTypes ==
    /\ entry \in [Aliases \cup Proc -> Fleet!Files \cup {None}]
    /\ primary \subseteq Name
    /\ saves \in 0..MaxSaves
    /\ lock \in Proc \cup {None}
    /\ pc \in [Proc -> {"idle", "waiting", "done"} \cup Locked]
    /\ DOMAIN op = Proc
    /\ \A p \in Proc : pc[p] # "idle" =>
          /\ op[p].kind \in Kinds /\ op[p].alias \in Aliases
          /\ op[p].want \in Name \cup {None, "edited"}
          /\ op[p].prev \in Fleet!Files \cup {None}
          /\ op[p].kind = "register" => op[p].want \in Name
          /\ op[p].kind = "unregister" => op[p].want = None
          /\ pc[p] = "writing" => op[p].want # None

\* The lock is held exactly past "waiting".
LockHeld == \A p \in Proc : lock = p <=> pc[p] \in Locked

\* What lies under the private name of a command.
Bare(p) == pc[p] \in {"idle", "waiting", "locked", "writing", "final", "verify", "rollback",
                      "removing", "leaving", "gone"} => entry[p] = None
Kept(p) == /\ pc[p] = "published" => (Fleet!Existed(p) <=> entry[p] # None)
           /\ pc[p] = "matched" => entry[p] = op[p].prev
Private == \A p \in Proc : Bare(p) /\ Kept(p)

\* While the user changes nothing: the list, and what a command knows of it.
Undisturbed(p) ==
    /\ pc[p] # "idle" => op[p].kind # "undo"
    /\ pc[p] \in {"writing", "staged", "ready", "removing", "leaving"} => Fleet!Target(p) = op[p].prev
    /\ pc[p] \in {"staged", "ready"} => entry[p] = Fleet!Staged(p)
    /\ pc[p] \in {"published", "matched", "final", "verify"} => Fleet!Target(p) = Fleet!Staged(p)
    /\ pc[p] = "published" => entry[p] = op[p].prev
    /\ pc[p] \in {"writing", "staged", "ready", "published", "matched", "final", "verify"} =>
          /\ op[p].kind = "register"
          /\ \A x \in Aliases \ {op[p].alias} : Fleet!Text(entry[x]) # op[p].want
    /\ pc[p] \in {"removing", "leaving", "out", "gone"} =>
          op[p].kind = "unregister" /\ op[p].want = None
    /\ pc[p] \in {"removing", "leaving"} => Fleet!Target(p) # None
    /\ pc[p] \in {"out", "gone"} => Fleet!Target(p) = None
    /\ pc[p] = "out" => entry[p] = op[p].prev
    /\ pc[p] \notin {"undoing", "cleaning", "rollback"}
Quiet == saves = 0 => /\ primary = {} /\ Fleet!Loads(entry)
                      /\ \A p \in Proc : Undisturbed(p)

FleetInv == FleetTypes /\ LockHeld /\ Private /\ Quiet

LEMMA StagedIsFile ==
  ASSUME NEW p \in Proc, op[p].want \in Name \cup {"edited"}
  PROVE  Fleet!Staged(p) \in Fleet!Files /\ Fleet!Staged(p) # None /\ Fleet!Staged(p).text = op[p].want
                             /\ Fleet!Staged(p).by = p
BY FleetAssumption DEF Fleet!FleetAssumption, Fleet!Staged, Fleet!File, Fleet!Files

\* What one command does to its fragment and its private name.
LEMMA SwapEffect ==
  ASSUME FleetTypes, NEW p \in Proc, pc[p] # "idle"
  PROVE  /\ Fleet!Swap(p) \in [Aliases \cup Proc -> Fleet!Files \cup {None}]
         /\ Fleet!Swap(p)[op[p].alias] = entry[p] /\ Fleet!Swap(p)[p] = entry[op[p].alias]
         /\ \A x \in (Aliases \cup Proc) \ {p, op[p].alias} : Fleet!Swap(p)[x] = entry[x]
         /\ op[p].alias # p /\ op[p].alias \in Aliases
BY FleetAssumption DEF Fleet!FleetAssumption, FleetTypes, Fleet!Swap, Fleet!Target

Steps(p) ==
    \/ Fleet!Register(p) \/ Fleet!Unregister(p) \/ Fleet!Enter(p) \/ Fleet!Recheck(p)
    \/ Fleet!Stage(p) \/ Fleet!Validate(p) \/ Fleet!Publish(p) \/ Fleet!Compare(p) \/ Fleet!Discard(p)
    \/ Fleet!Undo(p) \/ Fleet!Clean(p) \/ Fleet!Final(p) \/ Fleet!Verify(p) \/ Fleet!Rollback(p)
    \/ Fleet!Remove(p) \/ Fleet!RenameOut(p) \/ Fleet!CompareOut(p) \/ Fleet!Gone(p) \/ Fleet!Kill(p)
UserSteps == (\E a \in Aliases : Fleet!Replace(a) \/ Fleet!EditInPlace(a) \/ Fleet!Delete(a)) \/ Fleet!EditPrimary

\* A command changes only its own position, fragment and private name.
LEMMA OwnOnly ==
  ASSUME FleetTypes, LockHeld, NEW p \in Proc, Steps(p)
  PROVE  /\ \A q \in Proc \ {p} : pc'[q] = pc[q] /\ op'[q] = op[q] /\ entry'[q] = entry[q]
         /\ DOMAIN op' = Proc
         /\ pc' = [pc EXCEPT ![p] = pc'[p]]
         /\ UNCHANGED <<primary, saves>>
         /\ entry' \in [Aliases \cup Proc -> Fleet!Files \cup {None}]
         /\ pc[p] \in {"idle", "waiting"} => entry' = entry
         /\ pc[p] \in Locked => lock = p
<1> USE FleetAssumption
   DEF Fleet!FleetAssumption, FleetTypes, LockHeld, Fleet!Go, Fleet!Stay, Fleet!Continue,
       Fleet!End, Fleet!Start, Locked
<1>0. pc[p] \in Locked => lock = p
  OBVIOUS
<1>1. CASE Fleet!Register(p)
  BY <1>1, <1>0 DEF Fleet!Register
<1>2. CASE Fleet!Unregister(p)
  BY <1>2, <1>0 DEF Fleet!Unregister
<1>3. CASE Fleet!Enter(p)
  BY <1>3, <1>0 DEF Fleet!Enter
<1>4. CASE Fleet!Recheck(p)
  BY <1>4, <1>0 DEF Fleet!Recheck
<1>5. CASE Fleet!Stage(p)
  BY <1>5, <1>0, StagedIsFile DEF Fleet!Stage
<1>6. CASE Fleet!Validate(p)
  BY <1>6, <1>0 DEF Fleet!Validate
<1>7. CASE Fleet!Publish(p)
  BY <1>7, <1>0, SwapEffect DEF Fleet!Publish
<1>8. CASE Fleet!Compare(p)
  BY <1>8, <1>0 DEF Fleet!Compare
<1>9. CASE Fleet!Discard(p)
  BY <1>9, <1>0 DEF Fleet!Discard
<1>10. CASE Fleet!Undo(p)
  BY <1>10, <1>0, SwapEffect DEF Fleet!Undo
<1>11. CASE Fleet!Clean(p)
  BY <1>11, <1>0 DEF Fleet!Clean
<1>12. CASE Fleet!Final(p)
  BY <1>12, <1>0 DEF Fleet!Final
<1>13. CASE Fleet!Verify(p)
  BY <1>13, <1>0 DEF Fleet!Verify
<1>14. CASE Fleet!Rollback(p)
  BY <1>14, <1>0 DEF Fleet!Rollback
<1>15. CASE Fleet!Remove(p)
  BY <1>15, <1>0 DEF Fleet!Remove
<1>16. CASE Fleet!RenameOut(p)
  BY <1>16, <1>0, SwapEffect DEF Fleet!RenameOut
<1>17. CASE Fleet!CompareOut(p)
  BY <1>17, <1>0, SwapEffect DEF Fleet!CompareOut
<1>18. CASE Fleet!Gone(p)
  BY <1>18, <1>0 DEF Fleet!Gone
<1>19. CASE Fleet!Kill(p)
  BY <1>19, <1>0 DEF Fleet!Kill
<1> QED
  BY <1>1, <1>2, <1>3, <1>4, <1>5, <1>6, <1>7, <1>8, <1>9, <1>10, <1>11, <1>12, <1>13,
     <1>14, <1>15, <1>16, <1>17, <1>18, <1>19 DEF Steps

LEMMA OpTyped ==
  ASSUME FleetTypes, LockHeld, NEW p \in Proc, Steps(p)
  PROVE  /\ lock' \in Proc \cup {None}
         /\ pc' \in [Proc -> {"idle", "waiting", "done"} \cup Locked]
         /\ pc'[p] # "idle" =>
              /\ op'[p].kind \in Kinds /\ op'[p].alias \in Aliases
              /\ op'[p].want \in Name \cup {None, "edited"}
              /\ op'[p].prev \in Fleet!Files \cup {None}
              /\ op'[p].kind = "register" => op'[p].want \in Name
              /\ op'[p].kind = "unregister" => op'[p].want = None
              /\ pc'[p] = "writing" => op'[p].want # None
         /\ lock' = p <=> pc'[p] \in Locked
         /\ \A q \in Proc \ {p} : lock' = q <=> lock = q
<1> USE FleetAssumption
   DEF Fleet!FleetAssumption, FleetTypes, LockHeld, Fleet!Go, Fleet!Stay, Fleet!Continue,
       Fleet!End, Fleet!Start, Locked, Kinds, Fleet!Target, Fleet!Operation, Fleet!Text
<1>1. CASE Fleet!Register(p)
  BY <1>1 DEF Fleet!Register, Fleet!Files
<1>2. CASE Fleet!Unregister(p)
  BY <1>2 DEF Fleet!Unregister, Fleet!Files
<1>3. CASE Fleet!Enter(p)
  BY <1>3 DEF Fleet!Enter
<1>4. CASE Fleet!Recheck(p)
  BY <1>4 DEF Fleet!Recheck
<1>5. CASE Fleet!Stage(p)
  BY <1>5 DEF Fleet!Stage
<1>6. CASE Fleet!Validate(p)
  BY <1>6 DEF Fleet!Validate
<1>7. CASE Fleet!Publish(p)
  BY <1>7 DEF Fleet!Publish
<1>8. CASE Fleet!Compare(p)
  BY <1>8 DEF Fleet!Compare
<1>9. CASE Fleet!Discard(p)
  BY <1>9 DEF Fleet!Discard
<1>10. CASE Fleet!Undo(p)
  BY <1>10 DEF Fleet!Undo
<1>11. CASE Fleet!Clean(p)
  BY <1>11 DEF Fleet!Clean
<1>12. CASE Fleet!Final(p)
  BY <1>12 DEF Fleet!Final
<1>13. CASE Fleet!Verify(p)
  BY <1>13 DEF Fleet!Verify, Fleet!Files
<1>14. CASE Fleet!Rollback(p)
  BY <1>14 DEF Fleet!Rollback
<1>15. CASE Fleet!Remove(p)
  BY <1>15 DEF Fleet!Remove
<1>16. CASE Fleet!RenameOut(p)
  BY <1>16 DEF Fleet!RenameOut
<1>17. CASE Fleet!CompareOut(p)
  BY <1>17 DEF Fleet!CompareOut
<1>18. CASE Fleet!Gone(p)
  BY <1>18 DEF Fleet!Gone
<1>19. CASE Fleet!Kill(p)
  BY <1>19 DEF Fleet!Kill
<1> QED
  BY <1>1, <1>2, <1>3, <1>4, <1>5, <1>6, <1>7, <1>8, <1>9, <1>10, <1>11, <1>12, <1>13,
     <1>14, <1>15, <1>16, <1>17, <1>18, <1>19 DEF Steps

LEMMA PrivateStep ==
  ASSUME FleetTypes, LockHeld, Private, NEW p \in Proc, Steps(p)
  PROVE  Bare(p)' /\ Kept(p)' 
<1> USE FleetAssumption
   DEF Fleet!FleetAssumption, FleetTypes, LockHeld, Fleet!Go, Fleet!Stay, Fleet!Continue,
       Fleet!End, Fleet!Start, Locked, Private, Bare, Kept, Fleet!Existed
<1>1. CASE Fleet!Register(p)
  BY <1>1, StagedIsFile DEF Fleet!Register
<1>2. CASE Fleet!Unregister(p)
  BY <1>2, StagedIsFile DEF Fleet!Unregister
<1>3. CASE Fleet!Enter(p)
  BY <1>3, StagedIsFile DEF Fleet!Enter
<1>4. CASE Fleet!Recheck(p)
  BY <1>4, StagedIsFile DEF Fleet!Recheck
<1>5. CASE Fleet!Stage(p)
  BY <1>5, StagedIsFile DEF Fleet!Stage
<1>6. CASE Fleet!Validate(p)
  BY <1>6, StagedIsFile DEF Fleet!Validate
<1>7. CASE Fleet!Publish(p)
  BY <1>7, StagedIsFile, SwapEffect DEF Fleet!Publish, Fleet!Target
<1>8. CASE Fleet!Compare(p)
  BY <1>8, StagedIsFile DEF Fleet!Compare, Fleet!Matches
<1>9. CASE Fleet!Discard(p)
  BY <1>9, StagedIsFile DEF Fleet!Discard
<1>10. CASE Fleet!Undo(p)
  BY <1>10, StagedIsFile, SwapEffect DEF Fleet!Undo, Fleet!Target
<1>11. CASE Fleet!Clean(p)
  BY <1>11, StagedIsFile DEF Fleet!Clean
<1>12. CASE Fleet!Final(p)
  BY <1>12, StagedIsFile DEF Fleet!Final
<1>13. CASE Fleet!Verify(p)
  BY <1>13, StagedIsFile DEF Fleet!Verify
<1>14. CASE Fleet!Rollback(p)
  BY <1>14, StagedIsFile DEF Fleet!Rollback
<1>15. CASE Fleet!Remove(p)
  BY <1>15, StagedIsFile DEF Fleet!Remove
<1>16. CASE Fleet!RenameOut(p)
  BY <1>16, StagedIsFile, SwapEffect DEF Fleet!RenameOut, Fleet!Target
<1>17. CASE Fleet!CompareOut(p)
  BY <1>17, StagedIsFile, SwapEffect DEF Fleet!CompareOut, Fleet!Target
<1>18. CASE Fleet!Gone(p)
  BY <1>18, StagedIsFile DEF Fleet!Gone
<1>19. CASE Fleet!Kill(p)
  BY <1>19, StagedIsFile DEF Fleet!Kill
<1> QED
  BY <1>1, <1>2, <1>3, <1>4, <1>5, <1>6, <1>7, <1>8, <1>9, <1>10, <1>11, <1>12, <1>13,
     <1>14, <1>15, <1>16, <1>17, <1>18, <1>19 DEF Steps

\* The user leaves the private names alone, and what commands know.
LEMMA UserEffect ==
  ASSUME FleetTypes, UserSteps
  PROVE  /\ UNCHANGED <<lock, pc, op>>
         /\ entry' \in [Aliases \cup Proc -> Fleet!Files \cup {None}]
         /\ \A p \in Proc : entry'[p] = entry[p]
         /\ primary' \subseteq Name /\ saves' = saves + 1 /\ saves' \in 0..MaxSaves
<1> USE FleetAssumption DEF Fleet!FleetAssumption, FleetTypes, Fleet!Saves
<1>1. ASSUME NEW a \in Aliases, Fleet!Replace(a)
      PROVE  entry' \in [Aliases \cup Proc -> Fleet!Files \cup {None}]
  BY <1>1 DEF Fleet!Replace, Fleet!File, Fleet!Files
<1>2. ASSUME NEW a \in Aliases, Fleet!EditInPlace(a)
      PROVE  entry' \in [Aliases \cup Proc -> Fleet!Files \cup {None}]
  <2>1. entry[a] \in Fleet!Files /\ entry' = [entry EXCEPT ![a] = [entry[a] EXCEPT !.text = "edited"]]
    BY <1>2 DEF Fleet!EditInPlace
  <2>2. [entry[a] EXCEPT !.text = "edited"] \in Fleet!Files
    BY <2>1 DEF Fleet!Files
  <2> QED
    BY <2>1, <2>2
<1>3. ASSUME NEW a \in Aliases, Fleet!Delete(a)
      PROVE  entry' \in [Aliases \cup Proc -> Fleet!Files \cup {None}]
  BY <1>3 DEF Fleet!Delete
<1>4. ASSUME Fleet!EditPrimary
      PROVE  entry' = entry /\ primary' \subseteq Name
  BY <1>4 DEF Fleet!EditPrimary
<1>5. /\ UNCHANGED <<lock, pc, op>>
      /\ \A p \in Proc : entry'[p] = entry[p]
      /\ saves' = saves + 1 /\ saves' \in 0..MaxSaves
  BY DEF UserSteps, Fleet!Replace, Fleet!EditInPlace, Fleet!Delete, Fleet!EditPrimary
<1>6. primary' \subseteq Name
  BY <1>4 DEF UserSteps, Fleet!Replace, Fleet!EditInPlace, Fleet!Delete
<1> QED
  BY <1>1, <1>2, <1>3, <1>4, <1>5, <1>6 DEF UserSteps

\* Of the list only the texts count.
LEMMA LoadsTexts ==
  ASSUME NEW e, NEW f, \A a \in Aliases : e[a] = None <=> f[a] = None,
         \A a \in Aliases : e[a] # None => e[a].text = f[a].text, Fleet!Loads(e)
  PROVE  Fleet!Loads(f)
BY DEF Fleet!Loads, Fleet!Canonical, Fleet!Text

\* A fragment less leaves a list that loads.
LEMMA LoadsWithout ==
  ASSUME NEW e, NEW f, NEW b \in Aliases, Fleet!Loads(e), f[b] = None,
         \A a \in Aliases \ {b} : f[a] = e[a], primary = {}
  PROVE  Fleet!Loads(f)
BY FleetAssumption DEF Fleet!FleetAssumption, Fleet!Loads, Fleet!Canonical, Fleet!Text

\* What merges has a name of its own.
LEMMA MergesAlone ==
  ASSUME FleetTypes, NEW a \in Aliases, NEW n \in Name, Fleet!Merges(a, n)
  PROVE  \A x \in Aliases \ {a} : Fleet!Text(entry[x]) # n
<1> DEFINE m == [entry EXCEPT ![a] = Fleet!File(n, None, 0)]
<1>1. Fleet!Loads(m)
  BY DEF Fleet!Merges
<1>2. Fleet!File(n, None, 0) \in Fleet!Files /\ Fleet!File(n, None, 0).text = n
  BY FleetAssumption DEF Fleet!FleetAssumption, Fleet!File, Fleet!Files
<1>3. /\ m[a] = Fleet!File(n, None, 0) /\ m[a] # None /\ m[a].text = n
      /\ \A x \in Aliases \ {a} : m[x] = entry[x]
  BY <1>2, FleetAssumption DEF Fleet!FleetAssumption, FleetTypes
<1> HIDE DEF m
<1>4. \A x \in Aliases \ {a} : Fleet!Text(m[x]) # n
  BY <1>1, <1>3 DEF Fleet!Loads, Fleet!Text
<1> QED
  BY <1>3, <1>4

\* A command leaves the list as it is, publishes what merges, or removes a fragment.
LEMMA QuietLoads ==
  ASSUME FleetInv, saves = 0, NEW p \in Proc, Steps(p)
  PROVE  Fleet!Loads(entry')
<1> DEFINE a == op[p].alias
<1> USE FleetAssumption
   DEF Fleet!FleetAssumption, FleetInv, FleetTypes, LockHeld, Quiet, Undisturbed, Locked,
       Fleet!Go, Fleet!Stay, Fleet!Continue, Fleet!End, Fleet!Start
<1>1. CASE entry' = entry
  BY <1>1
<1>2. CASE pc[p] # "idle" /\ \A x \in Aliases : entry'[x] = entry[x]
  BY <1>2, LoadsTexts
<1>3. CASE Fleet!Publish(p) /\ entry' = Fleet!Swap(p)
  <2>1. /\ a \in Aliases /\ entry[p] = Fleet!Staged(p) /\ op[p].want \in Name
        /\ \A x \in Aliases \ {a} : Fleet!Text(entry[x]) # op[p].want
    BY <1>3 DEF Fleet!Publish
  <2>2. entry'[a] = Fleet!Staged(p) /\ \A x \in Aliases \ {a} : entry'[x] = entry[x]
    BY <1>3, <2>1, SwapEffect DEF Fleet!Publish
  <2>3. entry'[a] # None /\ entry'[a].text = op[p].want
    BY <2>1, <2>2, StagedIsFile
  <2> QED
    BY <2>1, <2>2, <2>3 DEF Fleet!Loads, Fleet!Canonical, Fleet!Text
<1>4. CASE Fleet!RenameOut(p) /\ entry' = Fleet!Swap(p)
  <2>1. a \in Aliases /\ entry[p] = None /\ pc[p] # "idle"
    BY <1>4 DEF Fleet!RenameOut, Private, Bare
  <2>2. entry'[a] = None /\ \A x \in Aliases \ {a} : entry'[x] = entry[x]
    BY <1>4, <2>1, SwapEffect
  <2> QED
    BY <2>1, <2>2, LoadsWithout
<1>5. CASE Fleet!Register(p)
  BY <1>1, <1>2, <1>3, <1>4, <1>5 DEF Fleet!Register
<1>6. CASE Fleet!Unregister(p)
  BY <1>1, <1>2, <1>3, <1>4, <1>6 DEF Fleet!Unregister
<1>7. CASE Fleet!Enter(p)
  BY <1>1, <1>2, <1>3, <1>4, <1>7 DEF Fleet!Enter
<1>8. CASE Fleet!Recheck(p)
  BY <1>1, <1>2, <1>3, <1>4, <1>8 DEF Fleet!Recheck
<1>9. CASE Fleet!Stage(p)
  BY <1>1, <1>2, <1>3, <1>4, <1>9 DEF Fleet!Stage
<1>10. CASE Fleet!Validate(p)
  BY <1>1, <1>2, <1>3, <1>4, <1>10 DEF Fleet!Validate
<1>11. CASE Fleet!Publish(p)
  BY <1>1, <1>2, <1>3, <1>4, <1>11 DEF Fleet!Publish
<1>12. CASE Fleet!Compare(p)
  BY <1>1, <1>2, <1>3, <1>4, <1>12 DEF Fleet!Compare
<1>13. CASE Fleet!Discard(p)
  BY <1>1, <1>2, <1>3, <1>4, <1>13 DEF Fleet!Discard
<1>14. CASE Fleet!Undo(p)
  BY <1>1, <1>2, <1>3, <1>4, <1>14 DEF Fleet!Undo
<1>15. CASE Fleet!Clean(p)
  BY <1>1, <1>2, <1>3, <1>4, <1>15 DEF Fleet!Clean
<1>16. CASE Fleet!Final(p)
  BY <1>1, <1>2, <1>3, <1>4, <1>16 DEF Fleet!Final
<1>17. CASE Fleet!Verify(p)
  BY <1>1, <1>2, <1>3, <1>4, <1>17 DEF Fleet!Verify
<1>18. CASE Fleet!Rollback(p)
  BY <1>1, <1>2, <1>3, <1>4, <1>18 DEF Fleet!Rollback
<1>19. CASE Fleet!Remove(p)
  BY <1>1, <1>2, <1>3, <1>4, <1>19 DEF Fleet!Remove
<1>20. CASE Fleet!RenameOut(p)
  BY <1>1, <1>2, <1>3, <1>4, <1>20 DEF Fleet!RenameOut
<1>21. CASE Fleet!CompareOut(p)
  BY <1>1, <1>2, <1>3, <1>4, <1>21 DEF Fleet!CompareOut, Fleet!Moved, Fleet!Target
<1>22. CASE Fleet!Gone(p)
  BY <1>1, <1>2, <1>3, <1>4, <1>22 DEF Fleet!Gone
<1>23. CASE Fleet!Kill(p)
  BY <1>1, <1>2, <1>3, <1>4, <1>23 DEF Fleet!Kill
<1> QED
  BY <1>5, <1>6, <1>7, <1>8, <1>9, <1>10, <1>11, <1>12, <1>13, <1>14, <1>15, <1>16, <1>17,
     <1>18, <1>19, <1>20, <1>21, <1>22, <1>23 DEF Steps

\* While the user changes nothing, a command finds what it left.
LEMMA QuietOwn ==
  ASSUME FleetInv, saves = 0, NEW p \in Proc, Steps(p)
  PROVE  Undisturbed(p)'
<1>0. /\ \A q \in Proc : pc[p] # "idle" => op[p].alias # q
      /\ pc[p] # "idle" /\ Fleet!Target(p) = None => Fleet!Text(Fleet!Target(p)) = None
  BY FleetAssumption DEF Fleet!FleetAssumption, FleetInv, FleetTypes, Fleet!Text
<1> USE FleetAssumption
   DEF Fleet!FleetAssumption, FleetInv, FleetTypes, LockHeld, Quiet, Undisturbed, Locked,
       Fleet!Go, Fleet!Stay, Fleet!Continue, Fleet!End, Fleet!Start, Fleet!Target,
       Fleet!Existed, Fleet!Operation, Fleet!Staged
<1>1. CASE Fleet!Register(p)
  BY <1>1, StagedIsFile, <1>0 DEF Fleet!Register
<1>2. CASE Fleet!Unregister(p)
  BY <1>2, StagedIsFile, <1>0 DEF Fleet!Unregister
<1>3. CASE Fleet!Enter(p)
  BY <1>3, StagedIsFile, <1>0 DEF Fleet!Enter
<1>4. CASE Fleet!Recheck(p)
  <2>1. /\ pc[p] = "locked" /\ entry' = entry /\ pc'[p] # "locked"
        /\ pc'[p] \in {"done", "writing", "removing"}
    BY <1>4 DEF Fleet!Recheck
  <2>2. CASE pc'[p] = "done"
    BY <1>4, <2>1, <2>2 DEF Fleet!Recheck
  <2>3. CASE pc'[p] # "done"
    <3>1. /\ Fleet!MergeHolds(p) /\ Fleet!Target(p) = op[p].prev /\ Fleet!Text(Fleet!Target(p)) # op[p].want
          /\ pc'[p] = (IF op[p].kind = "register" THEN "writing" ELSE "removing")
          /\ op' = op
      BY <1>4, <2>3 DEF Fleet!Recheck
    <3>2. CASE op[p].kind = "register"
      <4>1. \A x \in Aliases \ {op[p].alias} : Fleet!Text(entry[x]) # op[p].want
        BY <2>1, <3>1, <3>2, MergesAlone DEF Fleet!MergeHolds
      <4> QED
        BY <1>0, <2>1, <3>1, <3>2, <4>1
    <3>3. CASE op[p].kind # "register"
      <4>1. op[p].kind = "unregister" /\ op[p].want = None
        BY <2>1, <3>3 DEF Kinds
      <4> QED
        BY <1>0, <2>1, <3>1, <4>1
    <3> QED
      BY <3>2, <3>3
  <2> QED
    BY <2>2, <2>3
<1>5. CASE Fleet!Stage(p)
  BY <1>5, StagedIsFile, <1>0 DEF Fleet!Stage, Fleet!Staged
<1>6. CASE Fleet!Validate(p)
  BY <1>6, StagedIsFile, <1>0 DEF Fleet!Validate
<1>7. CASE Fleet!Publish(p)
  BY <1>7, StagedIsFile, <1>0, SwapEffect DEF Fleet!Publish, Fleet!Staged
<1>8. CASE Fleet!Compare(p)
  BY <1>8, StagedIsFile, <1>0 DEF Fleet!Compare, Fleet!Matches
<1>9. CASE Fleet!Discard(p)
  BY <1>9, StagedIsFile, <1>0 DEF Fleet!Discard
<1>10. CASE Fleet!Undo(p)
  BY <1>10, StagedIsFile, <1>0, SwapEffect DEF Fleet!Undo
<1>11. CASE Fleet!Clean(p)
  BY <1>11, StagedIsFile, <1>0 DEF Fleet!Clean
<1>12. CASE Fleet!Final(p)
  BY <1>12, StagedIsFile, <1>0 DEF Fleet!Final
<1>13. CASE Fleet!Verify(p)
  BY <1>13, StagedIsFile, <1>0 DEF Fleet!Verify
<1>14. CASE Fleet!Rollback(p)
  BY <1>14, StagedIsFile, <1>0 DEF Fleet!Rollback
<1>15. CASE Fleet!Remove(p)
  BY <1>15, StagedIsFile, <1>0 DEF Fleet!Remove
<1>16. CASE Fleet!RenameOut(p)
  BY <1>16, StagedIsFile, <1>0, SwapEffect DEF Fleet!RenameOut, Private, Bare
<1>17. CASE Fleet!CompareOut(p)
  BY <1>17, StagedIsFile, <1>0, SwapEffect DEF Fleet!CompareOut, Fleet!Moved
<1>18. CASE Fleet!Gone(p)
  BY <1>18, StagedIsFile, <1>0 DEF Fleet!Gone
<1>19. CASE Fleet!Kill(p)
  BY <1>19, StagedIsFile, <1>0 DEF Fleet!Kill
<1> QED
  BY <1>1, <1>2, <1>3, <1>4, <1>5, <1>6, <1>7, <1>8, <1>9, <1>10, <1>11, <1>12, <1>13,
     <1>14, <1>15, <1>16, <1>17, <1>18, <1>19 DEF Steps

\* The others hold no lock, so they know nothing that could change.
LEMMA QuietOthers ==
  ASSUME FleetInv, saves = 0, NEW p \in Proc, Steps(p), NEW q \in Proc \ {p}
  PROVE  Undisturbed(q)'
<1>1. pc'[q] = pc[q] /\ op'[q] = op[q] /\ entry'[q] = entry[q]
  BY OwnOnly DEF FleetInv
<1>2. CASE pc[q] \notin Locked
  BY <1>1, <1>2 DEF FleetInv, Quiet, Undisturbed, Locked
<1>3. CASE pc[q] \in Locked
  <2>1. pc[p] \notin Locked /\ lock = q
    BY <1>3 DEF FleetInv, LockHeld
  <2>2. entry' = entry \/ pc[p] \notin {"idle", "waiting"}
    BY OwnOnly DEF FleetInv
  <2>3. pc[p] \in {"idle", "waiting", "done"}
    BY <2>1 DEF FleetInv, FleetTypes
  <2>4. pc[p] # "done"
    BY
       DEF Steps, Fleet!Register, Fleet!Unregister, Fleet!Enter, Fleet!Recheck, Fleet!Start,
           Fleet!Stage, Fleet!Validate, Fleet!Publish, Fleet!Compare, Fleet!Discard,
           Fleet!Undo, Fleet!Clean, Fleet!Final, Fleet!Verify, Fleet!Rollback, Fleet!Remove,
           Fleet!RenameOut, Fleet!CompareOut, Fleet!Gone, Fleet!Kill
  <2>5. entry' = entry
    BY <2>2, <2>3, <2>4
  <2> QED
    BY <1>1, <2>5
       DEF FleetInv, Quiet, Undisturbed, Fleet!Target, Fleet!Staged, Fleet!Existed,
           Fleet!Text
<1> QED
  BY <1>2, <1>3

LEMMA InitFleetInv == Fleet!Init => FleetInv
<1> SUFFICES ASSUME Fleet!Init PROVE FleetInv
  OBVIOUS
<1> USE FleetAssumption DEF Fleet!FleetAssumption
<1>0. PICK a \in Aliases, n \in Name :
        entry = [x \in Aliases \cup Proc |-> IF x = a THEN Fleet!File(n, None, 0) ELSE None]
  BY DEF Fleet!Init
<1>1. Fleet!File(n, None, 0) \in Fleet!Files /\ Fleet!File(n, None, 0).text = n /\ Fleet!File(n, None, 0) # None
  BY DEF Fleet!File, Fleet!Files
<1>2. FleetTypes
  BY <1>0, <1>1 DEF Fleet!Init, FleetTypes
<1>3. LockHeld
  BY DEF Fleet!Init, LockHeld, Locked
<1>4. Private
  BY <1>0 DEF Fleet!Init, Private, Bare, Kept
<1>5. Fleet!Loads(entry)
  BY <1>0, <1>1 DEF Fleet!Init, Fleet!Loads, Fleet!Canonical, Fleet!Text
<1>6. Quiet
  BY <1>5 DEF Fleet!Init, Quiet, Undisturbed
<1> QED
  BY <1>2, <1>3, <1>4, <1>6 DEF FleetInv

LEMMA FleetStep ==
  ASSUME FleetInv, [Fleet!Next]_(Fleet!vars)
  PROVE  FleetInv'
<1>1. CASE UNCHANGED Fleet!vars
  <2> USE <1>1 DEF Fleet!vars, FleetInv
  <2>1. FleetTypes'
    BY DEF FleetTypes
  <2>2. LockHeld'
    BY DEF LockHeld
  <2>3. Private'
    BY DEF Private, Bare, Kept, Fleet!Existed
  <2>4. Quiet'
    BY
       DEF Quiet, Undisturbed, Fleet!Target, Fleet!Staged, Fleet!Existed, Fleet!Loads,
           Fleet!Text
  <2> QED
    BY <2>1, <2>2, <2>3, <2>4
<1>2. ASSUME NEW p \in Proc, Steps(p)
      PROVE  FleetInv'
  <2> USE DEF FleetInv
  <2>1. FleetTypes'
    <3>1. \A q \in Proc \ {p} : pc'[q] # "idle" =>
            /\ op'[q].kind \in Kinds /\ op'[q].alias \in Aliases
            /\ op'[q].want \in Name \cup {None, "edited"}
            /\ op'[q].prev \in Fleet!Files \cup {None}
            /\ op'[q].kind = "register" => op'[q].want \in Name
            /\ op'[q].kind = "unregister" => op'[q].want = None
            /\ pc'[q] = "writing" => op'[q].want # None
      BY <1>2, OwnOnly DEF FleetTypes
    <3>2. /\ entry' \in [Aliases \cup Proc -> Fleet!Files \cup {None}]
          /\ primary' = primary /\ saves' = saves /\ DOMAIN op' = Proc
      BY <1>2, OwnOnly
    <3>3. primary' \subseteq Name /\ saves' \in 0..MaxSaves
      BY <3>2 DEF FleetTypes
    <3> QED
      BY <1>2, <3>1, <3>2, <3>3, OpTyped DEF FleetTypes
  <2>2. LockHeld'
    BY <1>2, OpTyped, OwnOnly DEF LockHeld
  <2>3. Private'
    <3>1. ASSUME NEW q \in Proc \ {p} PROVE Bare(q)' /\ Kept(q)'
      BY <1>2, OwnOnly DEF Private, Bare, Kept, Fleet!Existed
    <3> QED
      BY <1>2, <3>1, PrivateStep DEF Private
  <2>4. Quiet'
    <3> SUFFICES ASSUME saves' = 0
                 PROVE  primary' = {} /\ Fleet!Loads(entry)' /\ \A q \in Proc : Undisturbed(q)'
      BY DEF Quiet
    <3>1. saves = 0 /\ primary' = primary
      BY <1>2, OwnOnly
    <3>2. Fleet!Loads(entry')
      BY <1>2, <3>1, QuietLoads
    <3>3. primary' = {} /\ Fleet!Loads(entry)'
      BY <3>1, <3>2 DEF Quiet, Fleet!Loads
    <3>4. \A q \in Proc : Undisturbed(q)'
      BY <1>2, <3>1, QuietOwn, QuietOthers
    <3> QED
      BY <3>3, <3>4
  <2> QED
    BY <2>1, <2>2, <2>3, <2>4
<1>3. CASE UserSteps
  <2> USE DEF FleetInv
  <2>0. /\ UNCHANGED <<lock, pc, op>>
        /\ entry' \in [Aliases \cup Proc -> Fleet!Files \cup {None}]
        /\ \A p \in Proc : entry'[p] = entry[p]
        /\ primary' \subseteq Name /\ saves' = saves + 1 /\ saves' \in 0..MaxSaves
    BY <1>3, UserEffect
  <2>1. FleetTypes'
    BY <2>0 DEF FleetTypes
  <2>2. LockHeld'
    BY <2>0 DEF LockHeld
  <2>3. Private'
    BY <2>0 DEF Private, Bare, Kept, Fleet!Existed
  <2>4. Quiet'
    BY <2>0, FleetAssumption DEF Quiet, FleetTypes, Fleet!FleetAssumption
  <2> QED
    BY <2>1, <2>2, <2>3, <2>4
<1> QED
  BY <1>1, <1>2, <1>3 DEF Fleet!Next, Steps, UserSteps

LEMMA LooksStep ==
  ASSUME FleetInv, [Fleet!Next]_(Fleet!vars)
  PROVE  [Fleet!Looks]_(Fleet!vars)
<1> SUFFICES ASSUME NEW x \in Aliases \cup Proc, entry[x] # None, saves' = saves,
                    \A y \in Aliases \cup Proc : entry'[y] # entry[x]
             PROVE  \E p \in Proc : lock = p /\ (entry[x] = op[p].prev \/ entry[x].by = p)
  BY DEF Fleet!Looks, FleetInv, FleetTypes
<1>1. CASE UNCHANGED Fleet!vars
  BY <1>1 DEF Fleet!vars
<1>2. CASE UserSteps
  BY <1>2, UserEffect, FleetAssumption DEF FleetInv, FleetTypes, Fleet!FleetAssumption
<1>3. ASSUME NEW p \in Proc, Steps(p)
      PROVE  lock = p /\ (entry[x] = op[p].prev \/ entry[x].by = p)
  <2>0. pc[p] \in Locked => lock = p
    BY DEF FleetInv, LockHeld
  <2> HIDE <1>3
  <2> USE FleetAssumption
     DEF Fleet!FleetAssumption, FleetInv, FleetTypes, Private, Bare, Kept, Locked, Fleet!Go,
         Fleet!Stay, Fleet!Continue, Fleet!End, Fleet!Start
  <2>1. CASE Fleet!Register(p)
    BY <2>1, <2>0 DEF Fleet!Register
  <2>2. CASE Fleet!Unregister(p)
    BY <2>2, <2>0 DEF Fleet!Unregister
  <2>3. CASE Fleet!Enter(p)
    BY <2>3, <2>0 DEF Fleet!Enter
  <2>4. CASE Fleet!Recheck(p)
    BY <2>4, <2>0 DEF Fleet!Recheck
  <2>5. CASE Fleet!Stage(p)
    BY <2>5, <2>0 DEF Fleet!Stage
  <2>6. CASE Fleet!Validate(p)
    BY <2>6, <2>0 DEF Fleet!Validate
  <2>7. CASE Fleet!Publish(p)
    BY <2>7, <2>0, SwapEffect DEF Fleet!Publish
  <2>8. CASE Fleet!Compare(p)
    BY <2>8, <2>0 DEF Fleet!Compare
  <2>9. CASE Fleet!Discard(p)
    BY <2>9, <2>0 DEF Fleet!Discard
  <2>10. CASE Fleet!Undo(p)
    BY <2>10, <2>0, SwapEffect DEF Fleet!Undo
  <2>11. CASE Fleet!Clean(p)
    BY <2>11, <2>0 DEF Fleet!Clean, Fleet!OwnStage
  <2>12. CASE Fleet!Final(p)
    BY <2>12, <2>0 DEF Fleet!Final
  <2>13. CASE Fleet!Verify(p)
    BY <2>13, <2>0 DEF Fleet!Verify
  <2>14. CASE Fleet!Rollback(p)
    BY <2>14, <2>0 DEF Fleet!Rollback
  <2>15. CASE Fleet!Remove(p)
    BY <2>15, <2>0 DEF Fleet!Remove
  <2>16. CASE Fleet!RenameOut(p)
    BY <2>16, <2>0, SwapEffect DEF Fleet!RenameOut
  <2>17. CASE Fleet!CompareOut(p)
    BY <2>17, <2>0, SwapEffect DEF Fleet!CompareOut, Fleet!Moved
  <2>18. CASE Fleet!Gone(p)
    BY <2>18, <2>0 DEF Fleet!Gone
  <2>19. CASE Fleet!Kill(p)
    BY <2>19, <2>0 DEF Fleet!Kill
  <2> QED
    BY <1>3, <2>1, <2>2, <2>3, <2>4, <2>5, <2>6, <2>7, <2>8, <2>9, <2>10, <2>11, <2>12,
       <2>13, <2>14, <2>15, <2>16, <2>17, <2>18, <2>19 DEF Steps
<1> QED
  BY <1>1, <1>2, <1>3 DEF Fleet!Next, Steps, UserSteps

-----------------------------------------------------------------------------
(***************************************************************************)
(* The specification of both.                                              *)
(***************************************************************************)

UndisturbedInv == part = "undisturbed" => HomeInv
RemotesInv == part = "remotes" => FleetInv

LEMMA UndisturbedInvariance == AtHome => (DirectoriesSpec => []UndisturbedInv)
<1> SUFFICES ASSUME AtHome PROVE DirectoriesSpec => []UndisturbedInv
  OBVIOUS
<1>1. DirectoriesInit => UndisturbedInv
  BY InitHome DEF DirectoriesInit, UndisturbedInv
<1>2. UndisturbedInv /\ [DirectoriesNext]_<<part, vars, remotes>> => UndisturbedInv'
  <2> SUFFICES ASSUME UndisturbedInv, [DirectoriesNext]_<<part, vars, remotes>>,
                      part' = "undisturbed"
               PROVE  HomeInv'
    BY DEF UndisturbedInv
  <2>1. part = "undisturbed" /\ [Next]_vars
    BY DEF DirectoriesNext
  <2> QED
    BY <2>1, HomeStep DEF UndisturbedInv
<1> QED
  BY <1>1, <1>2, PTL DEF DirectoriesSpec

LEMMA RemotesInvariance == DirectoriesSpec => []RemotesInv
<1>1. DirectoriesInit => RemotesInv
  BY InitFleetInv DEF DirectoriesInit, RemotesInv
<1>2. RemotesInv /\ [DirectoriesNext]_<<part, vars, remotes>> => RemotesInv'
  <2> SUFFICES ASSUME RemotesInv, [DirectoriesNext]_<<part, vars, remotes>>,
                      part' = "remotes"
               PROVE  FleetInv'
    BY DEF RemotesInv
  <2>1. part = "remotes" /\ [Fleet!Next]_(Fleet!vars)
    BY DEF DirectoriesNext, remotes, Fleet!vars
  <2> QED
    BY <2>1, FleetStep DEF RemotesInv
<1> QED
  BY <1>1, <1>2, PTL DEF DirectoriesSpec

\* The catalog always says where a trial's directory is, whatever dies or fails on
\* the way (transitions.go, removal.go): with any number of processes, trials and
\* crashes, as long as trials stay among the trials and nobody moves directories
\* behind dev's back.
THEOREM AlwaysTrackedTheorem == AtHome => (DirectoriesSpec => []AlwaysTracked)
<1>1. UndisturbedInv => AlwaysTracked
  BY HomeTracked DEF AlwaysTracked, UndisturbedInv
<1> QED
  BY <1>1, UndisturbedInvariance, PTL

\* While the user changes nothing, whoever loads the merged list of remotes at any
\* moment finds it valid (validateManagedWriteMerge under the lock).
THEOREM AlwaysLoadsTheorem == DirectoriesSpec => []AlwaysLoads
<1>1. RemotesInv => AlwaysLoads
  BY DEF RemotesInv, FleetInv, Quiet, Fleet!AlwaysLoads, AlwaysLoads
<1> QED
  BY <1>1, RemotesInvariance, PTL

\* A fragment disappears by dev's hand only if the command that holds the lock has
\* looked at this very file or created it, whatever the user does in between
\* (replace, removeIfSame).
THEOREM OnlyLookedTheorem == DirectoriesSpec => OnlyLooked
<1>1. RemotesInv /\ [DirectoriesNext]_<<part, vars, remotes>> =>
        [part = "remotes" => Fleet!Looks]_remotes
  <2> SUFFICES ASSUME RemotesInv, [DirectoriesNext]_<<part, vars, remotes>>,
                      part = "remotes"
               PROVE  [Fleet!Looks]_remotes
    OBVIOUS
  <2>1. [Fleet!Next]_(Fleet!vars)
    BY DEF DirectoriesNext, remotes, Fleet!vars
  <2>2. [Fleet!Looks]_(Fleet!vars)
    BY <2>1, LooksStep DEF RemotesInv
  <2> QED
    BY <2>2 DEF remotes, Fleet!vars
<1> QED
  BY <1>1, RemotesInvariance, PTL DEF DirectoriesSpec, OnlyLooked
=============================================================================
