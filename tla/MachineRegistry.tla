-------------------------- MODULE MachineRegistry --------------------------
(* The registry of known machines (internal/machineregistry): machines, the  *)
(* records of providers bound to them, and where imported SSH aliases came   *)
(* from, in one SQLite file.                                                 *)
(*                                                                           *)
(* A command plans against a snapshot and applies the plan later: it looks,  *)
(* takes the controller's lock, looks again, and compares once more inside   *)
(* the transaction that replaces the whole content.  The answer to COMMIT    *)
(* may be lost; the same plan may then be applied again.  Restoring a backup *)
(* puts another file in the place at any time.                               *)
(*                                                                           *)
(* validateSnapshot is not a guard here: that no plan needs it is a property *)
(* (Valid), and what it would refuse to write it would also refuse to read.  *)
(* Labels, profiles, limits on sizes and the schema's migration are left out.*)
EXTENDS Integers, Functions

CONSTANTS Machine,      \* identities, made by a random generator
          Key,          \* a provider's record: provider, scope, native id
          Look,        \* what a provider's record looked like
          Alias, Origin,
          Proc, None,
          MaxRevision,  \* bound on committed changes
          MaxFiles      \* bound on files put in the place

Unknown == "unknown"
Active == "active"

RegistryAssumption ==
  /\ {Unknown, Active, None} \cap Machine = {} /\ None \notin Origin
  /\ None \notin [owner : Machine \cup {None}, print : Look]
  /\ MaxRevision \in Nat /\ MaxFiles \in Nat

VARIABLES db,        \* the content of the database
          file,      \* the identity of its file, 0 when there is none
          backup,    \* a copy the operator keeps
          proc       \* what each command holds
vars == <<db, file, backup, proc>>

Binding == [owner : Machine \cup {None}, print : Look]   \* no owner: suppressed
Snapshot == [revision : Nat,
             machine : [Machine -> {Unknown, Active} \cup Machine],
             binding : [Key -> Binding \cup {None}],
             import : [Alias -> Origin \cup {None}]]
Empty == [revision |-> 0, machine |-> [m \in Machine |-> Unknown],
          binding |-> [k \in Key |-> None], import |-> [a \in Alias |-> None]]

Plan == [before : Snapshot, after : Snapshot, file : Nat]
Idle == [pc |-> "idle", plan |-> None]
Process == {Idle} \cup [pc : {"planned", "locked"}, plan : Plan]

Init == /\ db = Empty /\ file = 0 /\ backup = Empty
        /\ proc = [p \in Proc |-> Idle]

-----------------------------------------------------------------------------
(* Transitions: what a request makes of a snapshot.                          *)
IsActive(s, m) == s.machine[m] = Active
Owned(s, k) == s.binding[k] # None /\ s.binding[k].owner # None
Owns(s, m, k) == s.binding[k] # None /\ s.binding[k].owner = m
\* Seeded fault: a record is linked without asking whose it is.
TakenTwice(s, m, k) == TRUE
Free(s, m, k) == Owned(s, k) => Owns(s, m, k)

Linked(s, m, K, f) ==
  [s EXCEPT !.binding = [k \in Key |-> IF k \in K THEN [owner |-> m, print |-> f]
                                                ELSE s.binding[k]]]

Suppressed(s, K) ==
  [s EXCEPT !.binding = [k \in Key |-> IF k \in K THEN [s.binding[k] EXCEPT !.owner = None]
                                                ELSE s.binding[k]]]

Merged(s, m, into) ==
  [s EXCEPT !.machine = [s.machine EXCEPT ![m] = into],
            !.binding = [k \in Key |-> IF Owns(s, m, k) THEN [s.binding[k] EXCEPT !.owner = into]
                                                   ELSE s.binding[k]]]

Adopted(s, m, K, f) == [Linked(s, m, K, f) EXCEPT !.machine[m] = Active]
Imported(s, a, o) == [s EXCEPT !.import[a] = o]

Revised(s, t) == IF s = t THEN t ELSE [t EXCEPT !.revision = @ + 1]

-----------------------------------------------------------------------------
(* Commands.                                                                 *)
Plans(p, t) ==
  /\ proc[p].pc = "idle" /\ db.revision < MaxRevision
  /\ proc' = [proc EXCEPT ![p] =
       [pc |-> "planned", plan |-> [before |-> db, after |-> Revised(db, t), file |-> file]]]
  /\ UNCHANGED <<db, file, backup>>

\* An identity the generator made; a plan under way may hold it already.
PlanAdopt(p, m, K, f) ==
  /\ db.machine[m] = Unknown /\ \A k \in K : Free(db, m, k)
  /\ Plans(p, Adopted(db, m, K, f))

PlanLink(p, m, K, f) ==
  /\ IsActive(db, m) /\ K # {} /\ \A k \in K : Free(db, m, k)
  /\ Plans(p, Linked(db, m, K, f))

PlanUnlink(p, m, K) ==
  /\ IsActive(db, m) /\ K # {}
  /\ \A k \in K : db.binding[k] # None /\ Free(db, m, k)
  /\ Plans(p, Suppressed(db, K))

PlanMerge(p, m, into) ==
  /\ m # into /\ IsActive(db, m) /\ IsActive(db, into)
  /\ Plans(p, Merged(db, m, into))

PlanImport(p, a, o) ==
  /\ db.import[a] \in {None, o}
  /\ Plans(p, Imported(db, a, o))

Fresh(plan) == file = plan.file /\ db = plan.before
LockFree == \A p \in Proc : proc[p].pc # "locked"

\* Before the lock and under it the same look; a plan without effect ends here.
Lock(p) ==
  /\ proc[p].pc = "planned" /\ LockFree
  /\ proc' = [proc EXCEPT ![p] =
       IF Fresh(@.plan) /\ @.plan.before # @.plan.after THEN [@ EXCEPT !.pc = "locked"] ELSE Idle]
  /\ UNCHANGED <<db, file, backup>>

\* Seeded fault: the content is not compared again inside the transaction.
ComparedBefore(plan) == TRUE
\* The comparison inside the transaction, against the file that is now open.
Compared(plan) == db = plan.before

Commit(p) ==
  /\ proc[p].pc = "locked" /\ Compared(proc[p].plan)
  /\ db' = proc[p].plan.after
  /\ file' = IF file = 0 THEN 1 ELSE file
  /\ proc' \in {[proc EXCEPT ![p] = Idle],                  \* answered
                [proc EXCEPT ![p].pc = "planned"]}          \* the answer is lost
  /\ UNCHANGED backup

\* Refused, failed before COMMIT, or killed: the transaction is rolled back,
\* but the file it was for may have been made.
Abandon(p) ==
  /\ proc[p].pc # "idle"
  /\ proc' \in {[proc EXCEPT ![p] = Idle], [proc EXCEPT ![p].pc = "planned"]}
  /\ file' \in {file, IF proc[p].pc = "locked" /\ file = 0 THEN 1 ELSE file}
  /\ UNCHANGED <<db, backup>>

BackUp == /\ file # 0 /\ backup' = db
          /\ UNCHANGED <<db, file, proc>>
Restore == /\ 0 < file /\ file < MaxFiles
           /\ db' = backup /\ file' = file + 1
           /\ UNCHANGED <<backup, proc>>

Next ==
  \/ \E p \in Proc, m \in Machine, K \in SUBSET Key, f \in Look : PlanAdopt(p, m, K, f) \/ PlanLink(p, m, K, f)
  \/ \E p \in Proc, m \in Machine, K \in SUBSET Key : PlanUnlink(p, m, K)
  \/ \E p \in Proc, m, into \in Machine : PlanMerge(p, m, into)
  \/ \E p \in Proc, a \in Alias, o \in Origin : PlanImport(p, a, o)
  \/ \E p \in Proc : Lock(p) \/ Commit(p) \/ Abandon(p)
  \/ BackUp \/ Restore

Spec == Init /\ [][Next]_vars

-----------------------------------------------------------------------------
(* Database, copies and plans are snapshots (Snapshot, planState).           *)
TypeOK == /\ db \in Snapshot /\ backup \in Snapshot /\ file \in Nat
          /\ proc \in [Proc -> Process]

(* What the registry holds it will read again (validateSnapshot): merged     *)
(* identities lead to an active machine without going round in circles, and  *)
(* a binding belongs to an active machine, whatever plans were made side by  *)
(* side, retried, or applied to a restored copy.                             *)
MergedIds(s) == {m \in Machine : s.machine[m] \in Machine}
Leads(s) == \A S \in SUBSET MergedIds(s) : S # {} => \E m \in S : s.machine[m] \notin S
Valid(s) == /\ Leads(s)
            /\ \A m \in MergedIds(s) : s.machine[s.machine[m]] # Unknown
            /\ \A k \in Key : Owned(s, k) => IsActive(s, s.binding[k].owner)
Readable == Valid(db) /\ Valid(backup)

(* A change of the registry is the reviewed one, made to the very content    *)
(* it was reviewed for (Apply): nobody else's change is overwritten.         *)
Reviewed ==
  db' # db /\ (file' = file \/ file = 0) =>
    \E p \in Proc : /\ proc[p].pc # "idle"
                    /\ db = proc[p].plan.before /\ db' = proc[p].plan.after
ReviewedCommit == [][Reviewed]_vars

(* A provider's record leaves its machine only when it is unlinked, or by    *)
(* following its machine into the survivor; an imported alias keeps its      *)
(* origin, and a merged identity its survivor (transition): as long as no    *)
(* backup is restored.                                                       *)
Keeps(s, t) ==
  /\ \A k \in Key : Owned(s, k) /\ Owned(t, k) =>
       \/ Owns(t, s.binding[k].owner, k)
       \/ t.machine[s.binding[k].owner] = t.binding[k].owner
  /\ \A a \in Alias : s.import[a] # None => t.import[a] = s.import[a]
  /\ \A m \in MergedIds(s) : t.machine[m] = s.machine[m]
NeverTaken == [][file' = file => Keeps(db, db')]_vars

-----------------------------------------------------------------------------
=============================================================================
