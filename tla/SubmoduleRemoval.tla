-------------------------- MODULE SubmoduleRemoval --------------------------
(***************************************************************************)
(* Removing a linked worktree that holds initialized submodules            *)
(* (internal/submodule).  Apply moves every child checkout, deepest first, *)
(* and then their common git storage into a quarantine beside the worktree *)
(* and records each move before it makes it; only then is the worktree     *)
(* removed and the quarantine disposed of.  A failure takes the moves back *)
(* in the opposite order.  Recover does the same from the journal of a run *)
(* that was killed, after adding a removed worktree again.                 *)
(*                                                                         *)
(* Both run under the repository's lock, but Recover reads the journal     *)
(* before it takes it.  The operator may put a file where a child was, and *)
(* take it away.  That children are proved against their remotes before    *)
(* anything moves, and identities of directories, are left out: what raw   *)
(* git does to a child meanwhile is outside the program's promise.         *)
(***************************************************************************)
EXTENDS Integers, FiniteSets

CONSTANTS
    N,          \* initialized children, a parent before its own children
    Nested,     \* child i + 1 lies inside child i
    MaxRuns,    \* bound: removals attempted
    MaxFaults,  \* bound: failing steps
    MaxCrashes, \* bound: processes killed
    MaxPuts,    \* bound: files put where a child was
    Overlaps,   \* a recovery may be started while a removal is running
    None

ASSUME BoundsAssumption ==
    /\ N \in Nat \ {0} /\ Nested \subseteq 1..(N - 1)
    /\ {MaxRuns, MaxFaults, MaxCrashes, MaxPuts} \subseteq Nat
    /\ Overlaps \in BOOLEAN
ASSUME NoneAssumption == None \notin [down : 0..N, removed : BOOLEAN, run : Nat]

Child == 1..N
Item == 0..N                \* 0: the git storage all children share
Outside(i) == IF i - 1 \in Nested THEN i - 1 ELSE 0     \* 0: the worktree itself

VARIABLES
    at,         \* where each item is, and whether it is whole
    hole,       \* what stands at the original path of an item that left it
    outer,      \* the worktree is there
    area,       \* the quarantine that exists, by the run that made it, or 0
    journal,    \* the journal in it
    pc, k,      \* the step of the lock's holder and the item it works on
    memory,     \* the first item of the holder's own record of moves
    read,       \* the journal a recovery has read
    runs, faults, crashes, puts
holder == <<pc, k, memory>>
bounds == <<runs, faults, crashes, puts>>
vars == <<at, hole, outer, area, journal, holder, read, bounds>>

\* Moves are recorded from item N down to item `down`.
Journal == [down : Item, removed : BOOLEAN, run : Nat]
Applying == {"record", "rename", "fill", "check", "remove", "receipt", "dispose"}
Steps == {"idle", "undo", "revive", "restore"} \cup Applying

Init ==
    /\ at = [i \in Item |-> "home"] /\ hole = [i \in Item |-> "none"]
    /\ outer = TRUE /\ area = 0 /\ journal = None
    /\ pc = "idle" /\ k = 0 /\ memory = None /\ read = None
    /\ runs = 0 /\ faults = 0 /\ crashes = 0 /\ puts = 0

-----------------------------------------------------------------------------
Go(step, i) == pc' = step /\ k' = i /\ UNCHANGED memory
Leave == pc' = "idle" /\ k' = 0 /\ memory' = None
Fault == faults < MaxFaults /\ faults' = faults + 1 /\ UNCHANGED <<runs, crashes, puts>>

\* The directory an item came from is there: its own, or an empty one in its place.
Inside(i) == outer /\ (i = 0 \/ Outside(i) = 0 \/ at[Outside(i)] \in {"home", "halved"})
Reachable(i) == Inside(i) \/ (outer /\ hole[Outside(i)] = "empty")
Staged(i) == at[i] \in {"area", "part"}
Recorded(down) == [down |-> down, removed |-> FALSE, run |-> area]

(* Apply.                                                                  *)
Begin ==
    /\ pc = "idle" /\ runs < MaxRuns /\ runs' = runs + 1
    /\ outer /\ \A i \in Item : at[i] = "home"
    /\ Overlaps \/ read = None
    /\ area' = runs + 1 /\ Go("record", N)
    /\ UNCHANGED <<at, hole, outer, journal, read, faults, crashes, puts>>

\* Seeded fault: the journal is written before the move is added to it.
RecordLate ==
    /\ pc = "record"
    /\ memory' = Recorded(k) /\ journal' = IF memory = None THEN memory' ELSE memory
    /\ pc' = "rename"
    /\ UNCHANGED <<at, hole, outer, area, k, read, bounds>>
\* The record is in memory first; a failed write may have replaced the file.
Record ==
    /\ pc = "record"
    /\ memory' = Recorded(k)
    /\ \/ journal' = memory' /\ pc' = "rename" /\ UNCHANGED <<k, bounds>>
       \/ Fault /\ journal' \in {journal, memory'} /\ pc' = "undo" /\ UNCHANGED k
    /\ UNCHANGED <<at, hole, outer, area, read>>

Rename ==
    /\ pc = "rename"
    /\ at' = [at EXCEPT ![k] = "area"]
    /\ IF k = 0 THEN Go("check", 0) ELSE Go("fill", k)
    /\ UNCHANGED <<hole, outer, area, journal, read, bounds>>

\* An empty directory keeps the child's place in the worktree.
Fill ==
    /\ pc = "fill"
    /\ hole' = [hole EXCEPT ![k] = "empty"]
    /\ Go("record", k - 1)
    /\ UNCHANGED <<at, outer, area, journal, read, bounds>>

Emptied == \A i \in Child : hole[i] # "used"
Check ==
    /\ pc = "check" /\ Emptied
    /\ Go("remove", 0)
    /\ UNCHANGED <<at, hole, outer, area, journal, read, bounds>>

\* Git refuses a worktree with untracked files or with submodules in it; it may
\* also be interrupted after its work.
RemoveOuter ==
    /\ pc = "remove" /\ Emptied /\ \A i \in Item : at[i] # "home"
    /\ outer' = FALSE
    /\ \/ Go("receipt", 0) /\ UNCHANGED bounds
       \/ Fault /\ Go("undo", memory.down)
    /\ UNCHANGED <<at, hole, area, journal, read>>

Receipt ==
    /\ pc = "receipt"
    /\ \/ journal' = [journal EXCEPT !.removed = TRUE] /\ Go("dispose", 0) /\ UNCHANGED bounds
       \/ Fault /\ journal' \in {journal, [journal EXCEPT !.removed = TRUE]} /\ Leave
    /\ UNCHANGED <<at, hole, outer, area, read>>

\* The quarantine goes entry by entry in no particular order.
Dispose ==
    /\ pc = "dispose"
    /\ \/ \E i \in Item : /\ Staged(i)
                          /\ at' = [at EXCEPT ![i] = IF @ = "area" THEN "part" ELSE "gone"]
                          /\ UNCHANGED <<area, journal, holder>>
       \/ /\ journal # None /\ journal' = None
          /\ UNCHANGED <<at, area, holder>>
       \/ /\ journal = None /\ \A i \in Item : ~Staged(i)
          /\ area' = 0 /\ Leave /\ UNCHANGED <<at, journal>>
    /\ UNCHANGED <<hole, outer, read, bounds>>

\* Any other failing step starts the rollback; a failed disposal just ends.
Fail ==
    /\ pc \in Applying \ {"record", "receipt"} /\ Fault
    /\ IF pc = "dispose" THEN Leave ELSE Go("undo", memory.down)
    /\ UNCHANGED <<at, hole, outer, area, journal, read>>

Refused ==
    /\ pc \in {"check", "remove"} /\ ~Emptied
    /\ Go("undo", memory.down)
    /\ UNCHANGED <<at, hole, outer, area, journal, read, bounds>>

-----------------------------------------------------------------------------
(* Taking the moves back, from the last one to the first.                  *)
\* Seeded fault: a rollback passes over an item whose path is in use.
PassedOver(i) == ~Staged(i) \/ hole[i] = "used"
\* A move that was recorded and not made.
NotMoved(i) == ~Staged(i)
Free(i) == hole[i] # "used"

Skip ==
    /\ pc \in {"undo", "restore"} /\ k \in Item /\ NotMoved(k)
    /\ Go(pc, k + 1)
    /\ UNCHANGED <<at, hole, outer, area, journal, read, bounds>>

\* A recovery looks before every move whether the quarantine is still its own.
Mine == pc = "restore" => area = read.run

\* The place holder is removed, then the item put back; in between it may fail.
PutBack ==
    /\ pc \in {"undo", "restore"} /\ k \in Item /\ ~NotMoved(k)
    /\ Mine /\ Reachable(k) /\ Free(k)
    /\ hole' = [hole EXCEPT ![k] = "none"]
    /\ \/ /\ at' = [at EXCEPT ![k] = IF @ = "part" THEN "halved" ELSE "home"]
          /\ Go(pc, k + 1) /\ UNCHANGED <<read, bounds>>
       \/ /\ Fault /\ Leave /\ read' = IF pc = "restore" THEN None ELSE read
          /\ UNCHANGED at
    /\ UNCHANGED <<outer, area, journal>>

\* The original path is in use or out of reach: the quarantine is kept.
Keep ==
    /\ pc \in {"undo", "restore"}
    /\ ~(k \in Item /\ NotMoved(k))
    /\ ~(Mine /\ (k \in Item => Reachable(k) /\ Free(k)))
    /\ Leave /\ read' = IF pc = "restore" THEN None ELSE read
    /\ UNCHANGED <<at, hole, outer, area, journal, bounds>>

\* A child in its place without its git storage is no checkout.
Readable == at[0] = "home" \/ \A i \in Child : at[i] \notin {"home", "halved"}

Restored ==
    /\ pc \in {"undo", "restore"} /\ k = N + 1 /\ Mine
    /\ read' = IF pc = "restore" THEN None ELSE read
    /\ Leave
    /\ IF pc = "restore" /\ ~Readable
       THEN UNCHANGED <<at, area, journal>>
       ELSE /\ at' = [i \in Item |-> IF Staged(i) THEN "gone" ELSE at[i]]
            /\ area' = 0 /\ journal' = None
    /\ UNCHANGED <<hole, outer, bounds>>

(* Recover.                                                                *)
Read ==
    /\ read = None /\ journal # None
    /\ Overlaps \/ pc = "idle"
    /\ read' = journal
    /\ UNCHANGED <<at, hole, outer, area, journal, holder, bounds>>

\* Seeded fault: recovery refuses once the worktree has been removed.
RecoverStanding ==
    /\ pc = "idle" /\ read # None /\ outer
    /\ Go("revive", 0)
    /\ UNCHANGED <<at, hole, outer, area, journal, read, bounds>>
RecoverLock ==
    /\ pc = "idle" /\ read # None
    /\ Go("revive", 0)
    /\ UNCHANGED <<at, hole, outer, area, journal, read, bounds>>

\* A removed worktree is added again, with an empty directory for each child.
Revived == [i \in Item |-> IF i # 0 /\ Outside(i) = 0 THEN "empty" ELSE hole[i]]
Revive ==
    /\ pc = "revive"
    /\ \/ /\ outer' = TRUE /\ hole' = IF outer THEN hole ELSE Revived
          /\ Go("restore", read.down) /\ UNCHANGED <<read, bounds>>
       \/ /\ Fault /\ Leave /\ read' = None /\ UNCHANGED <<outer, hole>>
    /\ UNCHANGED <<at, area, journal>>

-----------------------------------------------------------------------------
(* The operator, and the end of a process.                                 *)
Put(i) ==
    /\ puts < MaxPuts /\ puts' = puts + 1
    /\ hole[i] = "empty" /\ ~(at[i] \in {"home", "halved"}) /\ Inside(i)
    /\ hole' = [hole EXCEPT ![i] = "used"]
    /\ UNCHANGED <<at, outer, area, journal, holder, read, runs, faults, crashes>>

Clear(i) ==
    /\ hole[i] = "used"
    /\ hole' = [hole EXCEPT ![i] = "empty"]
    /\ UNCHANGED <<at, outer, area, journal, holder, read, bounds>>

Crash ==
    /\ pc # "idle" /\ crashes < MaxCrashes /\ crashes' = crashes + 1
    /\ Leave /\ read' = IF pc \in {"revive", "restore"} THEN None ELSE read
    /\ UNCHANGED <<at, hole, outer, area, journal, runs, faults, puts>>

Removal == Record \/ Rename \/ Fill \/ Check \/ RemoveOuter \/ Receipt \/ Dispose
           \/ Fail \/ Refused
Return == Skip \/ PutBack \/ Keep \/ Restored
Recovery == Read \/ RecoverLock \/ Revive
Next ==
    \/ Begin \/ Removal \/ Return \/ Recovery
    \/ \E i \in Child : Put(i) \/ Clear(i)
    \/ Crash

Spec == Init /\ [][Next]_vars

\* The process with the lock goes on; an operator who finds a journal clears
\* the paths in use and runs the recovery, again if it fails.
Fairness == /\ WF_vars(Removal) /\ WF_vars(Return)
            /\ WF_vars(Recovery) /\ \A i \in Child : WF_vars(Clear(i))
FairSpec == Spec /\ Fairness

-----------------------------------------------------------------------------
(* Where items can be and what processes hold (removal.go, moveRecord and  *)
(* removalJournal).                                                        *)
TypeOK ==
    /\ at \in [Item -> {"home", "area", "part", "halved", "gone"}]
    /\ hole \in [Item -> {"none", "empty", "used"}]
    /\ outer \in BOOLEAN /\ area \in 0..MaxRuns
    /\ {journal, memory, read} \subseteq Journal \cup {None}
    /\ pc \in Steps /\ k \in 0..(N + 1)

(* Whatever is in quarantine can be brought back: the journal beside it    *)
(* names it, unless the worktree has been removed and the quarantine is    *)
(* being disposed of (Apply, "a receipt is synced before every rename").   *)
Named(i) == journal # None /\ journal.run = area /\ journal.down <= i
Accounted == \A i \in Item : Staged(i) => area # 0 /\ (Named(i) \/ (~outer /\ journal = None))

(* Only a completed removal deletes what is in quarantine: neither a       *)
(* rollback nor a recovery does (Recover: a previous proof never           *)
(* authorizes deletion during recovery).                                   *)
QuarantineKept ==
    [][\A i \in Item : Staged(i) /\ at'[i] # at[i] /\ at'[i] \in {"part", "gone"} =>
           pc = "dispose" /\ journal' \in {journal, None} /\ ~outer]_vars

(* An interrupted removal does not stay half done: everything comes home,  *)
(* or the worktree stays removed (Recover).                                *)
Settled == \/ \A i \in Item : ~Staged(i)
           \/ ~outer /\ journal = None
Settles == []<>Settled

(* A recovery that ends well has brought every child back whole.  Not after *)
(* a removal killed while it disposed of the quarantine.                     *)
BroughtBack ==
    [][pc = "restore" /\ area # 0 /\ area' = 0 => \A i \in Item : at[i] = "home"]_vars
=============================================================================
