----------------------------- MODULE LocalFiles -----------------------------
(***************************************************************************)
(* Applying local files to a checkout on another machine                   *)
(* (internal/localfiles): one request, planned before, is delivered any    *)
(* number of times, by a retry of the transport or of the operator.  The   *)
(* target keeps a journal and copies of what it replaces, publishes file   *)
(* by file, and takes everything back when a step fails, or at the next    *)
(* delivery when it died.  Deliveries exclude one another: they run as a   *)
(* mutation of the branch's lease (module Lease).                          *)
(*                                                                         *)
(* The operator edits the files at any time, also between the delivery's   *)
(* last look at a file and the rename or the removal that follows: those   *)
(* go by name.  Only the creation of a file is one step, which refuses an  *)
(* existing name.  A look at all files is one step too: no file is written *)
(* on its word alone.                                                      *)
(* Eligibility in git, modes and directories on the way are among the      *)
(* refusals.                                                               *)
(***************************************************************************)
EXTENDS Naturals, FiniteSets

CONSTANTS
    N,              \* files of the request, in the order of their paths
    MaxDeliveries,  \* bound: deliveries of the request
    MaxEdits,       \* bound: edits of the operator
    None

ASSUME BoundsAssumption == N \in Nat /\ MaxDeliveries \in Nat /\ MaxEdits \in Nat

VARIABLES
    file,       \* what each path holds
    plan,       \* what the plan says to do with it
    journal,    \* the request's journal on disk, or None
    saved,      \* replaced files whose old bytes are in the rollback store
    value,      \* the journal in the memory of the running delivery
    pc,         \* where that delivery is
    at,         \* the file it works on
    look,       \* what it holds of that file: nothing, what it has seen, or the
                \* state it took from the directory afterwards to replace it
    moved,      \* the operator has saved that file since it was seen
    ours,       \* paths the request has written since it was last rolled back
    done,       \* a delivery has answered that all is applied
    deliveries, edits

sight == <<look, moved>>
memory == <<value, pc, at, sight>>
bounds == <<deliveries, edits>>
vars == <<file, plan, journal, saved, memory, ours, done, bounds>>

Paths == 1..N
Content == {"absent", "old", "new", "mine"}     \* mine: anything else
Action == {"create", "replace", "current"}
Phase == {"staged", "applying", "completed", "rolled-back", "reconcile"}
Journal == [phase : Phase, published : SUBSET Paths]
ASSUME NoneAssumption == None \notin Journal

\* What the plan saw where it decided on an action.
Before(action) == CASE action = "create" -> "absent"
                    [] action = "replace" -> "old"
                    [] action = "current" -> "new"
Planned(k) == file[k] = Before(plan[k])
Touched == {k \in Paths : plan[k] # "current"}
Replaced == {k \in Paths : plan[k] = "replace"}

Init ==
    /\ plan \in [Paths -> Action]
    /\ file = [k \in Paths |-> Before(plan[k])]
    /\ journal = None /\ saved = {}
    /\ value = None /\ pc = "idle" /\ at = 0
    /\ look = "none" /\ moved = FALSE
    /\ ours = {} /\ done = FALSE
    /\ deliveries = 0 /\ edits = 0

-----------------------------------------------------------------------------
\* A delivery goes on with nothing in its hands, or keeps what it has seen.
GoAt(step, k) == pc' = step /\ at' = k /\ look' = "none" /\ moved' = FALSE
Go(step) == GoAt(step, at)
Leave == GoAt("idle", 0) /\ value' = None
See(step) == pc' = step /\ look' = "seen" /\ moved' = FALSE /\ UNCHANGED at

\* writeJournal replaces the file; its error may come after the rename.
Written(v) == journal' = v
NotWritten(v) == journal' \in {journal, v}

\* failAndRollback, from any failed step of a delivery that has published.
Fail == /\ value' = [value EXCEPT !.phase = "reconcile"]
        /\ NotWritten([value EXCEPT !.phase = "reconcile"])
        /\ GoAt("undo", N)

Deliver ==
    /\ pc = "idle" /\ deliveries < MaxDeliveries
    /\ deliveries' = deliveries + 1
    /\ GoAt("load", 0)
    /\ UNCHANGED <<file, plan, journal, saved, value, ours, done, edits>>

Load ==
    /\ pc = "load"
    /\ IF journal = None \/ journal.phase = "staged"
       THEN Go("preflight") /\ UNCHANGED <<value, saved>>
       ELSE CASE journal.phase = "completed" -> Go("reverify") /\ UNCHANGED <<value, saved>>
              [] journal.phase = "rolled-back" ->
                   \/ saved' = {} /\ Go("preflight") /\ UNCHANGED value
                   \/ saved' \in SUBSET saved /\ Leave           \* cleanup failed
              [] journal.phase \in {"applying", "reconcile"} ->
                   GoAt("recover", N) /\ value' = journal /\ UNCHANGED saved
    /\ UNCHANGED <<file, plan, journal, ours, done, bounds>>

\* Seeded fault: a completed request puts back what is missing.
VerifyOrRepair ==
    /\ pc = "reverify"
    /\ IF \A k \in Paths : file[k] = "new"
       THEN done' = TRUE /\ Leave
       ELSE GoAt("publish", 1) /\ value' = journal /\ UNCHANGED done
    /\ UNCHANGED <<file, plan, journal, saved, ours, bounds>>
VerifyCompleted ==
    /\ pc = "reverify"
    /\ \/ /\ \A k \in Paths : file[k] = "new"
          /\ saved' \in {saved, {}}            \* kept when retained for eviction
          /\ done' = TRUE
       \/ saved' \in SUBSET saved /\ UNCHANGED done
    /\ Leave
    /\ UNCHANGED <<file, plan, journal, ours, bounds>>

\* Every target must still be what the plan saw.
Preflight ==
    /\ pc = "preflight"
    /\ IF \A k \in Paths : Planned(k)
       THEN Go("journal") /\ value' = [phase |-> "staged", published |-> {}]
       ELSE Leave
    /\ UNCHANGED <<file, plan, journal, saved, ours, done, bounds>>

WriteStaged ==
    /\ pc = "journal"
    /\ \/ Written(value) /\ Go("stage") /\ UNCHANGED value
       \/ NotWritten(value) /\ Leave
    /\ UNCHANGED <<file, plan, saved, ours, done, bounds>>

\* Seeded fault: replaced bytes are not copied first.
StageUnsaved ==
    /\ pc = "stage"
    /\ Go("apply") /\ UNCHANGED <<file, plan, journal, saved, value, ours, done, bounds>>
Stage ==
    /\ pc = "stage"
    /\ \/ saved' = Replaced /\ Go("apply") /\ UNCHANGED value
       \/ \E some \in SUBSET Replaced : saved' = saved \cup some /\ Leave
    /\ UNCHANGED <<file, plan, journal, ours, done, bounds>>

MarkApplying ==
    /\ pc = "apply"
    /\ LET v == [value EXCEPT !.phase = "applying"] IN
       \/ Written(v) /\ value' = v /\ GoAt("publish", 1)
       \/ NotWritten(v) /\ Leave
    /\ UNCHANGED <<file, plan, saved, ours, done, bounds>>

\* Nothing is put over a target that is not as planned.  Publication may fail
\* after the file is there, and then nothing in memory says so.
Put(k) == file' = [file EXCEPT ![k] = "new"] /\ ours' = ours \cup {k}
Published == /\ value' = [value EXCEPT !.published = @ \cup {at}]
             /\ Go("published") /\ UNCHANGED journal
NotPut == UNCHANGED <<file, ours>>

\* CreatePrivateNoClobber; what it cannot finish it withdraws.
Create ==
    /\ pc = "publish" /\ at \in Touched /\ plan[at] = "create"
    /\ \/ Planned(at) /\ Put(at) /\ Published
       \/ Planned(at) /\ Put(at) /\ See("withdraw") /\ UNCHANGED <<journal, value>>
       \/ ((Planned(at) /\ Put(at)) \/ NotPut) /\ Fail
    /\ UNCHANGED <<plan, saved, done, bounds>>
Withdraw ==
    /\ pc = "withdraw"
    /\ \/ /\ file[at] # "absent"
          /\ file' = [file EXCEPT ![at] = "absent"] /\ ours' = ours \ {at}
       \/ NotPut
    /\ Fail
    /\ UNCHANGED <<plan, saved, done, bounds>>

\* AtomicReplacePrivate: verifyReplaceTarget, then the rename.
CheckTarget ==
    /\ pc = "publish" /\ look = "none" /\ at \in Touched /\ plan[at] = "replace"
    /\ \/ Planned(at) /\ See("publish") /\ UNCHANGED <<journal, value>>
       \/ Fail
    /\ UNCHANGED <<file, plan, saved, ours, done, bounds>>
Replace ==
    /\ pc = "publish" /\ look = "seen"
    /\ \/ Put(at) /\ Published
       \/ (Put(at) \/ NotPut) /\ Fail
    /\ UNCHANGED <<plan, saved, done, bounds>>

Onward == IF at < N THEN GoAt("publish", at + 1) ELSE GoAt("verify", 0)
SkipCurrent ==
    /\ pc = "publish" /\ at \notin Touched
    /\ IF at > N THEN GoAt("verify", 0) ELSE Onward
    /\ UNCHANGED <<file, plan, journal, saved, value, ours, done, bounds>>
JournalPublished ==
    /\ pc = "published"
    /\ \/ Written(value) /\ Onward /\ UNCHANGED value
       \/ Fail
    /\ UNCHANGED <<file, plan, saved, ours, done, bounds>>

Verify ==
    /\ pc = "verify"
    /\ IF \A k \in Paths : file[k] = "new"
       THEN Go("complete") /\ UNCHANGED <<journal, value>>
       ELSE Fail
    /\ UNCHANGED <<file, plan, saved, ours, done, bounds>>

Complete ==
    /\ pc = "complete"
    /\ LET v == [value EXCEPT !.phase = "completed"] IN
       \/ Written(v) /\ value' = v /\ Go("clean") 
       \/ /\ value' = [v EXCEPT !.phase = "reconcile"]
          /\ \/ NotWritten(v)
             \/ journal' = [v EXCEPT !.phase = "reconcile"]
          /\ GoAt("undo", N)
    /\ UNCHANGED <<file, plan, saved, ours, done, bounds>>

Clean ==
    /\ pc = "clean"
    /\ \/ saved' = {} /\ done' = TRUE
       \/ saved' \in SUBSET saved /\ UNCHANGED done
    /\ Leave
    /\ UNCHANGED <<file, plan, journal, ours, bounds>>

-----------------------------------------------------------------------------
(* rollback: from the last file to the first, only what is proven ours.    *)

Undoing == pc \in {"undo", "recover"}

\* Nothing to take back, or already taken back.
AsBefore(k) ==
    \/ plan[k] = "current"
    \/ plan[k] = "create" /\ file[k] = "absent"
    \/ plan[k] = "replace" /\ file[k] = "old"
\* Seeded fault: matching bytes are proof enough.
RemovableUnproven(k) == file[k] = "new"
Removable(k) == k \in value.published /\ file[k] = "new"
Restorable(k) ==
    ~AsBefore(k) /\ Removable(k) /\ (plan[k] = "replace" => k \in saved)

LookBack ==
    /\ Undoing /\ look = "none" /\ at \in Paths
    /\ \/ AsBefore(at) /\ GoAt(pc, at - 1)
       \/ Restorable(at) /\ See(pc)
    /\ UNCHANGED <<file, plan, journal, saved, value, ours, done, bounds>>

\* The state AtomicReplace is to find is read anew, and compared with nothing.
Capture ==
    /\ Undoing /\ look = "seen" /\ plan[at] = "replace" /\ file[at] # "absent"
    /\ look' = "taken"
    /\ UNCHANGED <<file, plan, journal, saved, value, pc, at, moved, ours, done, bounds>>

\* The file is removed by its name, or replaced.
TakeBack ==
    /\ \/ look = "seen" /\ plan[at] = "create" /\ file[at] # "absent"
       \/ look = "taken"
    /\ file' = [file EXCEPT ![at] = Before(plan[at])]

UndoFile ==
    /\ Undoing /\ TakeBack
    /\ GoAt(pc, at - 1)
    /\ UNCHANGED <<plan, journal, saved, value, ours, done, bounds>>

\* An unproven or changed target, an unreadable one, a missing copy, or an
\* error after the file was taken back.
UndoRefused ==
    /\ Undoing
    /\ TakeBack \/ UNCHANGED file
    /\ NotWritten([value EXCEPT !.phase = "reconcile"])
    /\ Leave
    /\ UNCHANGED <<plan, saved, ours, done, bounds>>

\* verifyRollback, then the phase that allows a fresh attempt.
RolledBack == [phase |-> "rolled-back",
               published |-> IF pc = "undo" THEN {} ELSE value.published]
FinishUndo ==
    /\ Undoing /\ at = 0
    /\ \A k \in Paths : Planned(k)
    /\ \/ /\ Written(RolledBack)
          /\ value' = RolledBack
          /\ GoAt(IF pc = "undo" THEN "discard" ELSE "load", 0)
       \/ NotWritten(RolledBack) /\ Leave
    /\ ours' = IF journal' = RolledBack THEN {} ELSE ours
    /\ UNCHANGED <<file, plan, saved, done, bounds>>

\* A failed delivery ends here; a recovery went on with its delivery.
Discard ==
    /\ pc = "discard"
    /\ saved' \in SUBSET saved /\ Leave
    /\ UNCHANGED <<file, plan, journal, ours, done, bounds>>

-----------------------------------------------------------------------------
Crash ==
    /\ pc # "idle"
    /\ Leave
    /\ UNCHANGED <<file, plan, journal, saved, ours, done, bounds>>

Edit(k, content) ==
    /\ edits < MaxEdits /\ content # file[k]
    /\ file' = [file EXCEPT ![k] = content]
    /\ edits' = edits + 1
    /\ moved' = (moved \/ (look # "none" /\ k = at))
    /\ UNCHANGED <<plan, journal, saved, value, pc, at, look, ours, done, deliveries>>

Apply == \/ Load \/ VerifyCompleted \/ Preflight \/ WriteStaged \/ Stage \/ MarkApplying
         \/ Create \/ Withdraw \/ CheckTarget \/ Replace \/ SkipCurrent \/ JournalPublished
         \/ Verify \/ Complete \/ Clean
         \/ LookBack \/ Capture \/ UndoFile \/ UndoRefused \/ FinishUndo \/ Discard
Next == \/ Deliver \/ Apply \/ Crash
        \/ \E k \in Paths, content \in Content : Edit(k, content)
Spec == Init /\ [][Next]_vars

-----------------------------------------------------------------------------
Steps == {"idle", "load", "reverify", "preflight", "journal", "stage", "apply",
          "publish", "withdraw", "published", "verify", "complete", "clean", "undo", "recover", "discard"}

\* The journal on disk and in memory, the copies and the position of the
\* delivery are what apply.go and store.go can hold.
TypeOK ==
    /\ file \in [Paths -> Content] /\ plan \in [Paths -> Action]
    /\ journal \in Journal \cup {None} /\ value \in Journal \cup {None}
    /\ saved \subseteq Replaced /\ ours \subseteq Touched
    /\ pc \in Steps /\ at \in 0..(N + 1)
    /\ look \in {"none", "seen", "taken"} /\ moved \in BOOLEAN
    /\ done \in BOOLEAN
    /\ deliveries \in 0..MaxDeliveries /\ edits \in 0..MaxEdits

\* From the first file the request writes until all are taken back, however
\* its deliveries died, the journal says that there is something: a later delivery
\* recovers or verifies before it plans anything new (apply.go:95, :98).
ResidueAccounted ==
    ours # {} => journal # None /\ journal.phase \in {"applying", "reconcile", "completed"}

\* As long as a replaced file may have to come back, its old bytes are in the
\* rollback store (apply.go:166, :379).
OldKept ==
    journal # None /\ journal.phase # "completed" => ours \cap Replaced \subseteq saved

\* A delivery overwrites what the plan saw and takes back what the request
\* wrote.  Bytes of the operator's vanish only if they were saved after its last
\* look at that very file, on which it was about to act (apply.go:344-377,
\* write.go:187).
UserKept ==
    [][\A k \in Paths : file'[k] # file[k] /\ edits' = edits =>
          Planned(k) \/ (k \in ours /\ file[k] = "new") \/ (k = at /\ moved)]_vars

\* What a rollback gives AtomicReplace as the observed state of a file is the
\* state whose bytes it has compared: "obtain observed from a fresh stable
\* read/hash" (safefile/write.go:129).
RestoresWhatItHashed == [][look = "seen" /\ look' = "taken" => ~moved]_vars

\* Once a delivery has answered that the request is applied, a duplicate of it
\* that arrives later changes no file, whatever the operator did with them in
\* between (client.go:27, apply.go:95).
NeverTwice == [][done /\ edits' = edits => UNCHANGED file]_vars
=============================================================================
