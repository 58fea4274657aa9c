------------------------------ MODULE HostProofs ------------------------------
(***************************************************************************)
(* Proofs about the files of one host, for all sets of processes, files,   *)
(* repositories and commands.                                              *)
(*                                                                         *)
(* Local files: what the journal on disk says at every position of a       *)
(* delivery (Position, Proven), which files it has published (Ahead), and  *)
(* that what it has seen stays until the operator saves it (Seen).         *)
(*                                                                         *)
(* Locks: what a process holds is the beginning of a stack of its command  *)
(* (Working), and no two hold the same (Apart).  A gate of a stack comes   *)
(* behind the gates around it (Nested), so that a submodule's transaction  *)
(* has the superproject's gate.  The stacks climb in one order of the      *)
(* locks (Rank), but for the gates a removal takes above the task store    *)
(* (Descends): those lie below a gate it has, and whoever could hold one   *)
(* of them would have that gate too.  So whoever waits, waits for one who  *)
(* asks for something higher (Level), which no circle can do.              *)
(*                                                                         *)
(* Configuration files: a transaction plans every file once, and what it   *)
(* has published is there (Transaction); a receipt that knows anything is  *)
(* not written any more (Receipted); so what a restore plans, it plans     *)
(* from a receipt that stays as it is (Restoring), with nothing moving     *)
(* between its two readings (Looking).                                     *)
(***************************************************************************)
EXTENDS MCHost, TLAPS, SequencesExt, FiniteSetTheorems, WellFoundedInduction

-----------------------------------------------------------------------------
(***************************************************************************)
(* Local files.                                                            *)
(***************************************************************************)

\* How far a delivery is, and what it may rely on there.
Fresh == {"preflight", "journal", "stage", "apply", "discard"}
Publishing == {"publish", "withdraw", "published", "verify", "complete"}
Undo == {"undo", "recover"}

\* What the journal on disk says while a delivery is at work.  Nothing is
\* written before the phase "applying" is on disk, the copies are complete by
\* then, and neither goes away before the files are back or the request is
\* completed.
Position ==
    /\ pc \in Fresh => ours = {}
    /\ pc \in {"stage", "apply", "journal"} => value # None
    /\ pc \in {"apply"} \cup Publishing => Replaced \subseteq saved
    /\ pc \in Publishing => /\ journal # None /\ value # None
                            /\ journal.phase = "applying" /\ value.phase = "applying"
    /\ pc \in Undo => /\ journal # None /\ value # None
                      /\ journal.phase \in {"applying", "reconcile", "completed"}
                      /\ ours \cap Replaced \subseteq saved
    /\ pc \in {"reverify", "clean"} => journal # None /\ journal.phase = "completed"
    /\ pc = "clean" => value # None
    /\ done => /\ journal # None /\ journal.phase = "completed"
               /\ pc \in {"idle", "load", "reverify"}

\* What the journals say was published was written by the request.
Proven ==
    /\ pc \in {"journal", "stage", "apply"} => value.published = {}
    /\ pc \in Publishing \cup Undo => value.published \subseteq ours
    /\ journal # None /\ journal.phase \in {"applying", "reconcile"} => journal.published \subseteq ours

\* Files are published in the order of their paths, so that what the delivery
\* works on is not yet among the published ones, and the journal lags behind.
Ahead ==
    /\ pc \in {"publish", "withdraw"} => \A k \in value.published : k < at
    /\ pc = "published" => \A k \in value.published : k <= at
    /\ pc \in Publishing => journal.published \subseteq value.published

\* What a delivery has seen of a file is there until the operator saves it.
Seen ==
    /\ look # "none" => at \in Touched /\ pc \in {"publish", "withdraw"} \cup Undo
    /\ pc = "withdraw" => look = "seen" /\ at \in Touched
    /\ look # "none" /\ ~moved =>
          /\ pc = "publish" => Planned(at)
          /\ pc = "withdraw" => at \in ours /\ file[at] = "new"
          /\ pc \in Undo => at \in value.published /\ file[at] = "new"

Inv == TypeOK /\ ResidueAccounted /\ OldKept /\ Position /\ Proven /\ Ahead /\ Seen

\* The initial states satisfy the invariant.
LEMMA InitInv == Init => Inv
<1> SUFFICES ASSUME Init PROVE Inv
  OBVIOUS
<1>1. file \in [Paths -> Content]
  <2>1. \A action \in Action : Before(action) \in Content
    BY DEF Action, Before, Content
  <2> QED
    BY <2>1 DEF Init
<1>2. TypeOK
  <2>1. done \in BOOLEAN /\ moved \in BOOLEAN /\ pc \in Steps /\ saved \subseteq Replaced /\ ours \subseteq Touched
    BY DEF Init, Steps
  <2> QED
    BY <1>1, <2>1, BoundsAssumption DEF Init, TypeOK
<1> QED
  BY <1>2 DEF Init, Inv, ResidueAccounted, OldKept, Position, Proven, Ahead, Seen,
              Fresh, Publishing, Undo

\* A journal with another phase is a journal.
LEMMA Rephase ==
    ASSUME NEW v \in Journal, NEW phase \in Phase
    PROVE  LET w == [v EXCEPT !.phase = phase]
           IN  w \in Journal /\ w # None /\ w.phase = phase /\ w.published = v.published
<1> DEFINE w == [v EXCEPT !.phase = phase]
<1>1. w \in Journal /\ w.phase = phase /\ w.published = v.published
  BY DEF Journal
<1>2. w # None
  BY <1>1, NoneAssumption
<1> QED
  BY <1>1, <1>2

\* What a delivery holds of a file is always one of three things.
LEMMA SightType ==
    TypeOK /\ [Next]_vars => look' \in {"none", "seen", "taken"} /\ moved' \in BOOLEAN
<1> SUFFICES ASSUME TypeOK, [Next]_vars
             PROVE  look' \in {"none", "seen", "taken"} /\ moved' \in BOOLEAN
  OBVIOUS
<1>0. look \in {"none", "seen", "taken"} /\ moved \in BOOLEAN
  BY DEF TypeOK
<1>1. CASE Deliver \/ VerifyCompleted \/ Preflight \/ WriteStaged \/ Stage \/ MarkApplying
  BY <1>1 DEF Deliver, VerifyCompleted, Preflight, WriteStaged, Stage, MarkApplying, Go, GoAt, Leave
<1>8. CASE Load
  <2>1. GoAt("preflight", at) \/ GoAt("reverify", at) \/ GoAt("recover", N) \/ GoAt("idle", 0)
    BY <1>8 DEF Load, Go, Leave, TypeOK, Journal, Phase
  <2> QED
    BY <2>1 DEF GoAt
<1>2. CASE Create \/ Withdraw \/ CheckTarget \/ Replace
  BY <1>2 DEF Create, Withdraw, CheckTarget, Replace, Published, See, Fail, Go, GoAt
<1>3. CASE SkipCurrent \/ JournalPublished \/ Verify \/ Complete \/ Clean
  BY <1>3 DEF SkipCurrent, Onward, JournalPublished, Verify, Complete, Clean, Fail, Go, GoAt, Leave
<1>4. CASE LookBack \/ UndoFile \/ UndoRefused \/ FinishUndo \/ Discard \/ Crash
  BY <1>4 DEF LookBack, See, UndoFile, UndoRefused, FinishUndo, Discard, Crash, GoAt, Leave
<1>5. CASE Capture
  BY <1>0, <1>5 DEF Capture
<1>6. ASSUME NEW k \in Paths, NEW content \in Content, Edit(k, content)
      PROVE  look' \in {"none", "seen", "taken"} /\ moved' \in BOOLEAN
  <2>1. (moved \/ (look # "none" /\ k = at)) \in BOOLEAN
    BY <1>0
  <2> QED
    BY <1>0, <1>6, <2>1 DEF Edit
<1>7. CASE UNCHANGED vars
  BY <1>0, <1>7 DEF vars, memory, sight
<1> QED
  BY <1>1, <1>2, <1>3, <1>4, <1>5, <1>6, <1>7, <1>8 DEF Next, Apply

\* Every state variable keeps its type.
LEMMA TypeStep == Inv /\ [Next]_vars => TypeOK'
<1> SUFFICES ASSUME Inv, [Next]_vars PROVE TypeOK'
  OBVIOUS
<1> USE BoundsAssumption
<1>a. TypeOK /\ Position
  BY DEF Inv
<1>b. value # None => value \in Journal
  BY <1>a DEF TypeOK
<1>e. plan' = plan
  BY DEF Next, Apply, vars, Deliver, Load, VerifyCompleted, Preflight, WriteStaged, Stage,
         MarkApplying, Create, Withdraw, CheckTarget, Replace, SkipCurrent, JournalPublished, Verify,
         Complete, Clean, LookBack, Capture, UndoFile, UndoRefused, FinishUndo, Discard, Crash, Edit
<1>f. Replaced' = Replaced /\ Touched' = Touched
  BY <1>e DEF Replaced, Touched
<1> USE <1>e, <1>f
<1>h. look' \in {"none", "seen", "taken"} /\ moved' \in BOOLEAN
  BY <1>a, SightType
<1> USE <1>h
<1>0. CASE UNCHANGED vars
  BY <1>a, <1>0 DEF vars, memory, bounds, TypeOK
<1>1. CASE Deliver
  BY <1>a, <1>1 DEF Deliver, GoAt, TypeOK, Steps
<1>2. CASE Load
  <2>1. saved' \subseteq Replaced /\ value' \in Journal \cup {None}
    BY <1>a, <1>2 DEF Load, Leave, GoAt, TypeOK, Journal, Phase
  <2>2. at' \in 0..(N + 1)
    <3>1. at' \in {at, 0, N}
      BY <1>a, <1>2 DEF Load, Go, GoAt, Leave, TypeOK, Journal, Phase
    <3>2. at \in 0..(N + 1)
      BY <1>a DEF TypeOK
    <3> QED
      BY <3>1, <3>2
  <2>3. pc' \in Steps
    BY <1>a, <1>2 DEF Load, Go, GoAt, Leave, TypeOK, Steps, Journal, Phase
  <2> QED
    BY <1>a, <1>2, <2>1, <2>2, <2>3 DEF Load, bounds, TypeOK
<1>3. CASE VerifyCompleted
  <2>1. done' \in BOOLEAN
    BY <1>a, <1>3 DEF VerifyCompleted, TypeOK
  <2> QED
    BY <1>a, <1>3, <2>1 DEF VerifyCompleted, Leave, GoAt, bounds, TypeOK, Steps
<1>4. CASE Preflight
  <2>1. [phase |-> "staged", published |-> {}] \in Journal
    BY DEF Journal, Phase
  <2> QED
    <3>1. UNCHANGED <<file, plan, journal, saved, ours, done, bounds>>
      BY <1>4 DEF Preflight
    <3>2. (pc' = "journal" /\ at' = at /\ value' \in Journal) \/ (pc' = "idle" /\ at' = 0 /\ value' = None)
      BY <1>4, <2>1 DEF Preflight, Go, GoAt, Leave
    <3> HIDE DEF Journal
    <3> QED BY <1>a, <3>1, <3>2 DEF bounds, TypeOK, Steps
<1>5. CASE WriteStaged
  BY <1>a, <1>5 DEF WriteStaged, Written, NotWritten, Go, GoAt, Leave, bounds, TypeOK, Steps
<1>6. CASE Stage
  BY <1>a, <1>6 DEF Stage, Go, GoAt, Leave, bounds, TypeOK, Steps
<1>7. CASE MarkApplying
  <2>1. [value EXCEPT !.phase = "applying"] \in Journal
    BY <1>a, <1>b, <1>7, Rephase DEF MarkApplying, Position, Phase
  <2> QED
    BY <1>a, <1>7, <2>1 DEF MarkApplying, Written, NotWritten, GoAt, Leave, bounds, TypeOK, Steps
<1>c. pc \in Publishing \cup Undo => [value EXCEPT !.phase = "reconcile"] \in Journal
  BY <1>a, <1>b, Rephase DEF Position, Phase
<1>8. CASE Create \/ Withdraw \/ CheckTarget \/ Replace
  <2>1. at \in Touched /\ at \in Paths /\ [value EXCEPT !.phase = "reconcile"] \in Journal
    BY <1>a, <1>c, <1>8 DEF Create, Withdraw, CheckTarget, Replace, Publishing, Touched, Inv, Seen
  <2>2. [value EXCEPT !.published = @ \cup {at}] \in Journal
    BY <1>a, <1>b, <1>8, <2>1
    DEF Create, Withdraw, CheckTarget, Replace, Position, Publishing, Journal
  <2>3. Put(at) => file' \in [Paths -> Content] /\ ours' \subseteq Touched
    BY <1>a, <2>1 DEF Put, TypeOK, Content
  <2>4. "absent" \in Content
    BY DEF Content
  <2>5. journal' \in Journal \cup {None} /\ value' \in Journal \cup {None}
    BY <1>a, <1>8, <2>1, <2>2
    DEF Create, Withdraw, CheckTarget, Replace, Published, Fail, NotWritten, TypeOK
  <2>6. file' \in [Paths -> Content] /\ ours' \subseteq Touched
    BY <1>a, <1>8, <2>3, <2>4 DEF Create, Withdraw, CheckTarget, Replace, NotPut, TypeOK
  <2>7. pc' \in Steps /\ at' \in 0..(N + 1)
    BY <1>a, <1>8
    DEF Create, Withdraw, CheckTarget, Replace, Published, See, Fail, Go, GoAt, TypeOK, Steps
  <2> QED
    BY <1>a, <1>8, <2>5, <2>6, <2>7
    DEF Create, Withdraw, CheckTarget, Replace, bounds, TypeOK
<1>9. CASE SkipCurrent
  BY <1>a, <1>9 DEF SkipCurrent, Onward, Go, GoAt, bounds, TypeOK, Steps
<1>10. CASE JournalPublished
  BY <1>a, <1>c, <1>10 DEF JournalPublished, Written, Fail, NotWritten, Onward, GoAt, bounds,
                           Publishing, TypeOK, Steps
<1>11. CASE Verify
  BY <1>a, <1>c, <1>11 DEF Verify, Fail, NotWritten, Go, GoAt, bounds,
                           Publishing, TypeOK, Steps
<1>12. CASE Complete
  <2>1. value \in Journal
    BY <1>a, <1>b, <1>12 DEF Complete, Position, Publishing
  <2>2. [value EXCEPT !.phase = "completed"] \in Journal
    BY <2>1, Rephase DEF Phase
  <2>3. [[value EXCEPT !.phase = "completed"] EXCEPT !.phase = "reconcile"] \in Journal
    BY <2>2, Rephase DEF Phase
  <2> QED
    BY <1>a, <1>12, <2>2, <2>3 DEF Complete, Written, NotWritten, Go, GoAt, bounds,
                                   TypeOK, Steps
<1>13. CASE Clean
  <2>1. done' \in BOOLEAN
    BY <1>a, <1>13 DEF Clean, TypeOK
  <2> QED
    BY <1>a, <1>13, <2>1 DEF Clean, Leave, GoAt, bounds, TypeOK, Steps
<1>d. Undoing /\ TakeBack => file' \in [Paths -> Content]
  <2> SUFFICES ASSUME Undoing, TakeBack PROVE file' \in [Paths -> Content]
    OBVIOUS
  <2>1. at \in Paths
    BY DEF TakeBack, Inv, Seen, Touched
  <2>2. plan[at] \in Action
    BY <1>a, <2>1 DEF TypeOK
  <2>3. Before(plan[at]) \in Content
    BY <2>2 DEF Action, Before, Content
  <2> QED
    BY <1>a, <2>3 DEF TakeBack, TypeOK
<1>14. CASE LookBack \/ Capture
  BY <1>a, <1>14 DEF LookBack, Capture, See, GoAt, Undoing, bounds, TypeOK, Paths, Steps
<1>20. CASE UndoFile
  <2>1. file' \in [Paths -> Content] /\ at \in Paths
    BY <1>a, <1>d, <1>20 DEF UndoFile, TypeOK, TakeBack, Inv, Seen, Touched
  <2> QED
    BY <1>a, <1>20, <2>1 DEF UndoFile, GoAt, bounds, TypeOK, Paths
<1>15. CASE UndoRefused
  <2>1. file' \in [Paths -> Content]
    BY <1>a, <1>d, <1>15 DEF UndoRefused, TypeOK
  <2> QED
    BY <1>a, <1>c, <1>15, <2>1 DEF UndoRefused, Undoing, Undo, NotWritten, Leave, GoAt, bounds,
                                   TypeOK, Steps
<1>16. CASE FinishUndo
  <2>1. RolledBack \in Journal
    BY <1>a, <1>b, <1>16 DEF FinishUndo, Undoing, Undo, Position, RolledBack, Journal, Phase
  <2> QED
    BY <1>a, <1>16, <2>1 DEF FinishUndo, Written, NotWritten, GoAt, Leave, bounds,
                             TypeOK, Steps
<1>17. CASE Discard
  BY <1>a, <1>17 DEF Discard, Leave, GoAt, bounds, TypeOK, Steps
<1>18. CASE Crash
  BY <1>a, <1>18 DEF Crash, Leave, GoAt, bounds, TypeOK, Steps
<1>19. ASSUME NEW k \in Paths, NEW content \in Content, Edit(k, content) PROVE TypeOK'
  BY <1>a, <1>19 DEF Edit, memory, TypeOK
<1> QED
  BY <1>0, <1>1, <1>2, <1>3, <1>4, <1>5, <1>6, <1>7, <1>8, <1>9, <1>10, <1>11, <1>12, <1>13,
     <1>14, <1>15, <1>16, <1>17, <1>18, <1>19, <1>20 DEF Next, Apply

-----------------------------------------------------------------------------
\* Accounted: no step loses track of what the request has written.
LEMMA AccountedStep ==
    Inv /\ [Next]_vars => ResidueAccounted' /\ OldKept' /\ Position'
<1> SUFFICES ASSUME Inv, [Next]_vars PROVE ResidueAccounted' /\ OldKept' /\ Position'
  OBVIOUS
<1>a. TypeOK /\ ResidueAccounted /\ OldKept /\ Position
  BY DEF Inv
<1>b. value # None => value \in Journal
  BY <1>a DEF TypeOK
<1>c. journal # None => journal \in Journal
  BY <1>a DEF TypeOK
<1>e. plan' = plan
  BY DEF Next, Apply, vars, Deliver, Load, VerifyCompleted, Preflight, WriteStaged, Stage,
         MarkApplying, Create, Withdraw, CheckTarget, Replace, SkipCurrent, JournalPublished, Verify,
         Complete, Clean, LookBack, Capture, UndoFile, UndoRefused, FinishUndo, Discard, Crash, Edit
<1>f. Replaced' = Replaced
  BY <1>e DEF Replaced
<1>g. pc \in Publishing \cup Undo =>
         LET w == [value EXCEPT !.phase = "reconcile"]
         IN  w \in Journal /\ w # None /\ w.phase = "reconcile"
  BY <1>a, <1>b, Rephase DEF Position, Phase
<1>i. Create \/ Withdraw \/ CheckTarget \/ Replace => at \in Paths /\ pc \in Publishing
  BY DEF Create, Withdraw, CheckTarget, Replace, Publishing, Touched, Inv, Seen
<1> USE <1>a, <1>f DEF ResidueAccounted, OldKept, Position, Fresh, Publishing, Undo
<1>0. CASE UNCHANGED vars
  BY <1>0 DEF vars, memory
<1>1. CASE Deliver
  BY <1>1 DEF Deliver, GoAt
<1>2. CASE Load
  BY <1>2, <1>c DEF Load, Go, GoAt, Leave, Journal, Phase
<1>3. CASE VerifyCompleted
  BY <1>3 DEF VerifyCompleted, Leave, GoAt
<1>4. CASE Preflight
  BY <1>4, NoneAssumption DEF Preflight, Go, GoAt, Leave, Journal, Phase
<1>5. CASE WriteStaged
  BY <1>5 DEF WriteStaged, Written, NotWritten, Go, GoAt, Leave
<1>6. CASE Stage
  BY <1>6 DEF Stage, Go, GoAt, Leave
<1>7. CASE MarkApplying
  <2>1. LET w == [value EXCEPT !.phase = "applying"]
        IN  w \in Journal /\ w # None /\ w.phase = "applying"
    BY <1>7, <1>b, Rephase DEF MarkApplying, Phase
  <2> QED
    BY <1>7, <2>1 DEF MarkApplying, Written, NotWritten, GoAt, Leave
<1>8. CASE Create \/ Withdraw \/ CheckTarget \/ Replace
  <2>1. /\ journal # None /\ value # None /\ journal.phase = "applying" /\ value.phase = "applying"
        /\ Replaced \subseteq saved /\ saved' = saved
        /\ value \in Journal
        /\ ~done /\ done' = done
    BY <1>8, <1>b DEF Create, Withdraw, CheckTarget, Replace
  <2>2. CASE Fail
    <3> DEFINE w == [value EXCEPT !.phase = "reconcile"]
    <3>1. w # None /\ w.phase = "reconcile"
      BY <1>8, <1>g DEF Create, Withdraw, CheckTarget, Replace
    <3>2. value' = w /\ journal' \in {journal, w} /\ pc' = "undo"
      BY <2>2 DEF Fail, NotWritten, GoAt
    <3> HIDE DEF w
    <3> QED
      BY <2>1, <3>1, <3>2
  <2>3. CASE Published
    <3>1. value' # None /\ value'.phase = "applying"
      <4> DEFINE w == [value EXCEPT !.published = @ \cup {at}]
      <4>1. at \in Paths
        BY <1>8, <1>i
      <4>2. w \in Journal /\ w.phase = "applying"
        BY <2>1, <4>1 DEF Journal
      <4> QED
        BY <2>3, <4>2, NoneAssumption DEF Published
    <3> QED
      BY <2>1, <2>3, <3>1 DEF Published, Go, GoAt
  <2>4. CASE (See("publish") \/ See("withdraw")) /\ UNCHANGED <<journal, value>>
    BY <2>1, <2>4 DEF See
  <2> QED
    BY <1>8, <2>2, <2>3, <2>4 DEF Create, Withdraw, CheckTarget, Replace
<1>9. CASE SkipCurrent
  BY <1>9 DEF SkipCurrent, Onward, GoAt, Go
<1>10. CASE JournalPublished
  BY <1>10, <1>g DEF JournalPublished, Written, Fail, NotWritten, Onward, GoAt
<1>11. CASE Verify
  BY <1>11, <1>g DEF Verify, Fail, NotWritten, Go, GoAt
<1>12. CASE Complete
  <2> DEFINE v == [value EXCEPT !.phase = "completed"]
             w == [v EXCEPT !.phase = "reconcile"]
  <2>1. v \in Journal /\ v # None /\ v.phase = "completed"
    BY <1>12, <1>b, Rephase DEF Complete, Phase
  <2>2. w \in Journal /\ w # None /\ w.phase = "reconcile"
    BY <2>1, Rephase DEF Phase
  <2> HIDE DEF w
  <2>3. \/ journal' = v /\ value' = v /\ Go("clean")
        \/ value' = w /\ journal' \in {journal, v, w} /\ GoAt("undo", N)
    BY <1>12 DEF Complete, Written, NotWritten, w
  <2> HIDE DEF v
  <2> QED
    BY <1>12, <2>1, <2>2, <2>3 DEF Complete, Go, GoAt
<1>13. CASE Clean
  BY <1>13 DEF Clean, Leave, GoAt
<1>14. CASE LookBack \/ Capture \/ UndoFile
  BY <1>14 DEF LookBack, Capture, UndoFile, Undoing, See, GoAt
<1>15. CASE UndoRefused
  <2> DEFINE w == [value EXCEPT !.phase = "reconcile"]
  <2>1. w # None /\ w.phase = "reconcile"
    BY <1>15, <1>g DEF UndoRefused, Undoing
  <2>2. /\ pc \in Undo /\ pc' = "idle" /\ journal' \in {journal, w}
        /\ ours' = ours /\ saved' = saved /\ ~done /\ done' = done
    BY <1>15 DEF UndoRefused, Undoing, NotWritten, Leave, GoAt
  <2> HIDE DEF w
  <2>3. ResidueAccounted' /\ Position'
    BY <2>1, <2>2
  <2>4. OldKept'
    <3>1. ours \cap Replaced \subseteq saved
      BY <2>2
    <3>2. CASE journal' = journal
      BY <2>2, <3>2
    <3>3. CASE journal' = w
      BY <2>1, <2>2, <3>1, <3>3
    <3> QED
      BY <2>2, <3>2, <3>3
  <2> QED
    BY <2>3, <2>4
<1>16. CASE FinishUndo
  <2>1. /\ pc \in Undo /\ saved' = saved /\ ~done /\ done' = done
        /\ journal' \in {journal, RolledBack}
        /\ ours' = IF journal' = RolledBack THEN {} ELSE ours
        /\ pc' \in {"discard", "load", "idle"}
        /\ pc' = "discard" => journal' = RolledBack
    BY <1>16 DEF FinishUndo, Undoing, Written, NotWritten, GoAt, Leave
  <2>2. CASE ours' = {}
    <3>1. ResidueAccounted'
      BY <2>2
    <3>2. OldKept'
      BY <2>2
    <3>3. Position'
      BY <2>2, <2>1
    <3> QED
      BY <3>1, <3>2, <3>3
  <2>3. CASE journal' = journal /\ ours' = ours
    BY <2>1, <2>3
  <2> QED
    BY <2>1, <2>2, <2>3
<1>17. CASE Discard
  BY <1>17 DEF Discard, Leave, GoAt
<1>18. CASE Crash
  BY <1>18 DEF Crash, Leave, GoAt
<1>19. ASSUME NEW k \in Paths, NEW content \in Content, Edit(k, content)
       PROVE  ResidueAccounted' /\ OldKept' /\ Position'
  BY <1>19 DEF Edit, memory
<1> QED
  BY <1>0, <1>1, <1>2, <1>3, <1>4, <1>5, <1>6, <1>7, <1>8, <1>9, <1>10, <1>11, <1>12, <1>13,
     <1>14, <1>15, <1>16, <1>17, <1>18, <1>19 DEF Next, Apply

\* Proven: the journals name nothing that the request has not written.
LEMMA ProvenStep == Inv /\ [Next]_vars => Proven' /\ Ahead'
<1> SUFFICES ASSUME Inv, [Next]_vars PROVE Proven' /\ Ahead'
  OBVIOUS
<1>a. TypeOK /\ Position /\ Proven /\ Ahead
  BY DEF Inv
<1>b. value # None => value \in Journal
  BY <1>a DEF TypeOK
<1>c. journal # None => journal \in Journal
  BY <1>a DEF TypeOK
<1>g. pc \in Publishing \cup Undo =>
         LET w == [value EXCEPT !.phase = "reconcile"]
         IN  w \in Journal /\ w # None /\ w.phase = "reconcile" /\ w.published = value.published
  BY <1>a, <1>b, Rephase DEF Position, Phase
<1>n. at \in Int /\ \A k \in Paths : k \in Int
  BY <1>a, BoundsAssumption DEF TypeOK, Paths
<1>m. value # None => \A k \in value.published : k \in Int
  BY <1>b, <1>n DEF Journal
<1> USE <1>a DEF Proven, Ahead, Position, Fresh, Publishing, Undo
<1>0. CASE UNCHANGED vars
  BY <1>0 DEF vars, memory
<1>1. CASE Deliver
  BY <1>1 DEF Deliver, GoAt
<1>2. CASE Load
  BY <1>2, <1>c DEF Load, Go, GoAt, Leave, Journal, Phase
<1>3. CASE VerifyCompleted
  BY <1>3 DEF VerifyCompleted, Leave, GoAt
<1>4. CASE Preflight
  BY <1>4 DEF Preflight, Go, GoAt, Leave
<1>5. CASE WriteStaged
  BY <1>5 DEF WriteStaged, Written, NotWritten, Go, GoAt, Leave
<1>6. CASE Stage
  BY <1>6 DEF Stage, Go, GoAt, Leave
<1>7. CASE MarkApplying
  <2>1. LET w == [value EXCEPT !.phase = "applying"]
        IN  w \in Journal /\ w # None /\ w.phase = "applying" /\ w.published = {}
    BY <1>7, <1>b, Rephase DEF MarkApplying, Phase
  <2> QED
    BY <1>7, <2>1 DEF MarkApplying, Written, NotWritten, GoAt, Leave
<1>8. CASE Create \/ CheckTarget \/ Replace
  <2>1. /\ pc = "publish" /\ pc \in Publishing /\ value \in Journal
        /\ value.published \subseteq ours /\ journal.published \subseteq value.published
        /\ ours' \in {ours, ours \cup {at}}
    BY <1>8, <1>b DEF Create, CheckTarget, Replace, Put, NotPut
  <2>2. CASE Fail
    BY <2>1, <2>2, <1>g DEF Fail, NotWritten, GoAt
  <2>3. CASE Published /\ Put(at)
    <3>1. value'.published = value.published \cup {at}
      BY <2>1, <2>3 DEF Published, Journal
    <3>2. value'.published \subseteq ours' /\ journal' = journal /\ pc' = "published" /\ at' = at
      BY <2>1, <2>3, <3>1 DEF Published, Put, Go, GoAt
    <3>3. \A k \in value'.published : k <= at
      BY <2>1, <3>1, <1>n, <1>m, <1>8 DEF Create, CheckTarget, Replace
    <3> QED
      BY <2>1, <3>1, <3>2, <3>3
  <2>4. CASE (See("publish") \/ See("withdraw")) /\ UNCHANGED <<journal, value>>
    BY <2>1, <2>4 DEF See
  <2> QED
    BY <1>8, <2>2, <2>3, <2>4 DEF Create, CheckTarget, Replace
<1>20. CASE Withdraw
  <2>1. /\ pc = "withdraw" /\ pc \in Publishing
        /\ value.published \subseteq ours /\ journal.published \subseteq value.published
        /\ at \notin value.published
        /\ ours' \in {ours, ours \ {at}}
    BY <1>20, <1>n DEF Withdraw, NotPut
  <2> QED
    BY <1>20, <2>1, <1>g DEF Withdraw, Fail, NotWritten, GoAt
<1>k. pc \in Publishing => \A k \in value.published : k <= at => k < at + 1
  BY <1>n, <1>m
<1>9. CASE SkipCurrent
  <2>1. \A k \in value.published : k < at + 1
    BY <1>9, <1>n, <1>m DEF SkipCurrent
  <2> QED
    BY <1>9, <2>1 DEF SkipCurrent, Onward, GoAt, Go
<1>10. CASE JournalPublished
  <2>1. CASE Fail
    BY <1>10, <1>g, <2>1 DEF JournalPublished, Fail, NotWritten, GoAt
  <2>2. CASE Written(value) /\ Onward /\ UNCHANGED value
    BY <1>10, <1>k, <2>2 DEF JournalPublished, Written, Onward, GoAt
  <2> QED
    BY <1>10, <2>1, <2>2 DEF JournalPublished
<1>11. CASE Verify
  BY <1>11, <1>g DEF Verify, Fail, NotWritten, Go, GoAt
<1>12. CASE Complete
  BY <1>12, <1>b DEF Complete, Written, NotWritten, Go, GoAt, Journal
<1>13. CASE Clean
  BY <1>13 DEF Clean, Leave, GoAt
<1>14. CASE LookBack \/ Capture \/ UndoFile
  BY <1>14 DEF LookBack, Capture, UndoFile, Undoing, See, GoAt
<1>15. CASE UndoRefused
  BY <1>15, <1>g DEF UndoRefused, Undoing, NotWritten, Leave, GoAt
<1>16. CASE FinishUndo
  BY <1>16 DEF FinishUndo, Undoing, RolledBack, Written, NotWritten, GoAt, Leave
<1>17. CASE Discard
  BY <1>17 DEF Discard, Leave, GoAt
<1>18. CASE Crash
  BY <1>18 DEF Crash, Leave, GoAt
<1>19. ASSUME NEW k \in Paths, NEW content \in Content, Edit(k, content)
       PROVE  Proven' /\ Ahead'
  BY <1>19 DEF Edit, memory
<1> QED
  BY <1>0, <1>1, <1>2, <1>3, <1>4, <1>5, <1>6, <1>7, <1>8, <1>9, <1>10, <1>11, <1>12, <1>13,
     <1>14, <1>15, <1>16, <1>17, <1>18, <1>19, <1>20 DEF Next, Apply

\* Seen: what a delivery has seen stays there but for the operator.
LEMMA SeenStep == Inv /\ [Next]_vars => Seen'
<1> SUFFICES ASSUME Inv, [Next]_vars PROVE Seen'
  OBVIOUS
<1>a. TypeOK /\ Position /\ Proven /\ Seen
  BY DEF Inv
<1>e. plan' = plan /\ Touched' = Touched
  BY DEF Next, Apply, vars, Deliver, Load, VerifyCompleted, Preflight, WriteStaged, Stage,
         MarkApplying, Create, Withdraw, CheckTarget, Replace, SkipCurrent, JournalPublished, Verify,
         Complete, Clean, LookBack, Capture, UndoFile, UndoRefused, FinishUndo, Discard, Crash, Edit,
         Touched
<1>1. CASE look' = "none" /\ pc' # "withdraw"
  BY <1>1 DEF Seen
<1>2. CASE UNCHANGED vars
  BY <1>a, <1>2, <1>e DEF vars, memory, sight, Seen, Planned
<1>3. CASE Create
  <2>1. CASE look' # "none"
    BY <1>a, <1>3, <1>e, <2>1
    DEF Create, See, Fail, Published, Go, GoAt, Put, TypeOK, Touched, Seen, Undo
  <2>2. CASE look' = "none"
    BY <1>1, <1>3, <2>2 DEF Create, See, Fail, Published, Go, GoAt
  <2> QED
    BY <2>1, <2>2
<1>4. CASE CheckTarget
  BY <1>a, <1>4, <1>e, <1>1 DEF CheckTarget, See, Fail, GoAt, Planned, Seen, Undo
<1>5. CASE LookBack
  <2>1. CASE See(pc)
    <3>1. at \in Touched /\ pc \in Undo
      BY <1>5, <2>1 DEF LookBack, See, GoAt, Restorable, AsBefore, Undoing, Undo, Touched
    <3>2. at \in value.published /\ file[at] = "new"
      BY <1>5, <2>1 DEF LookBack, See, GoAt, Restorable, Removable
    <3>3. UNCHANGED <<file, value, pc, at, ours>>
      BY <1>5, <2>1 DEF LookBack, See
    <3> QED
      BY <1>e, <3>1, <3>2, <3>3 DEF Seen, Undo
  <2>2. CASE GoAt(pc, at - 1)
    BY <1>1, <1>5, <2>2 DEF LookBack, GoAt, Undoing
  <2> QED
    BY <1>5, <2>1, <2>2 DEF LookBack
<1>6. CASE Capture
  BY <1>a, <1>6, <1>e DEF Capture, Undoing, Undo, Seen
<1>7. ASSUME NEW k \in Paths, NEW content \in Content, Edit(k, content) PROVE Seen'
  <2>1. \A x \in Paths : x # k => file'[x] = file[x]
    BY <1>a, <1>7 DEF Edit, TypeOK
  <2>2. look # "none" => at \in Paths
    BY <1>a DEF Seen, Touched
  <2> QED
    BY <1>a, <1>7, <1>e, <2>1, <2>2 DEF Edit, Seen, Planned
<1>9. CASE Load
  <2>1. GoAt("preflight", at) \/ GoAt("reverify", at) \/ GoAt("recover", N) \/ GoAt("idle", 0)
    BY <1>a, <1>9 DEF Load, Go, Leave, TypeOK, Journal, Phase
  <2> QED
    BY <1>1, <2>1 DEF GoAt
<1>8. CASE Deliver \/ VerifyCompleted \/ Preflight \/ WriteStaged \/ Stage \/ MarkApplying
           \/ Withdraw \/ Replace \/ SkipCurrent \/ JournalPublished \/ Verify \/ Complete \/ Clean
           \/ UndoFile \/ UndoRefused \/ FinishUndo \/ Discard \/ Crash
  <2>1. look' = "none" /\ pc' # "withdraw"
    BY <1>8
    DEF Deliver, VerifyCompleted, Preflight, WriteStaged, Stage, MarkApplying, Withdraw, Replace,
        Published, SkipCurrent, Onward, JournalPublished, Verify, Complete, Clean, Undoing, UndoFile,
        UndoRefused, FinishUndo, Discard, Crash, Fail, Go, GoAt, Leave
  <2> QED
    BY <1>1, <2>1
<1> QED
  BY <1>2, <1>3, <1>4, <1>5, <1>6, <1>7, <1>8, <1>9 DEF Next, Apply

\* Every reachable state satisfies the invariant.
THEOREM Invariance == Spec => []Inv
<1>1. Inv /\ [Next]_vars => Inv'
  BY TypeStep, AccountedStep, ProvenStep, SeenStep DEF Inv
<1> QED
  BY InitInv, <1>1, PTL DEF Spec

\* The journal in memory and on disk, the copies and the position are always
\* what apply.go and store.go can hold.
THEOREM TypeCorrect == Spec => []TypeOK
<1>1. Inv => TypeOK
  BY DEF Inv
<1> QED
  BY Invariance, <1>1, PTL

\* What the request has written is never unaccounted for: the journal calls
\* for recovery or verification until everything is taken back.
THEOREM Accounted == Spec => []ResidueAccounted
<1>1. Inv => ResidueAccounted
  BY DEF Inv
<1> QED
  BY Invariance, <1>1, PTL

\* The bytes of a file that was replaced stay in the rollback store until the
\* file is back or the request is completed.
THEOREM OldBytesKept == Spec => []OldKept
<1>1. Inv => OldKept
  BY DEF Inv
<1> QED
  BY Invariance, <1>1, PTL

-----------------------------------------------------------------------------
\* The steps of a delivery that change a file, and which file.
LEMMA FileChange ==
    ASSUME Inv, [Next]_vars, edits' = edits, file' # file
    PROVE  /\ pc \in Publishing \cup Undo /\ at \in Paths
           /\ \A k \in Paths \ {at} : file'[k] = file[k]
           /\ look = "none" => pc = "publish" /\ Planned(at)
<1>0. TypeOK /\ Seen
  BY DEF Inv
<1>1. CASE Create \/ Withdraw \/ Replace
  BY <1>0, <1>1
  DEF Create, Withdraw, Replace, Put, NotPut, Publishing, TypeOK, Touched, Seen
<1>2. CASE UndoFile \/ UndoRefused
  BY <1>0, <1>2 DEF UndoFile, UndoRefused, TakeBack, Undoing, Undo, TypeOK, Touched, Seen
<1>3. ASSUME NEW k \in Paths, NEW content \in Content, Edit(k, content) PROVE FALSE
  BY <1>0, <1>3, BoundsAssumption DEF Edit, TypeOK
<1> QED
  BY <1>1, <1>2, <1>3
  DEF Next, Apply, vars, Deliver, Load, VerifyCompleted, Preflight, WriteStaged, Stage, MarkApplying,
      CheckTarget, SkipCurrent, JournalPublished, Verify, Complete, Clean, LookBack, Capture,
      FinishUndo, Discard, Crash

\* A delivery overwrites only what the plan saw and takes back only what the
\* request wrote, unless the operator saves the very file after the last look
\* at it.
THEOREM OperatorKept == Spec => UserKept
<1>1. ASSUME Inv, [Next]_vars
      PROVE  [\A k \in Paths : file'[k] # file[k] /\ edits' = edits =>
                 Planned(k) \/ (k \in ours /\ file[k] = "new") \/ (k = at /\ moved)]_vars
  <2> SUFFICES ASSUME NEW k \in Paths, file'[k] # file[k], edits' = edits
               PROVE  Planned(k) \/ (k \in ours /\ file[k] = "new") \/ (k = at /\ moved)
    OBVIOUS
  <2>1. Proven /\ Seen
    BY <1>1 DEF Inv
  <2>2. /\ pc \in Publishing \cup Undo /\ at = k
        /\ look = "none" => Planned(at)
    BY <1>1, FileChange
  <2>3. CASE look # "none" /\ ~moved
    BY <2>1, <2>2, <2>3 DEF Seen, Proven, Publishing, Undo
  <2> QED
    BY <2>2, <2>3
<1> QED
  BY Invariance, <1>1, PTL DEF UserKept, Spec

\* A duplicate of a request that was answered changes no file.
THEOREM DuplicateHarmless == Spec => NeverTwice
<1>1. ASSUME Inv, [Next]_vars
      PROVE  [done /\ edits' = edits => UNCHANGED file]_vars
  <2>1. Position
    BY <1>1 DEF Inv
  <2> QED
    BY <1>1, <2>1, FileChange DEF Position, Publishing, Undo
<1> QED
  BY Invariance, <1>1, PTL DEF NeverTwice, Spec

-----------------------------------------------------------------------------
(***************************************************************************)
(* The order of the locks.                                                 *)
(***************************************************************************)

\* Every set of numbers has a least one.
LEMMA Least == ASSUME NEW S, S \subseteq Nat, S # {}
               PROVE  \E m \in S : \A k \in S : m <= k
<1> DEFINE R == OpToRel(<, Nat)
<1>0. R = {ss \in Nat \X Nat : ss[1] < ss[2]}
  BY DEF OpToRel
<1>1. IsWellFoundedOn(R, Nat)
  BY NatLessThanWellFounded
<1> HIDE DEF R
<1>2. PICK m \in S : \A k \in S : <<k, m>> \notin R
  BY <1>1, WFMin
<1>3. \A k \in S : m <= k
  <2> TAKE k \in S
  <2>1. k \in Nat /\ m \in Nat
    OBVIOUS
  <2>2. <<k, m>> \in Nat \X Nat /\ <<k, m>>[1] = k /\ <<k, m>>[2] = m
    BY <2>1
  <2>3. ~(k < m)
    BY <1>0, <1>2, <2>2
  <2> QED BY <2>1, <2>3
<1> QED BY <1>3

\* The libraries of the components are the libraries.
LEMMA Libraries == /\ \A S : Locks!IsFiniteSet(S) <=> IsFiniteSet(S)
                   /\ \A S : Config!Cardinality(S) = Cardinality(S)
<1>1. \A S : Locks!IsFiniteSet(S) <=> IsFiniteSet(S)
  BY DEF IsFiniteSet, Locks!IsFiniteSet
<1>2. \A S : Config!Cardinality(S) = Cardinality(S)
  BY Zenon DEF Cardinality, Config!Cardinality
<1> QED BY <1>1, <1>2

Stacks(c) == IF c = <<>> THEN {} ELSE Locks!ToSet(Locks!Script(c))

\* A prefix, element by element.
LEMMA PrefixOf ==
  ASSUME NEW X, NEW h \in Seq(X), NEW s \in Seq(X)
  PROVE  Locks!IsPrefix(h, s) <=> (Len(h) <= Len(s) /\ \A i \in 1..Len(h) : h[i] = s[i])
<1>1. ASSUME Locks!IsPrefix(h, s) PROVE Len(h) <= Len(s) /\ \A i \in 1..Len(h) : h[i] = s[i]
  <2>1. Len(h) <= Len(s) /\ SubSeq(h, 1, Len(h)) = SubSeq(s, 1, Len(h))
    BY <1>1 DEF Locks!IsPrefix
  <2>2. \A i \in 1..Len(h) : SubSeq(h, 1, Len(h))[i] = h[i] /\ SubSeq(s, 1, Len(h))[i] = s[i]
    BY <2>1
  <2> QED BY <2>1, <2>2
<1>2. ASSUME Len(h) <= Len(s), \A i \in 1..Len(h) : h[i] = s[i] PROVE Locks!IsPrefix(h, s)
  <2>1. SubSeq(h, 1, Len(h)) = SubSeq(s, 1, Len(h))
    BY <1>2
  <2> QED BY <1>2, <2>1 DEF Locks!IsPrefix
<1> QED BY <1>1, <1>2

\* The members of a sequence.
LEMMA ToSetIs == ASSUME NEW X, NEW s \in Seq(X)
                 PROVE /\ \A i \in 1..Len(s) : s[i] \in Locks!ToSet(s)
                       /\ \A x \in Locks!ToSet(s) : \E i \in 1..Len(s) : x = s[i]
                       /\ Locks!ToSet(s) \subseteq X
BY DEF Locks!ToSet

\* The repositories around one, each with the ones around it.
LEMMA RepositoriesShape ==
  ASSUME NEW r \in Repositories
  PROVE  /\ Containing[r] \in Seq(Repositories)
         /\ Locks!Depth(r) = Len(Containing[r]) /\ Locks!Depth(r) \in Nat
         /\ \A i \in 1..Locks!Depth(r) : /\ Containing[r][i] \in Repositories
                                         /\ Containing[Containing[r][i]] = SubSeq(Containing[r], 1, i - 1)
                                         /\ Locks!Depth(Containing[r][i]) = i - 1
                                         /\ \A k \in 1..(i - 1) : Containing[Containing[r][i]][k] = Containing[r][k]
<1>1. /\ Containing[r] \in Seq(Repositories)
      /\ \A i \in 1..Locks!Depth(r) : Containing[Containing[r][i]] = SubSeq(Containing[r], 1, i - 1)
  BY LocksAssumption DEF Locks!LocksAssumption, Locks!ContainingAssumption
<1>2. Locks!Depth(r) = Len(Containing[r]) /\ Locks!Depth(r) \in Nat
  BY <1>1 DEF Locks!Depth
<1>3. ASSUME NEW i \in 1..Locks!Depth(r)
      PROVE  /\ Containing[r][i] \in Repositories
             /\ Len(SubSeq(Containing[r], 1, i - 1)) = i - 1
             /\ \A k \in 1..(i - 1) : SubSeq(Containing[r], 1, i - 1)[k] = Containing[r][k]
  BY <1>1, <1>2
<1> QED BY <1>1, <1>2, <1>3 DEF Locks!Depth

\* Inside is having the other among the repositories around it.
LEMMA InsideIs ==
  ASSUME NEW x \in Repositories, NEW r
  PROVE  Locks!Inside(x, r) <=> \E k \in 1..Locks!Depth(x) : r = Containing[x][k]
<1>1. Containing[x] \in Seq(Repositories) /\ Locks!Depth(x) = Len(Containing[x])
  BY RepositoriesShape
<1> QED BY <1>1, ToSetIs DEF Locks!Inside

\* The gates of a repository: of the ones around it, and its own behind.
LEMMA GatesShape ==
  ASSUME NEW r \in Repositories
  PROVE  /\ Locks!Gates(r) \in Seq(Locks!Locks)
         /\ Len(Locks!Gates(r)) = Locks!Depth(r) + 1
         /\ Locks!Gates(r)[Locks!Depth(r) + 1] = Locks!Gate(r)
         /\ \A i \in 1..Locks!Depth(r) : Locks!Gates(r)[i] = Locks!Gate(Containing[r][i])
<1>1. Locks!Depth(r) \in Nat /\ \A i \in 1..Locks!Depth(r) : Containing[r][i] \in Repositories
  BY RepositoriesShape
<1> DEFINE a == [i \in 1..Locks!Depth(r) |-> Locks!Gate(Containing[r][i])]
<1>2. a \in Seq(Locks!Locks) /\ Len(a) = Locks!Depth(r) /\
         \A i \in 1..Locks!Depth(r) : a[i] = Locks!Gate(Containing[r][i])
  <2>1. \A i \in 1..Locks!Depth(r) : Locks!Gate(Containing[r][i]) \in Locks!Locks
    BY <1>1 DEF Locks!Locks
  <2> QED BY <1>1, <2>1
<1>3. <<Locks!Gate(r)>> \in Seq(Locks!Locks) /\ Len(<<Locks!Gate(r)>>) = 1 /\
         <<Locks!Gate(r)>>[1] = Locks!Gate(r)
  BY DEF Locks!Locks
<1>4. Locks!Gates(r) = a \o <<Locks!Gate(r)>>
  BY DEF Locks!Gates
<1> HIDE DEF a
<1> QED BY <1>1, <1>2, <1>3, <1>4

\* Every gate of a stack is the last of the gates of its own repository.
LEMMA GatesAre ==
  ASSUME NEW r \in Repositories, NEW i \in 1..Len(Locks!Gates(r))
  PROVE  \E x \in Repositories :
            /\ Locks!Gates(r)[i] = Locks!Gate(x) /\ Locks!Depth(x) = i - 1
            /\ x = r \/ Locks!Inside(r, x)
            /\ \A k \in 1..(i - 1) : Containing[x][k] = Containing[r][k]
<1>1. CASE i = Locks!Depth(r) + 1
  BY <1>1, GatesShape, RepositoriesShape
<1>2. CASE i # Locks!Depth(r) + 1
  <2>1. i \in 1..Locks!Depth(r)
    BY <1>2, GatesShape, RepositoriesShape
  <2> QED BY <2>1, GatesShape, RepositoriesShape, InsideIs
<1> QED BY <1>1, <1>2

Nested(s) ==
  \A i \in 1..Len(s) : \A x \in Repositories : \A y \in Repositories :
     s[i] = Locks!Gate(x) /\ Locks!Inside(x, y) => \E j \in 1..(i - 1) : s[j] = Locks!Gate(y)

\* Gates tell repositories apart.
LEMMA SameGate == ASSUME NEW x, NEW y, Locks!Gate(x) = Locks!Gate(y) PROVE x = y
BY DEF Locks!Gate

\* WithLifecycleLock takes the gates around before a gate.
LEMMA GatesNested == ASSUME NEW r \in Repositories PROVE Nested(Locks!Gates(r))
<1> SUFFICES ASSUME NEW i \in 1..Len(Locks!Gates(r)), NEW x \in Repositories, NEW y \in Repositories,
                    Locks!Gates(r)[i] = Locks!Gate(x), Locks!Inside(x, y)
             PROVE  \E j \in 1..(i - 1) : Locks!Gates(r)[j] = Locks!Gate(y)
  BY DEF Nested
<1>1. PICK z \in Repositories :
            /\ Locks!Gates(r)[i] = Locks!Gate(z) /\ Locks!Depth(z) = i - 1
            /\ \A k \in 1..(i - 1) : Containing[z][k] = Containing[r][k]
  BY GatesAre
<1>2. z = x
  BY <1>1, SameGate
<1>3. PICK k \in 1..Locks!Depth(x) : y = Containing[x][k]
  BY InsideIs
<1>4. k \in 1..(i - 1) /\ y = Containing[r][k] /\ k \in 1..Locks!Depth(r)
  BY <1>1, <1>2, <1>3, GatesShape, RepositoriesShape
<1> QED BY <1>4, GatesShape

\* One such stack behind another one.
LEMMA NestedConcat ==
  ASSUME NEW X, NEW s \in Seq(X), NEW t \in Seq(X), Nested(s), Nested(t)
  PROVE  Nested(s \o t)
<1> SUFFICES ASSUME NEW i \in 1..Len(s \o t), NEW x \in Repositories, NEW y \in Repositories,
                    (s \o t)[i] = Locks!Gate(x), Locks!Inside(x, y)
             PROVE  \E j \in 1..(i - 1) : (s \o t)[j] = Locks!Gate(y)
  BY DEF Nested
<1>1. CASE i <= Len(s)
  <2>1. i \in 1..Len(s) /\ s[i] = Locks!Gate(x)
    BY <1>1
  <2>2. PICK j \in 1..(i - 1) : s[j] = Locks!Gate(y)
    BY <2>1 DEF Nested
  <2>3. (s \o t)[j] = s[j]
    BY <2>2, <2>1
  <2> QED BY <2>2, <2>3
<1>2. CASE i > Len(s)
  <2>1. i - Len(s) \in 1..Len(t) /\ t[i - Len(s)] = Locks!Gate(x)
    BY <1>2
  <2>2. PICK j \in 1..((i - Len(s)) - 1) : t[j] = Locks!Gate(y)
    BY <2>1 DEF Nested
  <2>3. (s \o t)[j + Len(s)] = t[j] /\ j + Len(s) \in 1..(i - 1)
    BY <2>2, <2>1
  <2> QED BY <2>2, <2>3
<1> QED BY <1>1, <1>2

-----------------------------------------------------------------------------
Top(r) == IF Locks!Depth(r) = 0 THEN r ELSE Containing[r][1]

ArchivesApart == \A r, s \in DOMAIN ArchiveOf : Top(ArchiveOf[s]) # Top(r)
Archive(r) == \E s \in DOMAIN ArchiveOf : Top(ArchiveOf[s]) = Top(r)

Shallow(D) == \A r \in Repositories : Locks!Depth(r) <= D

GateRank(D, r) == 2 + Locks!Depth(r) + (IF Archive(r) THEN D + 1 ELSE 0)
TasksRank(D) == 2 * D + 5

Rank(D, l) ==
  CASE l[1] = "dev-taskflow" -> GateRank(D, l[2])
    [] l[1] \in {"legacy-experiment-move", "dev-artifact-finalize"} -> 0
    [] l[1] \in {"experiment-move", "agent-history"} -> 1
    [] l[1] = "task-store" -> TasksRank(D)
    [] l[1] = "artifact-intent" -> TasksRank(D) + 2
    [] l[1] = "notes" -> TasksRank(D) + 2
    [] l[1] = "catalog" -> TasksRank(D) + 3

\* The ranks of the locks.
LEMMA Ranks ==
  ASSUME NEW D
  PROVE  /\ Rank(D, Locks!Tasks) = TasksRank(D) /\ Rank(D, Locks!Intents) = TasksRank(D) + 2
         /\ Rank(D, Locks!Notes) = TasksRank(D) + 2 /\ Rank(D, Locks!Catalog) = TasksRank(D) + 3
         /\ \A r : /\ Rank(D, Locks!Gate(r)) = GateRank(D, r)
                   /\ Rank(D, Locks!Asset(r)) = 1 /\ Rank(D, Locks!History(r)) = 1
                   /\ Rank(D, Locks!MoveSource(r)) = 0 /\ Rank(D, Locks!Finalization(r)) = 0
BY
   DEF Rank, Locks!Tasks, Locks!Intents, Locks!Notes, Locks!Catalog, Locks!Gate,
       Locks!Asset, Locks!MoveSource, Locks!History, Locks!Finalization

\* The ranks of the gates lie between those of the leases and of the task store.
LEMMA GateRanks ==
  ASSUME NEW D \in Nat, Shallow(D), NEW r \in Repositories
  PROVE  /\ GateRank(D, r) \in Nat /\ 2 <= GateRank(D, r) /\ GateRank(D, r) <= 2 * D + 3
         /\ ~Archive(r) => GateRank(D, r) <= D + 2
         /\ Archive(r) => GateRank(D, r) >= D + 3
<1>1. Locks!Depth(r) \in Nat /\ Locks!Depth(r) <= D
  BY RepositoriesShape DEF Shallow
<1> QED BY <1>1 DEF GateRank

\* Ranks are bounded.
LEMMA RankType ==
  ASSUME NEW D \in Nat, Shallow(D), NEW l \in Locks!Locks
  PROVE  Rank(D, l) \in 0..(TasksRank(D) + 3)
<1>1. TasksRank(D) \in Nat /\ TasksRank(D) = 2 * D + 5
  BY DEF TasksRank
<1>2. CASE \E r \in Repositories : l \in {Locks!Gate(r), Locks!Asset(r), Locks!MoveSource(r), Locks!History(r),
         Locks!Finalization(r)}
  BY <1>1, <1>2, Ranks, GateRanks
<1>3. CASE l \in {Locks!Tasks, Locks!Intents, Locks!Notes, Locks!Catalog}
  BY <1>1, <1>3, Ranks
<1> QED BY <1>2, <1>3 DEF Locks!Locks

Climbs(D, s) == \A i, j \in 1..Len(s) : i < j => Rank(D, s[i]) < Rank(D, s[j])

\* The gates of a repository are taken in the order of their ranks.
LEMMA GatesClimb ==
  ASSUME NEW D \in Nat, Shallow(D), NEW r \in Repositories
  PROVE  /\ Climbs(D, Locks!Gates(r))
         /\ \A i \in 1..Len(Locks!Gates(r)) : /\ Rank(D, Locks!Gates(r)[i]) \in 2..(2 * D + 3)
                                              /\ ~Archive(r) => Rank(D, Locks!Gates(r)[i]) <= D + 2
                                              /\ Archive(r) => Rank(D, Locks!Gates(r)[i]) >= D + 3
<1>1. ASSUME NEW i \in 1..Len(Locks!Gates(r))
      PROVE  /\ Rank(D, Locks!Gates(r)[i]) = 2 + (i - 1) + (IF Archive(r) THEN D + 1 ELSE 0)
             /\ Rank(D, Locks!Gates(r)[i]) \in 2..(2 * D + 3)
             /\ ~Archive(r) => Rank(D, Locks!Gates(r)[i]) <= D + 2
             /\ Archive(r) => Rank(D, Locks!Gates(r)[i]) >= D + 3
  <2>1. PICK x \in Repositories :
            /\ Locks!Gates(r)[i] = Locks!Gate(x) /\ Locks!Depth(x) = i - 1
            /\ x = r \/ Locks!Inside(r, x)
            /\ \A k \in 1..(i - 1) : Containing[x][k] = Containing[r][k]
    BY GatesAre
  <2>2. Top(x) = Top(r)
    <3>1. CASE x = r
      BY <3>1
    <3>2. CASE x # r /\ i > 1
      <4>1. Locks!Depth(r) # 0
        BY <2>1, <3>2, InsideIs, RepositoriesShape
      <4> QED BY <4>1, <3>2, <2>1 DEF Top
    <3>3. CASE x # r /\ i = 1
      <4>1. PICK k \in 1..Locks!Depth(r) : x = Containing[r][k]
        BY <2>1, <3>3, InsideIs
      <4>2. k - 1 = 0 /\ Locks!Depth(r) # 0 /\ Locks!Depth(r) \in Nat
        BY <4>1, <2>1, <3>3, RepositoriesShape
      <4>3. k = 1 /\ Locks!Depth(x) = 0
        BY <4>1, <4>2, <2>1, <3>3, RepositoriesShape
      <4> QED BY <4>3, <4>1, <4>2 DEF Top
    <3> QED BY <3>1, <3>2, <3>3, GatesShape, RepositoriesShape
  <2>3. Archive(x) <=> Archive(r)
    BY <2>2 DEF Archive
  <2>4. Rank(D, Locks!Gates(r)[i]) = GateRank(D, x)
    BY <2>1, Ranks
  <2>5. GateRank(D, x) = 2 + (i - 1) + (IF Archive(r) THEN D + 1 ELSE 0)
    BY <2>1, <2>3 DEF GateRank
  <2> QED BY <2>3, <2>4, <2>5, GateRanks
<1>2. Climbs(D, Locks!Gates(r))
  <2>1. Len(Locks!Gates(r)) \in Nat
    BY GatesShape, RepositoriesShape
  <2> QED BY <1>1, <2>1 DEF Climbs
<1> QED BY <1>1, <1>2

\* A stack that climbs, on top of one that stays below it.
LEMMA ClimbsConcat ==
  ASSUME NEW D \in Nat, Shallow(D), NEW s \in Seq(Locks!Locks), NEW t \in Seq(Locks!Locks), Climbs(D, s),
           Climbs(D, t),
         \A i \in 1..Len(s) : \A j \in 1..Len(t) : Rank(D, s[i]) < Rank(D, t[j])
  PROVE  Climbs(D, s \o t)
<1> SUFFICES ASSUME NEW i \in 1..Len(s \o t), NEW j \in 1..Len(s \o t), i < j
             PROVE  Rank(D, (s \o t)[i]) < Rank(D, (s \o t)[j])
  BY DEF Climbs
<1>1. CASE j <= Len(s)
  <2>1. i \in 1..Len(s) /\ j \in 1..Len(s) /\ (s \o t)[i] = s[i] /\ (s \o t)[j] = s[j]
    BY <1>1
  <2> QED BY <2>1 DEF Climbs
<1>2. CASE i <= Len(s) /\ j > Len(s)
  <2>1. i \in 1..Len(s) /\ j - Len(s) \in 1..Len(t) /\ (s \o t)[i] = s[i] /\ (s \o t)[j] = t[j - Len(s)]
    BY <1>2
  <2> QED BY <2>1
<1>3. CASE i > Len(s)
  <2>1. /\ i - Len(s) \in 1..Len(t) /\ j - Len(s) \in 1..Len(t) /\ i - Len(s) < j - Len(s)
        /\ (s \o t)[i] = t[i - Len(s)] /\ (s \o t)[j] = t[j - Len(s)]
    BY <1>3
  <2> QED BY <2>1 DEF Climbs
<1> QED BY <1>1, <1>2, <1>3

-----------------------------------------------------------------------------
\* The command of every name.
LEMMA Scripts ==
  ASSUME NEW r
  PROVE  /\ Locks!Script(<<"git", r>>) = Locks!GitCommand(r)
         /\ Locks!Script(<<"lifecycle", r>>) = Locks!LifecycleCommand(r)
         /\ Locks!Script(<<"retire", r>>) = Locks!RetireCommand(r)
         /\ Locks!Script(<<"demote", r>>) = Locks!DemoteCommand(r)
         /\ Locks!Script(<<"graduate", r>>) = Locks!GraduateCommand(r)
         /\ Locks!Script(<<"enrol", r>>) = Locks!EnrolCommand(r)
         /\ Locks!Script(<<"forget", r>>) = Locks!ForgetCommand(r)
         /\ Locks!Script(<<"prepare", r>>) = Locks!PrepareCommand(r)
         /\ Locks!Script(<<"triage", r>>) = Locks!TriageCommand(r)
         /\ Locks!Script(<<"finalize", r>>) = Locks!FinalizeCommand(r)
BY DEF Locks!Script

RetireStack(r) == Locks!Gates(r) \o <<Locks!Tasks>> \o Locks!ChildGates(r)

\* The stacks of the commands that take their gates in the way of the others.
Regular(name, r) ==
  CASE name = "git" -> {Locks!Gates(r)}
    [] name = "lifecycle" -> {Locks!Gates(r) \o <<Locks!Tasks>>}
    [] name = "demote" -> {<<Locks!Asset(r)>> \o Locks!Gates(r) \o <<Locks!Tasks, Locks!Intents,
        Locks!Catalog>>}
    [] name = "graduate" -> {<<Locks!Asset(r)>> \o Locks!Gates(r) \o <<Locks!Catalog>>}
    [] name = "enrol" -> {<<Locks!MoveSource(r), Locks!Catalog>>,
        <<Locks!MoveSource(r), Locks!Asset(r)>> \o Locks!Gates(r) \o <<Locks!Catalog>>}
    [] name = "forget" -> {<<Locks!Tasks, Locks!Notes, Locks!Catalog>>}
    [] name = "finalize" -> {<<Locks!Finalization(r), Locks!Intents>>,
                             <<Locks!Finalization(r),
                                      Locks!History(r)>> \o Locks!Gates(r) \o Locks!Gates(ArchiveOf[r])}
    [] name = "prepare" -> {<<Locks!Gate(r), Locks!Intents>>}
    [] name = "triage" -> {<<Locks!Gate(r), Locks!Tasks>>}
    [] name = "retire" -> {RetireStack(r)}

\* Commands with one stack, with two and with three.
LEMMA OneStack == ASSUME NEW s PROVE Locks!ToSet(<<s>>) = {s}
<1>1. Len(<<s>>) = 1 /\ <<s>>[1] = s
  OBVIOUS
<1> QED BY <1>1 DEF Locks!ToSet

LEMMA TwoStacks == ASSUME NEW s, NEW t PROVE Locks!ToSet(<<s, t>>) = {s, t}
<1>1. Len(<<s, t>>) = 2 /\ <<s, t>>[1] = s /\ <<s, t>>[2] = t
  OBVIOUS
<1> QED BY <1>1 DEF Locks!ToSet

LEMMA ThreeStacks == ASSUME NEW s, NEW t, NEW u PROVE Locks!ToSet(<<s, t, u>>) = {s, t, u}
<1>1. Len(<<s, t, u>>) = 3 /\ <<s, t, u>>[1] = s /\ <<s, t, u>>[2] = t /\ <<s, t, u>>[3] = u
  OBVIOUS
<1> QED BY <1>1 DEF Locks!ToSet

\* The stacks of the commands.
LEMMA ScriptStacks ==
  ASSUME NEW name \in Locks!Names, NEW r
  PROVE  Stacks(<<name, r>>) = Regular(name, r)
<1>0. <<name, r>> # <<>>
  OBVIOUS
<1>1. Stacks(<<name, r>>) = Locks!ToSet(Locks!Script(<<name, r>>))
  BY <1>0 DEF Stacks
<1>2. CASE name = "git"
  BY <1>1, <1>2, Scripts, OneStack DEF Locks!GitCommand, Regular
<1>3. CASE name = "lifecycle"
  BY <1>1, <1>3, Scripts, OneStack DEF Locks!LifecycleCommand, Regular
<1>4. CASE name = "demote"
  BY <1>1, <1>4, Scripts, OneStack DEF Locks!DemoteCommand, Regular
<1>5. CASE name = "graduate"
  BY <1>1, <1>5, Scripts, OneStack DEF Locks!GraduateCommand, Regular
<1>6. CASE name = "enrol"
  BY <1>1, <1>6, Scripts, TwoStacks DEF Locks!EnrolCommand, Regular
<1>7. CASE name = "forget"
  BY <1>1, <1>7, Scripts, OneStack DEF Locks!ForgetCommand, Regular
<1>8. CASE name = "finalize"
  <2>1. {<<Locks!Finalization(r), Locks!Intents>>,
           <<Locks!Finalization(r), Locks!History(r)>> \o Locks!Gates(r) \o Locks!Gates(ArchiveOf[r]),
         <<Locks!Finalization(r), Locks!Intents>>} = Regular(name, r)
    BY <1>8 DEF Regular
  <2>2. Locks!ToSet(Locks!FinalizeCommand(r)) =
           {<<Locks!Finalization(r), Locks!Intents>>,
               <<Locks!Finalization(r), Locks!History(r)>> \o Locks!Gates(r) \o Locks!Gates(ArchiveOf[r]),
            <<Locks!Finalization(r), Locks!Intents>>}
    BY ThreeStacks DEF Locks!FinalizeCommand
  <2>3. Stacks(<<name, r>>) = Locks!ToSet(Locks!FinalizeCommand(r))
    BY <1>1, <1>8, Scripts
  <2> QED BY <2>1, <2>2, <2>3
<1>9. CASE name = "prepare"
  BY <1>1, <1>9, Scripts, OneStack DEF Locks!PrepareCommand, Regular
<1>10. CASE name = "triage"
  BY <1>1, <1>10, Scripts, OneStack DEF Locks!TriageCommand, Regular
<1>11. CASE name = "retire"
  BY <1>1, <1>11, Scripts, OneStack DEF Locks!RetireCommand, RetireStack, Regular
<1> QED
  BY <1>2, <1>3, <1>4, <1>5, <1>6, <1>7, <1>8, <1>9, <1>10, <1>11 DEF Locks!Names

\* What holds of the stacks of a command: locks of the host, one above the other.
LEMMA Singles ==
  ASSUME NEW a \in Locks!Locks
  PROVE  /\ <<a>> \in Seq(Locks!Locks) /\ Len(<<a>>) = 1 /\ <<a>>[1] = a
         /\ \A D : Climbs(D, <<a>>)
         /\ (\A x : a # Locks!Gate(x)) => Nested(<<a>>)
<1>1. <<a>> \in Seq(Locks!Locks) /\ Len(<<a>>) = 1 /\ <<a>>[1] = a
  OBVIOUS
<1>2. \A i, j \in 1..1 : ~(i < j)
  OBVIOUS
<1>3. \A i \in 1..1 : i = 1
  OBVIOUS
<1> HIDE <1>2, <1>3
<1>4. \A D : Climbs(D, <<a>>)
  BY <1>1, <1>2 DEF Climbs
<1>5. (\A x : a # Locks!Gate(x)) => Nested(<<a>>)
  BY <1>1, <1>3 DEF Nested
<1> QED BY <1>1, <1>4, <1>5

\* The other locks are not gates.
LEMMA NotGates ==
  /\ \A x : Locks!Tasks # Locks!Gate(x) /\ Locks!Intents # Locks!Gate(x) /\ Locks!Notes # Locks!Gate(x) /\
       Locks!Catalog # Locks!Gate(x)
  /\ \A x, r : Locks!Asset(r) # Locks!Gate(x) /\ Locks!MoveSource(r) # Locks!Gate(x) /\
       Locks!History(r) # Locks!Gate(x) /\ Locks!Finalization(r) # Locks!Gate(x)
BY
   DEF Locks!Tasks, Locks!Intents, Locks!Notes, Locks!Catalog, Locks!Asset, Locks!MoveSource,
       Locks!History, Locks!Finalization, Locks!Gate

\* The locks of the host.
LEMMA LocksAre ==
  /\ Locks!Tasks \in Locks!Locks /\ Locks!Intents \in Locks!Locks /\ Locks!Notes \in Locks!Locks /\
       Locks!Catalog \in Locks!Locks
  /\ \A r \in Repositories : /\ Locks!Gate(r) \in Locks!Locks /\ Locks!Asset(r) \in Locks!Locks /\
                                  Locks!MoveSource(r) \in Locks!Locks
                             /\ Locks!History(r) \in Locks!Locks /\ Locks!Finalization(r) \in Locks!Locks
BY DEF Locks!Locks

\* A stack of two locks.
LEMMA Pairs ==
  ASSUME NEW D \in Nat, Shallow(D), NEW a \in Locks!Locks, NEW b \in Locks!Locks, Rank(D, a) < Rank(D, b)
  PROVE  /\ <<a, b>> \in Seq(Locks!Locks) /\ Len(<<a, b>>) = 2 /\ <<a, b>>[1] = a /\ <<a, b>>[2] = b
         /\ Climbs(D, <<a, b>>)
         /\ (\A x : a # Locks!Gate(x) /\ b # Locks!Gate(x)) => Nested(<<a, b>>)
<1>1. <<a, b>> \in Seq(Locks!Locks) /\ Len(<<a, b>>) = 2 /\ <<a, b>>[1] = a /\ <<a, b>>[2] = b
  OBVIOUS
<1>2. \A i, j \in 1..2 : i < j => i = 1 /\ j = 2
  OBVIOUS
<1>3. \A i \in 1..2 : i = 1 \/ i = 2
  OBVIOUS
<1>4. Climbs(D, <<a, b>>)
  BY <1>1, <1>2 DEF Climbs
<1>5. (\A x : a # Locks!Gate(x) /\ b # Locks!Gate(x)) => Nested(<<a, b>>)
  BY <1>1, <1>3 DEF Nested
<1> QED BY <1>1, <1>4, <1>5

\* A stack of three locks.
LEMMA Triples ==
  ASSUME NEW D \in Nat, Shallow(D), NEW a \in Locks!Locks, NEW b \in Locks!Locks, NEW c \in Locks!Locks,
         Rank(D, a) < Rank(D, b), Rank(D, b) < Rank(D, c)
  PROVE  /\ <<a, b, c>> \in Seq(Locks!Locks) /\ Len(<<a, b, c>>) = 3
         /\ <<a, b, c>>[1] = a /\ <<a, b, c>>[2] = b /\ <<a, b, c>>[3] = c
         /\ Climbs(D, <<a, b, c>>)
         /\ (\A x : a # Locks!Gate(x) /\ b # Locks!Gate(x) /\ c # Locks!Gate(x)) => Nested(<<a, b, c>>)
<1>1. /\ <<a, b, c>> \in Seq(Locks!Locks) /\ Len(<<a, b, c>>) = 3
      /\ <<a, b, c>>[1] = a /\ <<a, b, c>>[2] = b /\ <<a, b, c>>[3] = c
  OBVIOUS
<1>2. \A i, j \in 1..3 : i < j => (i = 1 /\ j = 2) \/ (i = 1 /\ j = 3) \/ (i = 2 /\ j = 3)
  OBVIOUS
<1>3. \A i \in 1..3 : i = 1 \/ i = 2 \/ i = 3
  OBVIOUS
<1>4. Rank(D, a) < Rank(D, c)
  BY RankType DEF TasksRank
<1>5. Climbs(D, <<a, b, c>>)
  BY <1>1, <1>2, <1>4 DEF Climbs
<1>6. (\A x : a # Locks!Gate(x) /\ b # Locks!Gate(x) /\ c # Locks!Gate(x)) => Nested(<<a, b, c>>)
  BY <1>1, <1>3 DEF Nested
<1> QED BY <1>1, <1>5, <1>6

\* A gate command under a lock below the gates, with locks above them behind.
LEMMA Between ==
  ASSUME NEW D \in Nat, Shallow(D), NEW r \in Repositories,
         NEW a \in Seq(Locks!Locks), NEW b \in Seq(Locks!Locks), Climbs(D, a), Climbs(D, b), Nested(a),
             Nested(b),
         \A i \in 1..Len(a) : Rank(D, a[i]) < 2, \A i \in 1..Len(b) : Rank(D, b[i]) > 2 * D + 3
  PROVE  /\ a \o Locks!Gates(r) \o b \in Seq(Locks!Locks)
         /\ Climbs(D, a \o Locks!Gates(r) \o b)
         /\ Nested(a \o Locks!Gates(r) \o b)
<1> DEFINE g == Locks!Gates(r)
<1>1. g \in Seq(Locks!Locks) /\ Climbs(D, g) /\ Nested(g)
  BY GatesShape, GatesClimb, GatesNested
<1>2. \A i \in 1..Len(g) : Rank(D, g[i]) \in 2..(2 * D + 3)
  BY GatesClimb
<1> HIDE DEF g
<1>3. \A i \in 1..Len(a) : a[i] \in Locks!Locks /\ Rank(D, a[i]) \in Int
  BY RankType DEF TasksRank
<1>4. a \o g \in Seq(Locks!Locks) /\ Climbs(D, a \o g) /\ Nested(a \o g)
  <2>1. \A i \in 1..Len(a) : \A j \in 1..Len(g) : Rank(D, a[i]) < Rank(D, g[j])
    BY <1>2, <1>3
  <2> QED BY <2>1, <1>1, ClimbsConcat, NestedConcat
<1>5. \A i \in 1..Len(a \o g) : Rank(D, (a \o g)[i]) <= 2 * D + 3
  <2> SUFFICES ASSUME NEW i \in 1..Len(a \o g) PROVE Rank(D, (a \o g)[i]) <= 2 * D + 3
    OBVIOUS
  <2>1. CASE i <= Len(a)
    <3>1. (a \o g)[i] = a[i] /\ i \in 1..Len(a)
      BY <2>1, <1>1
    <3> QED BY <3>1, <1>3
  <2>2. CASE i > Len(a)
    <3>1. (a \o g)[i] = g[i - Len(a)] /\ i - Len(a) \in 1..Len(g)
      BY <2>2, <1>1
    <3> QED BY <3>1, <1>2
  <2> QED BY <2>1, <2>2, <1>1
<1>6. \A i \in 1..Len(b) : Rank(D, b[i]) \in Int
  BY RankType DEF TasksRank
<1>7. \A i \in 1..Len(a \o g) : (a \o g)[i] \in Locks!Locks /\ Rank(D, (a \o g)[i]) \in Int
  BY <1>4, RankType DEF TasksRank
<1>8. \A i \in 1..Len(a \o g) : \A j \in 1..Len(b) : Rank(D, (a \o g)[i]) < Rank(D, b[j])
  BY <1>5, <1>6, <1>7
<1>9. (a \o g) \o b \in Seq(Locks!Locks) /\ Climbs(D, (a \o g) \o b) /\ Nested((a \o g) \o b)
  <2> DEFINE h == a \o g
  <2>1. h \in Seq(Locks!Locks) /\ Climbs(D, h) /\ Nested(h)
    BY <1>4
  <2>2. \A i \in 1..Len(h) : \A j \in 1..Len(b) : Rank(D, h[i]) < Rank(D, b[j])
    BY <1>8
  <2> HIDE DEF h
  <2>3. h \o b \in Seq(Locks!Locks)
    BY <2>1
  <2>4. Climbs(D, h \o b)
    BY <2>1, <2>2, ClimbsConcat
  <2>5. Nested(h \o b)
    BY <2>1, NestedConcat
  <2> QED BY <2>3, <2>4, <2>5 DEF h
<1> QED BY <1>9 DEF g

\* An empty stack.
LEMMA EmptyStack == <<>> \in Seq(Locks!Locks) /\ Nested(<<>>) /\ (\A D : Climbs(D, <<>>)) /\ Len(<<>>) = 0
<1>1. <<>> \in Seq(Locks!Locks) /\ Len(<<>>) = 0 /\ 1..0 = {}
  OBVIOUS
<1> QED BY <1>1 DEF Nested, Climbs

Well(D, name, s) ==
  /\ s \in Seq(Locks!Locks)
  /\ ArchivesApart => Climbs(D, s)
  /\ name \notin {"prepare", "triage"} => Nested(s)

\* The same in one word.
LEMMA WellBetween ==
  ASSUME NEW D \in Nat, Shallow(D), NEW r \in Repositories, NEW name,
         NEW a \in Seq(Locks!Locks), NEW b \in Seq(Locks!Locks), Climbs(D, a), Climbs(D, b), Nested(a),
             Nested(b),
         \A i \in 1..Len(a) : Rank(D, a[i]) < 2, \A i \in 1..Len(b) : Rank(D, b[i]) > 2 * D + 3
  PROVE  Well(D, name, a \o Locks!Gates(r) \o b)
BY Between DEF Well

\* What stands above the gates.
LEMMA Above ==
  ASSUME NEW D \in Nat, Shallow(D), NEW b \in {<<>>, <<Locks!Tasks>>, <<Locks!Catalog>>,
           <<Locks!Tasks, Locks!Intents, Locks!Catalog>>}
  PROVE  /\ b \in Seq(Locks!Locks) /\ Climbs(D, b) /\ Nested(b)
         /\ \A i \in 1..Len(b) : Rank(D, b[i]) > 2 * D + 3
<1>0. TasksRank(D) = 2 * D + 5 /\ D \in Int
  BY DEF TasksRank
<1>1. CASE b = <<>>
  <2>1. \A i \in 1..Len(b) : FALSE
    BY <1>1
  <2> QED BY <1>1, <2>1, EmptyStack
<1>2. CASE b = <<Locks!Tasks>>
  <2>1. b \in Seq(Locks!Locks) /\ Climbs(D, b) /\ Nested(b) /\ Len(b) = 1 /\ b[1] = Locks!Tasks
    BY <1>2, Singles, NotGates, LocksAre
  <2>2. Rank(D, Locks!Tasks) > 2 * D + 3
    BY <1>0, Ranks
  <2> QED BY <2>1, <2>2
<1>3. CASE b = <<Locks!Catalog>>
  <2>1. b \in Seq(Locks!Locks) /\ Climbs(D, b) /\ Nested(b) /\ Len(b) = 1 /\ b[1] = Locks!Catalog
    BY <1>3, Singles, NotGates, LocksAre
  <2>2. Rank(D, Locks!Catalog) > 2 * D + 3
    BY <1>0, Ranks
  <2> QED BY <2>1, <2>2
<1>4. CASE b = <<Locks!Tasks, Locks!Intents, Locks!Catalog>>
  <2>1. /\ Rank(D, Locks!Tasks) < Rank(D, Locks!Intents) /\ Rank(D, Locks!Intents) < Rank(D, Locks!Catalog)
        /\ Rank(D, Locks!Tasks) > 2 * D + 3 /\ Rank(D, Locks!Intents) > 2 * D + 3 /\
             Rank(D, Locks!Catalog) > 2 * D + 3
    BY <1>0, Ranks
  <2>2. /\ b \in Seq(Locks!Locks) /\ Climbs(D, b) /\ Nested(b) /\ Len(b) = 3
        /\ b[1] = Locks!Tasks /\ b[2] = Locks!Intents /\ b[3] = Locks!Catalog
    <3> HIDE <1>0
    <3>1. /\ b \in Seq(Locks!Locks) /\ Climbs(D, b) /\ Len(b) = 3
          /\ b[1] = Locks!Tasks /\ b[2] = Locks!Intents /\ b[3] = Locks!Catalog
          /\ (\A x : Locks!Tasks # Locks!Gate(x) /\ Locks!Intents # Locks!Gate(x) /\
               Locks!Catalog # Locks!Gate(x)) => Nested(b)
      BY <1>4, <2>1, Triples, LocksAre
    <3> QED BY <3>1, NotGates
  <2>3. \A i \in 1..3 : i = 1 \/ i = 2 \/ i = 3
    OBVIOUS
  <2> QED BY <2>1, <2>2, <2>3
<1> QED BY <1>1, <1>2, <1>3, <1>4

\* What stands below them.
LEMMA Below ==
  ASSUME NEW D \in Nat, Shallow(D), NEW r \in Repositories,
         NEW a \in {<<>>, <<Locks!Asset(r)>>, <<Locks!MoveSource(r), Locks!Asset(r)>>,
             <<Locks!Finalization(r), Locks!History(r)>>}
  PROVE  /\ a \in Seq(Locks!Locks) /\ Climbs(D, a) /\ Nested(a)
         /\ \A i \in 1..Len(a) : Rank(D, a[i]) < 2
<1>1. CASE a = <<>>
  <2>1. \A i \in 1..Len(a) : FALSE
    BY <1>1
  <2> QED BY <1>1, <2>1, EmptyStack
<1>2. CASE a = <<Locks!Asset(r)>>
  <2>1. a \in Seq(Locks!Locks) /\ Climbs(D, a) /\ Nested(a) /\ Len(a) = 1 /\ a[1] = Locks!Asset(r)
    BY <1>2, Singles, NotGates, LocksAre
  <2>2. Rank(D, Locks!Asset(r)) = 1
    BY Ranks
  <2>3. \A i \in 1..1 : i = 1
    OBVIOUS
  <2> QED BY <2>1, <2>2, <2>3
<1>3. ASSUME NEW x \in Locks!Locks, NEW y \in Locks!Locks, a = <<x, y>>, Rank(D, x) = 0, Rank(D, y) = 1,
             \A z : x # Locks!Gate(z) /\ y # Locks!Gate(z)
      PROVE  /\ a \in Seq(Locks!Locks) /\ Climbs(D, a) /\ Nested(a)
             /\ \A i \in 1..Len(a) : Rank(D, a[i]) < 2
  <2>0. Rank(D, x) < Rank(D, y)
    BY <1>3
  <2>1. a \in Seq(Locks!Locks) /\ Climbs(D, a) /\ Nested(a) /\ Len(a) = 2 /\ a[1] = x /\ a[2] = y
    BY <1>3, <2>0, Pairs
  <2>2. \A i \in 1..2 : i = 1 \/ i = 2
    OBVIOUS
  <2> QED BY <2>1, <2>2, <1>3
<1>4. CASE a = <<Locks!MoveSource(r), Locks!Asset(r)>>
  BY <1>3, <1>4, NotGates, LocksAre, Ranks
<1>5. CASE a = <<Locks!Finalization(r), Locks!History(r)>>
  BY <1>3, <1>5, NotGates, LocksAre, Ranks
<1> QED BY <1>1, <1>2, <1>4, <1>5

\* In every stack but that of a removal each lock stands above the ones before it.
LEMMA WellStacks ==
  ASSUME NEW D \in Nat, Shallow(D),
         NEW name \in Locks!Names \ {"retire"}, NEW r \in Repositories,
         name = "finalize" => r \in DOMAIN ArchiveOf,
         NEW s \in Regular(name, r)
  PROVE  Well(D, name, s)
<1> DEFINE g == Locks!Gates(r)
<1>0. g \in Seq(Locks!Locks) /\ <<>> \in Seq(Locks!Locks) /\ <<>> \o g = g /\ g \o <<>> = g
  BY GatesShape
<1>1. CASE name = "git"
  <2>1. s = <<>> \o Locks!Gates(r) \o <<>>
    BY <1>1, <1>0 DEF Regular
  <2> QED BY <2>1, Above, Below, WellBetween
<1>2. CASE name = "lifecycle"
  <2>1. s = <<>> \o Locks!Gates(r) \o <<Locks!Tasks>>
    BY <1>2, <1>0 DEF Regular
  <2> QED BY <2>1, Above, Below, WellBetween
<1>3. CASE name = "demote"
  <2>1. s = <<Locks!Asset(r)>> \o Locks!Gates(r) \o <<Locks!Tasks, Locks!Intents, Locks!Catalog>>
    BY <1>3 DEF Regular
  <2> QED BY <2>1, Above, Below, WellBetween
<1>4. CASE name = "graduate"
  <2>1. s = <<Locks!Asset(r)>> \o Locks!Gates(r) \o <<Locks!Catalog>>
    BY <1>4 DEF Regular
  <2> QED BY <2>1, Above, Below, WellBetween
<1>5. CASE name = "enrol" /\ s = <<Locks!MoveSource(r), Locks!Asset(r)>> \o Locks!Gates(r) \o <<Locks!Catalog>>
  BY <1>5, Above, Below, WellBetween
<1>6. CASE name = "enrol" /\ s = <<Locks!MoveSource(r), Locks!Catalog>>
  <2>1. Rank(D, Locks!MoveSource(r)) < Rank(D, Locks!Catalog)
    BY Ranks DEF TasksRank
  <2> QED BY <2>1, <1>6, Pairs, NotGates, LocksAre DEF Well
<1>7. CASE name = "forget"
  <2>1. Rank(D, Locks!Tasks) < Rank(D, Locks!Notes) /\ Rank(D, Locks!Notes) < Rank(D, Locks!Catalog)
    BY Ranks DEF TasksRank
  <2>2. s = <<Locks!Tasks, Locks!Notes, Locks!Catalog>>
    BY <1>7 DEF Regular
  <2> QED BY <2>1, <2>2, Triples, NotGates, LocksAre DEF Well
<1>8. CASE name = "finalize" /\ s = <<Locks!Finalization(r), Locks!Intents>>
  <2>1. Rank(D, Locks!Finalization(r)) < Rank(D, Locks!Intents)
    BY Ranks DEF TasksRank
  <2> QED BY <2>1, <1>8, Pairs, NotGates, LocksAre DEF Well
<1>9. CASE name = "finalize" /\ s = <<Locks!Finalization(r),
         Locks!History(r)>> \o Locks!Gates(r) \o Locks!Gates(ArchiveOf[r])
  <2>1. r \in DOMAIN ArchiveOf /\ ArchiveOf[r] \in Repositories
    BY <1>9, LocksAssumption DEF Locks!LocksAssumption, Locks!CommandsAssumption
  <2> DEFINE a == <<Locks!Finalization(r), Locks!History(r)>> o == Locks!Gates(ArchiveOf[r])
  <2>3. a \in Seq(Locks!Locks) /\ Climbs(D, a) /\ Nested(a) /\ \A i \in 1..Len(a) : Rank(D, a[i]) < 2
    BY Below
  <2>4. /\ g \in Seq(Locks!Locks) /\ Climbs(D, g) /\ Nested(g)
        /\ \A i \in 1..Len(g) : Rank(D, g[i]) \in 2..(2 * D + 3)
    BY GatesShape, GatesClimb, GatesNested
  <2>5. /\ o \in Seq(Locks!Locks) /\ Climbs(D, o) /\ Nested(o)
    BY <2>1, GatesShape, GatesClimb, GatesNested
  <2>2. ASSUME ArchivesApart
        PROVE  /\ \A i \in 1..Len(g) : Rank(D, g[i]) <= D + 2
               /\ \A i \in 1..Len(o) : Rank(D, o[i]) \in (D + 3)..(2 * D + 3)
    <3>1. ~Archive(r) /\ Archive(ArchiveOf[r])
      BY <2>1, <2>2 DEF Archive, ArchivesApart
    <3> QED BY <3>1, <2>1, GatesClimb
  <2> HIDE DEF a, g, o
  <2>6. \A i \in 1..Len(a) : Rank(D, a[i]) \in Int
    BY <2>3, RankType DEF TasksRank
  <2> DEFINE h == a \o g
  <2>7. h \in Seq(Locks!Locks) /\ Climbs(D, h) /\ Nested(h)
    <3>1. \A i \in 1..Len(a) : \A j \in 1..Len(g) : Rank(D, a[i]) < Rank(D, g[j])
      BY <2>3, <2>4, <2>6
    <3> QED BY <3>1, <2>3, <2>4, ClimbsConcat, NestedConcat
  <2>8. ASSUME ArchivesApart
        PROVE  \A i \in 1..Len(h) : Rank(D, h[i]) \in Int /\ Rank(D, h[i]) <= D + 2
    <3> SUFFICES ASSUME NEW i \in 1..Len(a \o g) PROVE Rank(D, (a \o g)[i]) \in Int /\
             Rank(D, (a \o g)[i]) <= D + 2
      OBVIOUS
    <3>1. CASE i <= Len(a)
      <4>1. (a \o g)[i] = a[i] /\ i \in 1..Len(a)
        BY <3>1, <2>3, <2>4
      <4> QED BY <4>1, <2>3, <2>6
    <3>2. CASE i > Len(a)
      <4>1. (a \o g)[i] = g[i - Len(a)] /\ i - Len(a) \in 1..Len(g)
        BY <3>2, <2>3, <2>4
      <4> QED BY <4>1, <2>4, <2>2, <2>8
    <3> QED BY <3>1, <3>2, <2>3, <2>4
  <2>9. s = h \o o
    BY <1>9 DEF h, a, g, o
  <2> HIDE DEF h
  <2>10. ASSUME ArchivesApart PROVE \A i \in 1..Len(h) : \A j \in 1..Len(o) : Rank(D, h[i]) < Rank(D, o[j])
    BY <2>2, <2>8, <2>10
  <2>11. h \o o \in Seq(Locks!Locks)
    BY <2>5, <2>7
  <2>12. ArchivesApart => Climbs(D, h \o o)
    BY <2>5, <2>7, <2>10, ClimbsConcat
  <2>13. Nested(h \o o)
    BY <2>5, <2>7, NestedConcat
  <2> QED BY <2>9, <2>11, <2>12, <2>13 DEF Well
<1>10. CASE name = "prepare"
  <2>1. Rank(D, Locks!Gate(r)) < Rank(D, Locks!Intents)
    BY Ranks, GateRanks DEF TasksRank
  <2>2. s = <<Locks!Gate(r), Locks!Intents>>
    BY <1>10 DEF Regular
  <2> QED BY <2>1, <2>2, <1>10, Pairs, LocksAre DEF Well
<1>11. CASE name = "triage"
  <2>1. Rank(D, Locks!Gate(r)) < Rank(D, Locks!Tasks)
    BY Ranks, GateRanks DEF TasksRank
  <2>2. s = <<Locks!Gate(r), Locks!Tasks>>
    BY <1>11 DEF Regular
  <2> QED BY <2>1, <2>2, <1>11, Pairs, LocksAre DEF Well
<1>12. \/ name \in {"git", "lifecycle", "demote", "graduate", "forget", "prepare", "triage"}
       \/ name = "enrol" /\ (s = <<Locks!MoveSource(r), Locks!Asset(r)>> \o Locks!Gates(r) \o <<Locks!Catalog>> \/
            s = <<Locks!MoveSource(r), Locks!Catalog>>)
       \/ name = "finalize" /\ (\/ s = <<Locks!Finalization(r), Locks!Intents>>
                                \/ s = <<Locks!Finalization(r),
                                     Locks!History(r)>> \o Locks!Gates(r) \o Locks!Gates(ArchiveOf[r]))
  <2>1. CASE name = "enrol"
    BY <2>1 DEF Regular
  <2>2. CASE name = "finalize"
    BY <2>2 DEF Regular
  <2> QED BY <2>1, <2>2 DEF Locks!Names
<1> QED
  BY <1>1, <1>2, <1>3, <1>4, <1>5, <1>6, <1>7, <1>8, <1>9, <1>10, <1>11, <1>12

\* The elements of a concatenation.
LEMMA Concat ==
  ASSUME NEW X, NEW s \in Seq(X), NEW t \in Seq(X)
  PROVE  /\ s \o t \in Seq(X) /\ Len(s \o t) = Len(s) + Len(t)
         /\ Len(s) \in Nat /\ Len(t) \in Nat
         /\ \A i \in 1..Len(s) : (s \o t)[i] = s[i]
         /\ \A i \in 1..Len(t) : (s \o t)[Len(s) + i] = t[i]
OBVIOUS

\* The stack of a removal: gates, task store, gates of the submodules.
LEMMA RetireShape ==
  ASSUME NEW r \in Repositories
  PROVE  /\ RetireStack(r) \in Seq(Locks!Locks)
         /\ Len(RetireStack(r)) = Locks!Depth(r) + 2 + Len(Initialized[r])
         /\ \A i \in 1..(Locks!Depth(r) + 1) : RetireStack(r)[i] = Locks!Gates(r)[i]
         /\ RetireStack(r)[Locks!Depth(r) + 2] = Locks!Tasks
         /\ \A i \in (Locks!Depth(r) + 3)..Len(RetireStack(r)) :
               /\ i - (Locks!Depth(r) + 2) \in 1..Len(Initialized[r])
               /\ RetireStack(r)[i] = Locks!Gate(Initialized[r][i - (Locks!Depth(r) + 2)])
<1> DEFINE g == Locks!Gates(r) t == <<Locks!Tasks>> c == Locks!ChildGates(r) d == Locks!Depth(r)
<1>1. d \in Nat /\ g \in Seq(Locks!Locks) /\ Len(g) = d + 1
  BY GatesShape, RepositoriesShape
<1>2. t \in Seq(Locks!Locks) /\ Len(t) = 1 /\ t[1] = Locks!Tasks
  BY Singles, LocksAre
<1>3. Initialized[r] \in Seq(Repositories)
  BY LocksAssumption DEF Locks!LocksAssumption, Locks!InitializedAssumption
<1>4. /\ c \in Seq(Locks!Locks) /\ Len(c) = Len(Initialized[r])
      /\ \A i \in 1..Len(Initialized[r]) : c[i] = Locks!Gate(Initialized[r][i])
  BY <1>3, LocksAre DEF Locks!ChildGates
<1>5. RetireStack(r) = g \o t \o c
  BY DEF RetireStack
<1> HIDE DEF g, t, c, d
<1> DEFINE h == g \o t
<1>6. h \in Seq(Locks!Locks) /\ Len(h) = d + 2 /\ h[d + 2] = Locks!Tasks /\ \A i \in 1..(d + 1) : h[i] = g[i]
  <2>1. /\ h \in Seq(Locks!Locks) /\ Len(h) = Len(g) + Len(t)
        /\ \A i \in 1..Len(g) : h[i] = g[i]
        /\ \A i \in 1..Len(t) : h[Len(g) + i] = t[i]
    BY <1>1, <1>2, Concat
  <2>2. h[Len(g) + 1] = t[1]
    BY <2>1, <1>2
  <2>3. Len(g) + 1 = d + 2
    BY <1>1
  <2> QED BY <2>1, <2>2, <2>3, <1>1, <1>2
<1>7. RetireStack(r) = h \o c
  BY <1>5
<1> HIDE DEF h
<1>8. h \o c \in Seq(Locks!Locks) /\ Len(h \o c) = d + 2 + Len(Initialized[r])
  <2>1. h \o c \in Seq(Locks!Locks) /\ Len(h \o c) = Len(h) + Len(c)
    BY <1>4, <1>6
  <2> QED BY <2>1, <1>4, <1>6
<1>9. /\ \A i \in 1..(d + 1) : (h \o c)[i] = g[i]
      /\ (h \o c)[d + 2] = Locks!Tasks
  BY <1>1, <1>4, <1>6
<1>10. \A i \in (d + 3)..Len(h \o c) :
          i - (d + 2) \in 1..Len(Initialized[r]) /\ (h \o c)[i] = Locks!Gate(Initialized[r][i - (d + 2)])
  <2> TAKE i \in (d + 3)..Len(h \o c)
  <2>0. Len(c) \in Nat /\ Len(h) = d + 2 /\ Len(h \o c) = d + 2 + Len(c)
    BY <1>3, <1>4, <1>6, <1>8
  <2>1. i - (d + 2) \in 1..Len(c) /\ Len(h) + (i - (d + 2)) = i
    BY <2>0, <1>1
  <2>2. (h \o c)[Len(h) + (i - (d + 2))] = c[i - (d + 2)]
    BY <2>1, <1>4, <1>6, Concat
  <2>3. (h \o c)[i] = c[i - (d + 2)]
    BY <2>1, <2>2
  <2> QED BY <2>1, <2>3, <1>4
<1> QED BY <1>7, <1>8, <1>9, <1>10 DEF g, d

\* The end of a removal's stack: gates of repositories inside its own.
LEMMA RetireTail ==
  ASSUME NEW D \in Nat, Shallow(D), NEW r \in Repositories
  PROVE  /\ \A i, j \in 1..(Locks!Depth(r) + 2) : i < j =>
              Rank(D, RetireStack(r)[i]) < Rank(D, RetireStack(r)[j])
         /\ \A i \in 1..(Locks!Depth(r) + 1) : /\ \E x \in Repositories : RetireStack(r)[i] = Locks!Gate(x)
                                               /\ Rank(D, RetireStack(r)[i]) \in 2..(2 * D + 3)
         /\ \A i \in (Locks!Depth(r) + 3)..Len(RetireStack(r)) :
               /\ \E x \in Repositories : RetireStack(r)[i] = Locks!Gate(x) /\ Locks!Inside(x, r)
               /\ \A j \in 1..(i - 1) : RetireStack(r)[j] # RetireStack(r)[i]
<1> DEFINE d == Locks!Depth(r) s == RetireStack(r)
<1>0. d \in Nat /\ Len(Locks!Gates(r)) = d + 1
  BY RepositoriesShape, GatesShape
<1>1. ASSUME NEW i \in 1..(d + 1)
      PROVE  /\ s[i] = Locks!Gates(r)[i]
             /\ \E x \in Repositories : s[i] = Locks!Gate(x) /\ (x = r \/ Locks!Inside(r, x)) /\
                  Locks!Depth(x) = i - 1
             /\ Rank(D, s[i]) \in 2..(2 * D + 3)
  <2>1. s[i] = Locks!Gates(r)[i] /\ i \in 1..Len(Locks!Gates(r))
    BY <1>0, RetireShape
  <2>2. PICK x \in Repositories : Locks!Gates(r)[i] = Locks!Gate(x) /\ (x = r \/ Locks!Inside(r, x)) /\
           Locks!Depth(x) = i - 1
    BY <2>1, GatesAre
  <2> QED BY <2>1, <2>2, GatesClimb
<1>2. Rank(D, s[d + 2]) = 2 * D + 5
  BY RetireShape, Ranks DEF TasksRank
<1>3. \A i, j \in 1..(d + 2) : i < j => Rank(D, s[i]) < Rank(D, s[j])
  <2> SUFFICES ASSUME NEW i \in 1..(d + 2), NEW j \in 1..(d + 2), i < j PROVE Rank(D, s[i]) < Rank(D, s[j])
    OBVIOUS
  <2>1. i \in 1..(d + 1) /\ i \in 1..Len(Locks!Gates(r))
    BY <1>0
  <2>2. CASE j = d + 2
    BY <2>1, <2>2, <1>1, <1>2
  <2>3. CASE j # d + 2
    <3>1. j \in 1..(d + 1) /\ j \in 1..Len(Locks!Gates(r))
      BY <2>3, <1>0
    <3>2. Climbs(D, Locks!Gates(r))
      BY GatesClimb
    <3>3. Rank(D, Locks!Gates(r)[i]) < Rank(D, Locks!Gates(r)[j])
      BY <3>1, <3>2, <2>1 DEF Climbs
    <3> QED BY <3>1, <3>3, <2>1, <1>1
  <2> QED BY <2>2, <2>3
<1>4. ASSUME NEW i \in (d + 3)..Len(s)
      PROVE  /\ \E x \in Repositories : s[i] = Locks!Gate(x) /\ Locks!Inside(x, r)
             /\ \A j \in 1..(i - 1) : s[j] # s[i]
  <2> DEFINE n == Initialized[r] k == i - (d + 2)
  <2>0. n \in Seq(Repositories) /\ Len(n) \in Nat
    BY LocksAssumption DEF Locks!LocksAssumption, Locks!InitializedAssumption
  <2>1. k \in 1..Len(n) /\ s[i] = Locks!Gate(n[k])
    BY RetireShape
  <2>2. n[k] \in Repositories /\ n[k] \in Locks!ToSet(n)
    BY <2>0, <2>1, ToSetIs
  <2>3. /\ \A x \in Locks!ToSet(n) : Locks!Inside(x, r)
        /\ \A a, b \in 1..Len(n) : n[a] = n[b] => a = b
    BY LocksAssumption DEF Locks!LocksAssumption, Locks!InitializedAssumption
  <2>4. Locks!Inside(n[k], r)
    BY <2>2, <2>3
  <2>5. PICK m \in 1..Locks!Depth(n[k]) : r = Containing[n[k]][m]
    BY <2>2, <2>4, InsideIs
  <2>6. d < Locks!Depth(n[k]) /\ Locks!Depth(n[k]) \in Nat
    <3>1. Locks!Depth(n[k]) \in Nat /\ Locks!Depth(Containing[n[k]][m]) = m - 1
      BY <2>2, RepositoriesShape
    <3>2. d = m - 1
      BY <3>1, <2>5
    <3> QED BY <3>1, <3>2
  <2>7. ASSUME NEW j \in 1..(i - 1), s[j] = s[i] PROVE FALSE
    <3>1. CASE j \in 1..(d + 1)
      <4>1. PICK x \in Repositories : s[j] = Locks!Gate(x) /\ Locks!Depth(x) = j - 1
        BY <1>1, <3>1
      <4>2. x = n[k]
        BY <4>1, <2>7, <2>1, SameGate
      <4>3. j - 1 <= d
        BY <3>1, <1>0
      <4> QED BY <4>1, <4>2, <4>3, <2>6, <1>0
    <3>2. CASE j = d + 2
      BY <3>2, <2>1, <2>7, RetireShape, NotGates
    <3>3. CASE j > d + 2
      <4>0. Len(s) = d + 2 + Len(n)
        BY RetireShape
      <4>1. j \in (d + 3)..Len(s) /\ j < i
        BY <4>0, <3>3, <1>0, <2>0
      <4>2. j - (d + 2) \in 1..Len(n) /\ s[j] = Locks!Gate(n[j - (d + 2)])
        BY <4>1, RetireShape
      <4>3. n[j - (d + 2)] = n[k]
        BY <4>2, <2>1, <2>7, SameGate
      <4>4. j - (d + 2) = k
        BY <4>2, <4>3, <2>1, <2>3
      <4> QED BY <4>1, <4>4, <1>0
    <3> QED BY <3>1, <3>2, <3>3, <1>0
  <2> QED BY <2>1, <2>2, <2>4, <2>7
<1> QED BY <1>1, <1>3, <1>4

-----------------------------------------------------------------------------
\* A path has fewer repositories around it than there are.
LEMMA ShallowHost == Cardinality(Repositories) \in Nat /\ Shallow(Cardinality(Repositories))
<1>1. IsFiniteSet(Repositories)
  BY LocksAssumption, Libraries DEF Locks!LocksAssumption, Locks!ContainingAssumption
<1>2. Cardinality(Repositories) \in Nat
  BY <1>1, FS_CardinalityType
<1>3. ASSUME NEW r \in Repositories PROVE Locks!Depth(r) <= Cardinality(Repositories)
  <2> DEFINE d == Locks!Depth(r) S == {Containing[r][i] : i \in 1..d} f == [i \in 1..d |-> Containing[r][i]]
  <2>1. d \in Nat /\ \A i \in 1..d : Containing[r][i] \in Repositories /\ Locks!Depth(Containing[r][i]) = i - 1
    BY RepositoriesShape
  <2>2. IsFiniteSet(1..d) /\ Cardinality(1..d) = d
    <3>1. /\ IsFiniteSet(1..d)
          /\ Cardinality(1..d) = IF 1 > d THEN 0 ELSE d - 1 + 1
      BY <2>1, FS_Interval
    <3> QED BY <3>1, <2>1
  <2>3. f \in Bijection(1..d, S)
    <3>1. f \in [1..d -> S] /\ \A s \in S : \E i \in 1..d : f[i] = s
      OBVIOUS
    <3>2. \A i, j \in 1..d : f[i] = f[j] => i = j
      <4> SUFFICES ASSUME NEW i \in 1..d, NEW j \in 1..d, f[i] = f[j] PROVE i = j
        OBVIOUS
      <4>1. Containing[r][i] = Containing[r][j]
        OBVIOUS
      <4>2. i - 1 = j - 1
        BY <4>1, <2>1
      <4> QED BY <4>2, <2>1
    <3> QED BY <3>1, <3>2 DEF Bijection, Injection, Surjection, IsInjective
  <2>4. ExistsBijection(1..d, S)
    BY <2>3 DEF ExistsBijection
  <2>5. Cardinality(S) = d
    BY <2>2, <2>4, FS_Bijection
  <2>6. S \subseteq Repositories
    BY <2>1
  <2>7. Cardinality(S) <= Cardinality(Repositories)
    BY <2>6, <1>1, FS_Subset
  <2> QED BY <2>5, <2>7
<1> QED BY <1>2, <1>3 DEF Shallow

\* A command, its repository and its stacks.
LEMMA CommandShape ==
  ASSUME NEW c \in Commands
  PROVE  \E name \in Locks!Names, r \in Repositories :
            /\ c = <<name, r>> /\ c[1] = name /\ c[2] = r /\ c # <<>>
            /\ name = "finalize" => r \in DOMAIN ArchiveOf
            /\ Stacks(c) = Regular(name, r)
<1>1. PICK name \in Locks!Names, r \in Repositories :
          c = <<name, r>> /\ (name = "finalize" => r \in DOMAIN ArchiveOf)
  BY LocksAssumption DEF Locks!LocksAssumption, Locks!CommandsAssumption
<1>2. c[1] = name /\ c[2] = r /\ c # <<>>
  BY <1>1
<1> QED BY <1>1, <1>2, ScriptStacks

\* Stacks hold locks of the host.
LEMMA StacksType ==
  ASSUME NEW c \in Commands, NEW s \in Stacks(c)
  PROVE  s \in Seq(Locks!Locks)
<1>1. PICK name \in Locks!Names, r \in Repositories :
            /\ c = <<name, r>>
            /\ name = "finalize" => r \in DOMAIN ArchiveOf
            /\ Stacks(c) = Regular(name, r)
  BY CommandShape
<1>2. CASE name = "retire"
  <2>1. s = RetireStack(r)
    BY <1>1, <1>2 DEF Regular
  <2> QED BY <2>1, RetireShape
<1>3. CASE name # "retire"
  <2>1. \A D \in Nat : Shallow(D) => Well(D, name, s)
    BY <1>1, <1>3, WellStacks
  <2> QED BY <2>1, ShallowHost DEF Well
<1> QED BY <1>2, <1>3

\* Sequences of one, two and three elements.
LEMMA TupleSeqs ==
  /\ \A s : <<s>> \in Seq({s})
  /\ \A s, t : <<s, t>> \in Seq({s, t})
  /\ \A s, t, u : <<s, t, u>> \in Seq({s, t, u})
OBVIOUS

\* The script of a command is a sequence of its stacks.
LEMMA ScriptType == ASSUME NEW c \in Commands PROVE Locks!Script(c) \in Seq(Stacks(c))
<1>1. PICK name \in Locks!Names, r \in Repositories : c = <<name, r>> /\ c # <<>>
  BY CommandShape
<1>2. Stacks(c) = Locks!ToSet(Locks!Script(c))
  BY <1>1 DEF Stacks
<1>3. \/ \E s : Locks!Script(c) = <<s>>
      \/ \E s, t : Locks!Script(c) = <<s, t>>
      \/ \E s, t, u : Locks!Script(c) = <<s, t, u>>
  <2>1. CASE name = "enrol"
    BY <1>1, <2>1, Scripts DEF Locks!EnrolCommand
  <2>2. CASE name = "finalize"
    BY <1>1, <2>2, Scripts DEF Locks!FinalizeCommand
  <2>3. CASE name \notin {"enrol", "finalize"}
    BY <1>1, <2>3, Scripts
       DEF Locks!Names, Locks!GitCommand, Locks!LifecycleCommand, Locks!RetireCommand,
           Locks!DemoteCommand, Locks!GraduateCommand, Locks!ForgetCommand,
           Locks!PrepareCommand, Locks!TriageCommand
  <2> QED BY <2>1, <2>2, <2>3
<1>4. ASSUME NEW s, Locks!Script(c) = <<s>> PROVE Locks!Script(c) \in Seq(Stacks(c))
  <2>1. Stacks(c) = {s} /\ <<s>> \in Seq({s})
    BY <1>2, <1>4, OneStack, TupleSeqs
  <2> QED BY <2>1, <1>4
<1>5. ASSUME NEW s, NEW t, Locks!Script(c) = <<s, t>> PROVE Locks!Script(c) \in Seq(Stacks(c))
  <2>1. Stacks(c) = {s, t} /\ <<s, t>> \in Seq({s, t})
    BY <1>2, <1>5, TwoStacks, TupleSeqs
  <2> QED BY <2>1, <1>5
<1>6. ASSUME NEW s, NEW t, NEW u, Locks!Script(c) = <<s, t, u>> PROVE Locks!Script(c) \in Seq(Stacks(c))
  <2>1. Stacks(c) = {s, t, u} /\ <<s, t, u>> \in Seq({s, t, u})
    BY <1>2, <1>6, ThreeStacks, TupleSeqs
  <2> QED BY <2>1, <1>6
<1> QED BY <1>3, <1>4, <1>5, <1>6

-----------------------------------------------------------------------------
Prefix(h, s) == Len(h) <= Len(s) /\ \A i \in 1..Len(h) : h[i] = s[i]

\* A command works through its stacks, and what it holds is the beginning of one.
Working(p) ==
  /\ command[p] # <<>> => command[p] \in Commands
  /\ todo[p] \in Seq(Stacks(command[p]))
  /\ held[p] \in Seq(Locks!Locks)
  /\ held[p] # <<>> => \E s \in Stacks(command[p]) : Prefix(held[p], s)

Apart == \A p, q \in Commanders : p # q => Locks!ToSet(held[p]) \cap Locks!ToSet(held[q]) = {}

LocksInv ==
  /\ command = [p \in Commanders |-> command[p]]
  /\ todo = [p \in Commanders |-> todo[p]]
  /\ held = [p \in Commanders |-> held[p]]
  /\ \A p \in Commanders : Working(p)
  /\ Apart

\* No command has no stacks.
LEMMA NoStacks == Stacks(<<>>) = {}
BY DEF Stacks

\* A process has stacks while it runs a command.
LEMMA StacksTypes ==
  ASSUME NEW p \in Commanders, Working(p), NEW s \in Stacks(command[p])
  PROVE  command[p] \in Commands /\ s \in Seq(Locks!Locks)
BY StacksType, NoStacks DEF Working

\* The stack a process works towards.
LEMMA GoalShape ==
  ASSUME NEW p \in Commanders, Working(p), Locks!Goal(p) # <<>>
  PROVE  /\ todo[p] # <<>> /\ Locks!Goal(p) = Head(todo[p])
         /\ Locks!Goal(p) \in Stacks(command[p]) /\ Locks!Goal(p) \in Seq(Locks!Locks) /\
              command[p] \in Commands
<1>1. todo[p] # <<>> /\ Locks!Goal(p) = Head(todo[p])
  BY DEF Locks!Goal
<1>2. Locks!Goal(p) \in Stacks(command[p])
  BY <1>1 DEF Working
<1> QED BY <1>1, <1>2, StacksTypes

\* What a process asks for is behind what it holds, in the same stack.
LEMMA AskingShape ==
  ASSUME NEW p \in Commanders, Working(p), Locks!Asking(p)
  PROVE  /\ Locks!Goal(p) \in Stacks(command[p]) /\ Locks!Goal(p) \in Seq(Locks!Locks) /\
              command[p] \in Commands
         /\ Prefix(held[p], Locks!Goal(p)) /\ Len(held[p]) < Len(Locks!Goal(p))
         /\ Locks!Wanted(p) = Locks!Goal(p)[Len(held[p]) + 1] /\ Locks!Wanted(p) \in Locks!Locks
<1>0. held[p] \in Seq(Locks!Locks) /\ <<>> \in Seq(Locks!Locks)
  BY DEF Working
<1>1. Locks!Goal(p) # <<>>
  <2> SUFFICES ASSUME Locks!Goal(p) = <<>> PROVE FALSE
    OBVIOUS
  <2>1. Locks!IsPrefix(held[p], <<>>) /\ held[p] # <<>>
    BY DEF Locks!Asking
  <2>2. Len(held[p]) <= Len(<<>>)
    BY <2>1 DEF Locks!IsPrefix
  <2> QED BY <2>1, <2>2, <1>0
<1>2. Locks!Goal(p) \in Stacks(command[p]) /\ Locks!Goal(p) \in Seq(Locks!Locks) /\ command[p] \in Commands
  BY <1>1, GoalShape
<1>3. Prefix(held[p], Locks!Goal(p))
  BY <1>0, <1>2, PrefixOf DEF Locks!Asking, Prefix
<1>4. Len(held[p]) < Len(Locks!Goal(p))
  <2>1. held[p] # Locks!Goal(p)
    BY DEF Locks!Asking
  <2>2. Len(held[p]) <= Len(Locks!Goal(p)) /\ \A i \in 1..Len(held[p]) : held[p][i] = Locks!Goal(p)[i]
    BY <1>3 DEF Prefix
  <2>3. CASE Len(held[p]) = Len(Locks!Goal(p))
    BY <2>1, <2>2, <2>3, <1>0, <1>2
  <2> QED BY <2>2, <2>3, <1>0, <1>2
<1>5. Locks!Wanted(p) \in Locks!Locks
  <2>1. Len(held[p]) + 1 \in 1..Len(Locks!Goal(p))
    BY <1>0, <1>2, <1>4
  <2> QED BY <2>1, <1>2 DEF Locks!Wanted
<1> QED BY <1>2, <1>3, <1>4, <1>5 DEF Locks!Wanted

\* A step of one process leaves what the others do alone.
Frame(p) ==
  /\ \A q \in Commanders \ {p} : command'[q] = command[q] /\ todo'[q] = todo[q] /\ held'[q] = held[q]
  /\ command' = [q \in Commanders |-> command'[q]]
  /\ todo' = [q \in Commanders |-> todo'[q]]
  /\ held' = [q \in Commanders |-> held'[q]]

\* A step that takes no lock another process holds keeps them apart.
LEMMA FrameStep ==
  ASSUME LocksInv, NEW p \in Commanders, Frame(p), Working(p)',
         Locks!ToSet(held'[p]) \subseteq Locks!ToSet(held[p]) \cup {l \in Locks!Locks : \A q \in Commanders : ~Locks!Holds(q, l)}
  PROVE  LocksInv'
<1>1. \A q \in Commanders : Working(q)'
  <2> SUFFICES ASSUME NEW q \in Commanders, q # p PROVE Working(q)'
    OBVIOUS
  <2>1. Working(q) /\ command'[q] = command[q] /\ todo'[q] = todo[q] /\ held'[q] = held[q]
    BY DEF LocksInv, Frame
  <2> QED BY <2>1 DEF Working
<1>2. Apart'
  <2> SUFFICES ASSUME NEW a \in Commanders, NEW b \in Commanders, a # b
               PROVE  Locks!ToSet(held'[a]) \cap Locks!ToSet(held'[b]) = {}
    BY DEF Apart
  <2>1. Locks!ToSet(held[a]) \cap Locks!ToSet(held[b]) = {}
    BY DEF LocksInv, Apart
  <2>2. \A q \in Commanders \ {p} : held'[q] = held[q]
    BY DEF Frame
  <2>3. CASE a = p
    BY <2>1, <2>2, <2>3 DEF Locks!Holds
  <2>4. CASE b = p
    BY <2>1, <2>2, <2>4 DEF Locks!Holds
  <2>5. CASE a # p /\ b # p
    BY <2>1, <2>2, <2>5
  <2> QED BY <2>3, <2>4, <2>5
<1> QED BY <1>1, <1>2 DEF LocksInv, Frame

\* Initially nobody holds anything.
LEMMA InitLocks == Locks!Init => LocksInv
<1> SUFFICES ASSUME Locks!Init PROVE LocksInv
  OBVIOUS
<1>1. \A p \in Commanders : command[p] = <<>> /\ todo[p] = <<>> /\ held[p] = <<>>
  BY DEF Locks!Init
<1>2. \A p \in Commanders : Working(p)
  <2>1. \A S : <<>> \in Seq(S)
    OBVIOUS
  <2> QED BY <1>1, <2>1 DEF Working
<1>3. Apart
  <2>1. Locks!ToSet(<<>>) = {}
    BY DEF Locks!ToSet
  <2> QED BY <2>1, <1>1 DEF Apart
<1> QED BY <1>2, <1>3 DEF LocksInv, Locks!Init

\* A sequence without its last element.
LEMMA FrontIs ==
  ASSUME NEW X, NEW h \in Seq(X), h # <<>>
  PROVE  /\ Locks!Front(h) \in Seq(X) /\ Len(Locks!Front(h)) = Len(h) - 1 /\ Len(h) \in Nat /\ Len(h) > 0
         /\ \A i \in 1..(Len(h) - 1) : Locks!Front(h)[i] = h[i]
<1>1. Len(h) \in Nat /\ Len(h) > 0
  OBVIOUS
<1>2. Len(h) - 1 \in 0..Len(h)
  BY <1>1
<1>3. SubSeq(h, 1, Len(h) - 1) \in Seq(X)
  BY <1>1
<1>4. Len(SubSeq(h, 1, Len(h) - 1)) = Len(h) - 1
  <2> DEFINE n == Len(h) - 1
  <2>1. n \in Nat /\ n <= Len(h)
    BY <1>1
  <2> HIDE DEF n
  <2>2. SubSeq(h, 1, n) = [i \in 1..n |-> h[i]]
    BY <2>1
  <2>3. Len(SubSeq(h, 1, n)) = n
    BY <2>1, <2>2
  <2> QED BY <2>3 DEF n
<1>5. \A i \in 1..(Len(h) - 1) : SubSeq(h, 1, Len(h) - 1)[i] = h[i]
  BY <1>1
<1> QED BY <1>1, <1>3, <1>4, <1>5 DEF Locks!Front

\* The steps of a command: it is started,
LEMMA BeginStep == ASSUME LocksInv, NEW p \in Commanders, Locks!Begin(p) PROVE LocksInv'
<1>1. PICK c \in Commands : command' = [command EXCEPT ![p] = c] /\ todo' = [todo EXCEPT ![p] = Locks!Script(c)]
  BY DEF Locks!Begin
<1>2. held' = held /\ command[p] = <<>>
  BY DEF Locks!Begin
<1>3. Working(p) /\ held[p] = <<>>
  <2>1. Working(p)
    BY DEF LocksInv
  <2> QED BY <2>1, <1>2, NoStacks DEF Working
<1>4. command'[p] = c /\ todo'[p] = Locks!Script(c)
  BY <1>1 DEF LocksInv
<1>5. Working(p)'
  BY <1>2, <1>3, <1>4, ScriptType DEF Working
<1>6. Frame(p)
  BY <1>1, <1>2 DEF Frame, LocksInv
<1> QED BY <1>2, <1>5, <1>6, FrameStep

\* takes a lock that is free,
LEMMA TakeStep == ASSUME LocksInv, NEW p \in Commanders, Locks!Take(p) PROVE LocksInv'
<1> DEFINE h == held[p] w == Locks!Wanted(p) g == Locks!Goal(p)
<1>1. Working(p) /\ h \in Seq(Locks!Locks)
  BY DEF LocksInv, Working
<1>2. /\ g \in Stacks(command[p]) /\ g \in Seq(Locks!Locks) /\ w \in Locks!Locks
      /\ Prefix(h, g) /\ Len(h) < Len(g) /\ w = g[Len(h) + 1]
  BY <1>1, AskingShape DEF Locks!Take
<1>3. held' = [held EXCEPT ![p] = Append(h, w)] /\ command' = command /\ todo' = todo
  BY DEF Locks!Take
<1>4. held'[p] = Append(h, w)
  BY <1>3 DEF LocksInv
<1>5. \A q \in Commanders : ~Locks!Holds(q, w)
  BY DEF Locks!Take
<1>6. Frame(p)
  BY <1>3 DEF Frame, LocksInv
<1> HIDE DEF h, w, g
<1>7. Append(h, w) \in Seq(Locks!Locks) /\ Prefix(Append(h, w), g)
  <2>1. Append(h, w) \in Seq(Locks!Locks) /\ Len(Append(h, w)) = Len(h) + 1 /\ Len(h) \in Nat /\ Len(g) \in Nat
    BY <1>1, <1>2
  <2>2. \A i \in 1..(Len(h) + 1) : Append(h, w)[i] = g[i]
    BY <1>1, <1>2 DEF Prefix
  <2> QED BY <2>1, <2>2, <1>2 DEF Prefix
<1>8. Working(p)'
  BY <1>1, <1>2, <1>3, <1>4, <1>7 DEF Working
<1>9. Locks!ToSet(Append(h, w)) \subseteq Locks!ToSet(h) \cup {w}
  BY <1>1, <1>2 DEF Locks!ToSet
<1>10. Locks!ToSet(held'[p]) \subseteq Locks!ToSet(held[p]) \cup {l \in Locks!Locks : \A q \in Commanders : ~Locks!Holds(q, l)}
  BY <1>2, <1>4, <1>5, <1>9 DEF h
<1> QED BY <1>6, <1>8, <1>10, FrameStep

\* works under its stack,
LEMMA WorkStep == ASSUME LocksInv, NEW p \in Commanders, Locks!Work(p) PROVE LocksInv'
<1>1. Working(p) /\ todo[p] # <<>>
  BY DEF LocksInv, Locks!Work
<1>2. todo' = [todo EXCEPT ![p] = Tail(todo[p])] /\ command' = command /\ held' = held
  BY DEF Locks!Work
<1>3. todo'[p] = Tail(todo[p])
  BY <1>2 DEF LocksInv
<1>4. Tail(todo[p]) \in Seq(Stacks(command[p]))
  <2>1. \A S : \A t \in Seq(S) : t # <<>> => Tail(t) \in Seq(S)
    OBVIOUS
  <2> QED BY <2>1, <1>1 DEF Working
<1>5. Working(p)'
  BY <1>1, <1>2, <1>3, <1>4 DEF Working
<1>6. Frame(p)
  BY <1>2 DEF Frame, LocksInv
<1> QED BY <1>2, <1>5, <1>6, FrameStep

\* gives a lock back,
LEMMA ReleaseStep == ASSUME LocksInv, NEW p \in Commanders, Locks!Release(p) PROVE LocksInv'
<1> DEFINE h == held[p]
<1>1. Working(p) /\ h \in Seq(Locks!Locks)
  BY DEF LocksInv, Working
<1>2. held' = [held EXCEPT ![p] = Locks!Front(h)] /\ command' = command /\ todo' = todo
  BY DEF Locks!Release
<1>3. held'[p] = Locks!Front(h)
  BY <1>2 DEF LocksInv
<1>4. h # <<>>
  <2> SUFFICES ASSUME h = <<>> PROVE FALSE
    OBVIOUS
  <2>1. Locks!Goal(p) = <<>> \/ Locks!Goal(p) \in Seq(Locks!Locks)
    BY <1>1, GoalShape
  <2>2. Locks!Goal(p) \in Seq(Locks!Locks) /\ <<>> \in Seq(Locks!Locks)
    <3>1. <<>> \in Seq(Locks!Locks)
      OBVIOUS
    <3> QED BY <2>1, <3>1
  <2>3. Locks!IsPrefix(<<>>, Locks!Goal(p))
    <3>1. Len(<<>>) = 0 /\ Len(<<>>) <= Len(Locks!Goal(p)) /\ \A i \in 1..Len(<<>>) : FALSE
      BY <2>2
    <3> QED BY <3>1, <2>2, PrefixOf
  <2> QED BY <2>3 DEF Locks!Release
<1>5. PICK s \in Stacks(command[p]) : Prefix(h, s)
  BY <1>1, <1>4 DEF Working
<1>6. s \in Seq(Locks!Locks)
  BY <1>1, StacksTypes
<1>7. Frame(p)
  BY <1>2 DEF Frame, LocksInv
<1> HIDE DEF h
<1>8. /\ Locks!Front(h) \in Seq(Locks!Locks) /\ Len(Locks!Front(h)) = Len(h) - 1 /\ Len(h) \in Nat /\ Len(h) > 0
      /\ \A i \in 1..(Len(h) - 1) : Locks!Front(h)[i] = h[i]
  BY <1>1, <1>4, FrontIs
<1>9. Prefix(Locks!Front(h), s)
  BY <1>5, <1>6, <1>8 DEF Prefix
<1>10. Working(p)'
  BY <1>1, <1>2, <1>3, <1>5, <1>8, <1>9 DEF Working
<1>11. Locks!ToSet(Locks!Front(h)) \subseteq Locks!ToSet(h)
  BY <1>1, <1>8 DEF Locks!ToSet
<1>12. Locks!ToSet(held'[p]) \subseteq Locks!ToSet(held[p])
  BY <1>3, <1>11 DEF h
<1> QED BY <1>7, <1>10, <1>12, FrameStep

\* fails,
LEMMA FailStep == ASSUME LocksInv, NEW p \in Commanders, Locks!Fail(p) PROVE LocksInv'
<1>1. Working(p)
  BY DEF LocksInv
<1>2. todo' = [todo EXCEPT ![p] = <<>>] /\ command' = command /\ held' = held
  BY DEF Locks!Fail
<1>3. todo'[p] = <<>> /\ <<>> \in Seq(Stacks(command[p]))
  BY <1>2 DEF LocksInv
<1>4. Working(p)'
  BY <1>1, <1>2, <1>3 DEF Working
<1>5. Frame(p)
  BY <1>2 DEF Frame, LocksInv
<1> QED BY <1>2, <1>4, <1>5, FrameStep

\* or dies.
LEMMA KillStep == ASSUME LocksInv, NEW p \in Commanders, Locks!Kill(p) PROVE LocksInv'
<1>1. Working(p)
  BY DEF LocksInv
<1>2. todo' = [todo EXCEPT ![p] = <<>>] /\ held' = [held EXCEPT ![p] = <<>>] /\ command' = command
  BY DEF Locks!Kill
<1>3. todo'[p] = <<>> /\ held'[p] = <<>> /\ <<>> \in Seq(Stacks(command[p])) /\ <<>> \in Seq(Locks!Locks)
  BY <1>2 DEF LocksInv
<1>4. Working(p)'
  BY <1>1, <1>2, <1>3 DEF Working
<1>5. Frame(p)
  BY <1>2 DEF Frame, LocksInv
<1>6. Locks!ToSet(<<>>) = {}
  BY DEF Locks!ToSet
<1> QED BY <1>3, <1>4, <1>5, <1>6, FrameStep

\* Every step keeps the invariant.
LEMMA NextLocks == ASSUME LocksInv, [Locks!Next]_(Locks!vars) PROVE LocksInv'
<1>1. CASE Locks!Next
  BY <1>1, BeginStep, TakeStep, WorkStep, ReleaseStep, FailStep, KillStep DEF Locks!Next
<1>2. CASE UNCHANGED Locks!vars
  BY <1>2 DEF Locks!vars, LocksInv, Working, Apart
<1> QED BY <1>1, <1>2

-----------------------------------------------------------------------------
\* A gate of a stack comes behind the gates around its repository.
LEMMA GatesAround ==
  ASSUME NEW c \in Commands, NEW s \in Stacks(c), c[1] \notin {"prepare", "triage", "retire"},
         NEW i \in 1..Len(s), NEW x \in Repositories, NEW y \in Repositories, s[i] = Locks!Gate(x),
             Locks!Inside(x, y)
  PROVE  \E j \in 1..(i - 1) : s[j] = Locks!Gate(y)
<1>1. PICK name \in Locks!Names, r \in Repositories :
            /\ c = <<name, r>> /\ c[1] = name
            /\ name = "finalize" => r \in DOMAIN ArchiveOf
            /\ Stacks(c) = Regular(name, r)
  BY CommandShape
<1>2. \A D \in Nat : Shallow(D) => Well(D, name, s)
  BY <1>1, WellStacks
<1>3. Nested(s)
  BY <1>1, <1>2, ShallowHost DEF Well
<1> QED BY <1>3 DEF Nested

\* The same of a removal, below the task store.
LEMMA RetireAround ==
  ASSUME NEW r \in Repositories, NEW i \in 1..(Locks!Depth(r) + 1),
         NEW x \in Repositories, NEW y \in Repositories, RetireStack(r)[i] = Locks!Gate(x), Locks!Inside(x, y)
  PROVE  \E j \in 1..(i - 1) : RetireStack(r)[j] = Locks!Gate(y)
<1>1. Len(Locks!Gates(r)) = Locks!Depth(r) + 1 /\ Locks!Depth(r) \in Nat
  BY GatesShape, RepositoriesShape
<1>2. i \in 1..Len(Locks!Gates(r)) /\ Locks!Gates(r)[i] = Locks!Gate(x)
  BY <1>1, RetireShape
<1>3. PICK j \in 1..(i - 1) : Locks!Gates(r)[j] = Locks!Gate(y)
  BY <1>2, GatesNested DEF Nested
<1>4. RetireStack(r)[j] = Locks!Gates(r)[j]
  BY <1>1, <1>3, RetireShape
<1> QED BY <1>3, <1>4

\* A transaction takes the gates around its repository before the own one.
LEMMA OwnGateLast ==
  ASSUME NEW c \in Commands, c[1] \in Locks!Transactions \ {"triage"}, NEW s \in Stacks(c),
         NEW i \in 1..Len(s), s[i] = Locks!Gate(c[2]), NEW y \in Repositories, Locks!Inside(c[2], y)
  PROVE  \E j \in 1..(i - 1) : s[j] = Locks!Gate(y)
<1>1. PICK name \in Locks!Names, r \in Repositories :
            c = <<name, r>> /\ c[1] = name /\ c[2] = r /\ Stacks(c) = Regular(name, r)
  BY CommandShape
<1>2. CASE name # "retire"
  BY <1>1, <1>2, GatesAround DEF Locks!Transactions
<1>3. CASE name = "retire"
  <2>1. s = RetireStack(r)
    BY <1>1, <1>3 DEF Regular
  <2>2. Locks!Depth(r) \in Nat /\ Len(Locks!Gates(r)) = Locks!Depth(r) + 1
    BY RepositoriesShape, GatesShape
  <2>3. CASE i \in 1..(Locks!Depth(r) + 1)
    BY <2>1, <2>3, <1>1, RetireAround
  <2>4. CASE i \notin 1..(Locks!Depth(r) + 1)
    <3>1. PICK k \in 1..Locks!Depth(r) : y = Containing[r][k]
      BY <1>1, InsideIs
    <3>2. k \in 1..(Locks!Depth(r) + 1) /\ k \in 1..(i - 1)
      BY <2>2, <2>4
    <3>3. s[k] = Locks!Gate(y)
      BY <3>1, <3>2, <2>1, RetireShape, GatesShape
    <3> QED BY <3>2, <3>3
  <2> QED BY <2>3, <2>4
<1> QED BY <1>2, <1>3

NoTriage == \A c \in Commands : c[1] # "triage"

\* Every lock a command holds has its place in one of its stacks.
LEMMA HeldPlace ==
  ASSUME NEW p \in Commanders, Working(p), NEW l, Locks!Holds(p, l)
  PROVE  \E s \in Stacks(command[p]) : \E i \in 1..Len(held[p]) :
            /\ s \in Seq(Locks!Locks) /\ command[p] \in Commands
            /\ i \in 1..Len(s) /\ s[i] = l /\ held[p][i] = l /\ Prefix(held[p], s)
<1>1. held[p] \in Seq(Locks!Locks) /\ l \in Locks!ToSet(held[p])
  BY DEF Working, Locks!Holds
<1>2. PICK i \in 1..Len(held[p]) : held[p][i] = l
  BY <1>1, ToSetIs
<1>3. held[p] # <<>>
  BY <1>1, <1>2
<1>4. PICK s \in Stacks(command[p]) : Prefix(held[p], s)
  BY <1>3 DEF Working
<1>5. s \in Seq(Locks!Locks) /\ command[p] \in Commands
  BY StacksTypes
<1>6. i \in 1..Len(s) /\ s[i] = l
  <2>1. Len(held[p]) <= Len(s) /\ held[p][i] = s[i]
    BY <1>4 DEF Prefix
  <2> QED BY <2>1, <1>1, <1>2, <1>5
<1> QED BY <1>2, <1>4, <1>5, <1>6

\* What a stack begins with is held.
LEMMA PrefixHolds ==
  ASSUME NEW p \in Commanders, Working(p), NEW s, Prefix(held[p], s), NEW i \in 1..Len(held[p])
  PROVE  Locks!Holds(p, s[i])
<1>1. held[p] \in Seq(Locks!Locks) /\ held[p][i] = s[i]
  BY DEF Working, Prefix
<1> QED BY <1>1, ToSetIs DEF Locks!Holds

\* A lock has one holder.
LEMMA OneHolder ==
  ASSUME LocksInv, NEW p \in Commanders, NEW q \in Commanders, NEW l, Locks!Holds(p, l), Locks!Holds(q, l)
  PROVE  p = q
BY DEF LocksInv, Apart, Locks!Holds

\* A submodule's transaction holds the gate of the superproject, the removal has it.
LEMMA Closed == NoTriage /\ LocksInv => Locks!SubmodulesClosed
<1> SUFFICES ASSUME NoTriage, LocksInv, NEW p \in Commanders, NEW q \in Commanders, p # q,
                    command[p] # <<>>, Locks!Holds(p, Locks!Gate(command[p][2])),
                    command[q] # <<>>, command[q][1] \in Locks!Transactions,
                    Locks!Inside(command[q][2], command[p][2]), Locks!Holds(q, Locks!Gate(command[q][2]))
             PROVE  FALSE
  BY DEF Locks!SubmodulesClosed
<1>1. Working(p) /\ Working(q) /\ command[p] \in Commands /\ command[q] \in Commands
  BY DEF LocksInv, Working
<1>2. command[p][2] \in Repositories /\ command[q][1] # "triage"
  BY <1>1, CommandShape DEF NoTriage
<1>3. PICK s \in Stacks(command[q]) : \E i \in 1..Len(held[q]) :
            i \in 1..Len(s) /\ s[i] = Locks!Gate(command[q][2]) /\ Prefix(held[q], s)
  BY <1>1, HeldPlace
<1>4. PICK i \in 1..Len(held[q]) : i \in 1..Len(s) /\ s[i] = Locks!Gate(command[q][2]) /\ Prefix(held[q], s)
  BY <1>3
<1>5. PICK j \in 1..(i - 1) : s[j] = Locks!Gate(command[p][2])
  BY <1>1, <1>2, <1>4, OwnGateLast
<1>6. j \in 1..Len(held[q])
  <2>1. held[q] \in Seq(Locks!Locks)
    BY <1>1 DEF Working
  <2> QED BY <2>1
<1>7. Locks!Holds(q, Locks!Gate(command[p][2]))
  BY <1>1, <1>4, <1>5, <1>6, PrefixHolds
<1> QED BY <1>7, OneHolder

-----------------------------------------------------------------------------
Untangled == NoTriage /\ ArchivesApart

Descends(p) == Locks!Holds(p, Locks!Tasks) /\ \E x : Locks!Wanted(p) = Locks!Gate(x)

Level(D, p) == IF Descends(p) THEN TasksRank(D) + 1 ELSE Rank(D, Locks!Wanted(p))

\* What a command that asks for a lock may rely on.
LEMMA Regulars ==
  ASSUME NEW D \in Nat, Shallow(D), ArchivesApart, NEW p \in Commanders, Working(p), Locks!Asking(p),
           command[p][1] # "retire"
  PROVE  /\ \A i \in 1..Len(held[p]) : Rank(D, Locks!Goal(p)[i]) < Rank(D, Locks!Wanted(p))
         /\ ~Descends(p)
<1> DEFINE g == Locks!Goal(p) h == held[p] w == Locks!Wanted(p)
<1>1. /\ g \in Stacks(command[p]) /\ g \in Seq(Locks!Locks) /\ command[p] \in Commands
      /\ Prefix(h, g) /\ Len(h) < Len(g) /\ w = g[Len(h) + 1]
  BY AskingShape
<1>2. h \in Seq(Locks!Locks)
  BY DEF Working
<1>3. PICK name \in Locks!Names, r \in Repositories :
            /\ command[p] = <<name, r>> /\ command[p][1] = name
            /\ name = "finalize" => r \in DOMAIN ArchiveOf
            /\ Stacks(command[p]) = Regular(name, r)
  BY <1>1, CommandShape
<1>4. Climbs(D, g)
  <2>1. Well(D, name, g)
    BY <1>1, <1>3, WellStacks
  <2> QED BY <2>1 DEF Well
<1>5. \A i \in 1..Len(h) : Rank(D, g[i]) < Rank(D, w)
  <2> SUFFICES ASSUME NEW i \in 1..Len(h) PROVE Rank(D, g[i]) < Rank(D, w)
    OBVIOUS
  <2>1. i \in 1..Len(g) /\ Len(h) + 1 \in 1..Len(g) /\ i < Len(h) + 1
    BY <1>1, <1>2
  <2> QED BY <2>1, <1>1, <1>4 DEF Climbs
<1>6. ~Descends(p)
  <2> SUFFICES ASSUME Locks!Holds(p, Locks!Tasks), NEW x, w = Locks!Gate(x) PROVE FALSE
    BY DEF Descends
  <2>1. PICK i \in 1..Len(h) : h[i] = Locks!Tasks
    BY <1>2, ToSetIs DEF Locks!Holds
  <2>2. g[i] = Locks!Tasks
    BY <1>1, <2>1 DEF Prefix
  <2>3. TasksRank(D) < Rank(D, Locks!Gate(x))
    BY <2>1, <2>2, <1>5, Ranks
  <2>4. \E y \in Repositories : Locks!Gate(x) = Locks!Gate(y)
    <3>1. Locks!Gate(x) \in Locks!Locks
      BY AskingShape
    <3> QED BY <3>1 DEF Locks!Locks, Locks!Gate, Locks!Asset, Locks!MoveSource, Locks!History, Locks!Finalization,
             Locks!Tasks, Locks!Intents, Locks!Notes, Locks!Catalog
  <2>5. x \in Repositories
    BY <2>4, SameGate
  <2>6. Rank(D, Locks!Gate(x)) = GateRank(D, x) /\ GateRank(D, x) \in Nat /\ GateRank(D, x) <= 2 * D + 3
    BY <2>5, Ranks, GateRanks
  <2> QED BY <2>3, <2>6 DEF TasksRank
<1> QED BY <1>5, <1>6

\* The same of a removal; behind the task store it asks for gates below its own.
LEMMA Removals ==
  ASSUME NEW D \in Nat, Shallow(D), NEW p \in Commanders, Working(p), Locks!Asking(p), command[p][1] = "retire"
  PROVE  /\ command[p][2] \in Repositories
         /\ ~Descends(p) => /\ \A i \in 1..Len(held[p]) : Rank(D, Locks!Goal(p)[i]) < Rank(D, Locks!Wanted(p))
                         /\ \A i \in 1..Len(held[p]) : \A x \in Repositories : \A y \in Repositories :
                              Locks!Goal(p)[i] = Locks!Gate(x) /\ Locks!Inside(x, y) =>
                                  Locks!Holds(p, Locks!Gate(y))
         /\ Descends(p) => /\ \E x \in Repositories : Locks!Wanted(p) = Locks!Gate(x) /\
                                Locks!Inside(x, command[p][2])
                        /\ Locks!Holds(p, Locks!Gate(command[p][2]))
                        /\ \A i \in 1..Len(held[p]) : /\ Locks!Goal(p)[i] # Locks!Wanted(p)
                                                      /\ Rank(D, Locks!Goal(p)[i]) <= TasksRank(D)
<1> DEFINE g == Locks!Goal(p) h == held[p] w == Locks!Wanted(p) n == Len(held[p])
<1>1. /\ g \in Stacks(command[p]) /\ g \in Seq(Locks!Locks) /\ command[p] \in Commands
      /\ Prefix(h, g) /\ n < Len(g) /\ w = g[n + 1]
  BY AskingShape
<1>2. h \in Seq(Locks!Locks) /\ n \in Nat /\ Len(g) \in Nat
  BY <1>1 DEF Working
<1>3. PICK r \in Repositories : command[p][2] = r /\ g = RetireStack(r)
  <2>1. PICK name \in Locks!Names, r \in Repositories :
            /\ command[p] = <<name, r>> /\ command[p][1] = name /\ command[p][2] = r
            /\ Stacks(command[p]) = Regular(name, r)
    BY <1>1, CommandShape
  <2>2. Regular("retire", r) = {RetireStack(r)}
    BY DEF Regular
  <2> QED BY <1>1, <2>1, <2>2
<1> DEFINE d == Locks!Depth(r)
<1>4. d \in Nat /\ g[d + 2] = Locks!Tasks
  BY <1>3, RepositoriesShape, RetireShape
<1>5. Rank(D, Locks!Tasks) = TasksRank(D) /\ TasksRank(D) = 2 * D + 5
  BY Ranks DEF TasksRank
<1>6. CASE n <= d + 1
  <2>1. n + 1 \in 1..(d + 2) /\ \A i \in 1..n : i \in 1..(d + 2) /\ i \in 1..(d + 1) /\ i < n + 1
    BY <1>2, <1>4, <1>6
  <2>2. \A i \in 1..n : Rank(D, g[i]) < Rank(D, w)
    <3> SUFFICES ASSUME NEW i \in 1..n PROVE Rank(D, g[i]) < Rank(D, w)
      OBVIOUS
    <3>1. i \in 1..(Locks!Depth(r) + 2) /\ n + 1 \in 1..(Locks!Depth(r) + 2) /\ i < n + 1
      BY <2>1
    <3>2. Rank(D, RetireStack(r)[i]) < Rank(D, RetireStack(r)[n + 1])
      BY <3>1, RetireTail
    <3>3. g = RetireStack(r) /\ w = g[n + 1]
      BY <1>1, <1>3
    <3> HIDE DEF g, w
    <3> QED BY <3>2, <3>3
  <2>3. \A i \in 1..n : g[i] # Locks!Tasks
    BY <1>3, <2>1, RetireTail, NotGates
  <2>4. ~Locks!Holds(p, Locks!Tasks)
    <3> SUFFICES ASSUME Locks!Holds(p, Locks!Tasks) PROVE FALSE
      OBVIOUS
    <3>1. PICK i \in 1..n : h[i] = Locks!Tasks
      BY <1>2, ToSetIs DEF Locks!Holds
    <3>2. g[i] = Locks!Tasks
      BY <1>1, <3>1 DEF Prefix
    <3> QED BY <2>3, <3>2
  <2>5. ~Descends(p)
    BY <2>4 DEF Descends
  <2>6. ASSUME NEW i \in 1..n, NEW x \in Repositories, NEW y \in Repositories, g[i] = Locks!Gate(x),
           Locks!Inside(x, y)
        PROVE  Locks!Holds(p, Locks!Gate(y))
    <3>1. PICK j \in 1..(i - 1) : g[j] = Locks!Gate(y)
      BY <1>3, <2>1, <2>6, RetireAround
    <3>2. j \in 1..n
      BY <1>2
    <3> QED BY <1>1, <3>1, <3>2, PrefixHolds
  <2> QED BY <1>3, <2>2, <2>5, <2>6
<1>7. CASE n > d + 1
  <2>1. n + 1 \in (d + 3)..Len(g) /\ d + 2 \in 1..n /\ d + 1 \in 1..n
    BY <1>1, <1>2, <1>4, <1>7
  <2>2. /\ \E x \in Repositories : w = Locks!Gate(x) /\ Locks!Inside(x, r)
        /\ \A j \in 1..((n + 1) - 1) : g[j] # w
    <3>1. \A k \in (d + 3)..Len(g) : /\ \E x \in Repositories : g[k] = Locks!Gate(x) /\ Locks!Inside(x, r)
                                     /\ \A j \in 1..(k - 1) : g[j] # g[k]
      BY <1>3, RetireTail
    <3>2. w = g[n + 1]
      BY <1>1
    <3> QED BY <3>1, <3>2, <2>1
  <2>3. Locks!Holds(p, Locks!Tasks) /\ Locks!Holds(p, g[d + 1])
    BY <1>1, <1>4, <2>1, PrefixHolds
  <2>4. g[d + 1] = Locks!Gate(r)
    <3>1. d + 1 \in 1..(d + 1)
      BY <1>4
    <3> QED BY <1>3, <3>1, RetireShape, GatesShape
  <2>5. Descends(p)
    BY <2>2, <2>3 DEF Descends
  <2>6. ASSUME NEW i \in 1..n PROVE Rank(D, g[i]) <= TasksRank(D)
    <3>1. CASE i \in 1..(d + 1)
      <4>1. Rank(D, g[i]) \in 2..(2 * D + 3)
        BY <1>3, <3>1, RetireTail
      <4> QED BY <4>1, <1>5
    <3>2. CASE i = d + 2
      BY <1>4, <1>5, <3>2
    <3>3. CASE i > d + 2
      <4>1. i \in (d + 3)..Len(g)
        BY <1>1, <1>2, <1>4, <3>3
      <4>2. PICK x \in Repositories : g[i] = Locks!Gate(x)
        BY <1>3, <4>1, RetireTail
      <4>3. Rank(D, g[i]) = GateRank(D, x) /\ GateRank(D, x) \in Nat /\ GateRank(D, x) <= 2 * D + 3
        BY <4>2, Ranks, GateRanks
      <4> QED BY <4>3, <1>5
    <3> QED BY <3>1, <3>2, <3>3, <1>4
  <2>7. (n + 1) - 1 = n
    BY <1>2
  <2> QED BY <1>3, <2>2, <2>3, <2>4, <2>5, <2>6, <2>7
<1> QED BY <1>2, <1>4, <1>6, <1>7

\* A command waits for one that asks for something higher.
LEMMA Waits ==
  ASSUME LocksInv, Untangled, NEW D \in Nat, Shallow(D), NEW p \in Commanders, NEW q \in Commanders,
         Locks!Asking(p), Locks!Asking(q), Locks!Holds(q, Locks!Wanted(p))
  PROVE  Level(D, p) < Level(D, q)
<1>1. Working(p) /\ Working(q) /\ held[q] \in Seq(Locks!Locks) /\ ArchivesApart
  BY DEF LocksInv, Working, Untangled
<1>2. /\ Locks!Goal(q) \in Stacks(command[q]) /\ Locks!Goal(q) \in Seq(Locks!Locks) /\ command[q] \in Commands
      /\ Prefix(held[q], Locks!Goal(q)) /\ Len(held[q]) < Len(Locks!Goal(q)) /\
           Locks!Wanted(q) = Locks!Goal(q)[Len(held[q]) + 1]
      /\ Locks!Wanted(q) \in Locks!Locks
  BY <1>1, AskingShape
<1>3. PICK i \in 1..Len(held[q]) : held[q][i] = Locks!Wanted(p) /\ Locks!Goal(q)[i] = Locks!Wanted(p)
  <2>1. PICK i \in 1..Len(held[q]) : held[q][i] = Locks!Wanted(p)
    BY <1>1, ToSetIs DEF Locks!Holds
  <2> QED BY <2>1, <1>2 DEF Prefix
<1>4. Locks!Wanted(p) \in Locks!Locks
  BY <1>1, AskingShape
<1>5. /\ Rank(D, Locks!Wanted(p)) \in 0..(TasksRank(D) + 3) /\
           Rank(D, Locks!Wanted(q)) \in 0..(TasksRank(D) + 3)
      /\ TasksRank(D) = 2 * D + 5
  BY <1>2, <1>4, RankType DEF TasksRank
<1>6. CASE Descends(q)
  <2>1. command[q][1] = "retire"
    BY <1>1, <1>6, Regulars
  <2>2. Locks!Wanted(p) # Locks!Wanted(q) /\ Rank(D, Locks!Wanted(p)) <= TasksRank(D)
    BY <1>1, <1>3, <1>6, <2>1, Removals
  <2>3. ~Descends(p)
    <3> SUFFICES ASSUME Descends(p) PROVE FALSE
      OBVIOUS
    <3>1. p = q
      BY <1>6, OneHolder DEF Descends
    <3> QED BY <3>1, <2>2
  <2> QED BY <1>5, <1>6, <2>2, <2>3 DEF Level
<1>7. CASE ~Descends(q)
  <2>1. Rank(D, Locks!Wanted(p)) < Rank(D, Locks!Wanted(q))
    BY <1>1, <1>3, <1>7, Regulars, Removals
  <2>2. CASE ~Descends(p)
    BY <1>7, <2>1, <2>2 DEF Level
  <2>3. CASE Descends(p)
    <3>1. command[p][1] = "retire"
      BY <1>1, <2>3, Regulars
    <3>2. /\ command[p][2] \in Repositories /\ Locks!Holds(p, Locks!Gate(command[p][2]))
          /\ \E x \in Repositories : Locks!Wanted(p) = Locks!Gate(x) /\ Locks!Inside(x, command[p][2])
      BY <1>1, <2>3, <3>1, Removals
    <3>3. PICK x \in Repositories : Locks!Wanted(p) = Locks!Gate(x) /\ Locks!Inside(x, command[p][2])
      BY <3>2
    <3>4. p # q
      BY <1>7, <2>3
    <3>5. ~Locks!Holds(q, Locks!Gate(command[p][2]))
      BY <3>2, <3>4, OneHolder
    <3>6. CASE command[q][1] = "retire"
      BY <3>6, <3>2, <3>3, <3>5, <1>1, <1>3, <1>7, Removals
    <3>7. CASE command[q][1] \notin {"prepare", "triage", "retire"}
      <4>1. i \in 1..Len(Locks!Goal(q))
        BY <1>1, <1>2
      <4>2. PICK j \in 1..(i - 1) : Locks!Goal(q)[j] = Locks!Gate(command[p][2])
        BY <4>1, <3>7, <3>2, <3>3, <1>2, <1>3, GatesAround
      <4>3. j \in 1..Len(held[q])
        BY <1>1
      <4> QED BY <4>2, <4>3, <3>5, <1>1, <1>2, PrefixHolds
    <3>8. CASE command[q][1] = "prepare"
      <4>1. PICK name \in Locks!Names, r \in Repositories :
                command[q][1] = name /\ Stacks(command[q]) = Regular(name, r)
        BY <1>2, CommandShape
      <4>2. Regular("prepare", r) = {<<Locks!Gate(r), Locks!Intents>>}
        BY DEF Regular
      <4>3. Locks!Goal(q) = <<Locks!Gate(r), Locks!Intents>>
        BY <1>2, <3>8, <4>1, <4>2
      <4>4. Len(Locks!Goal(q)) = 2 /\ Locks!Goal(q)[2] = Locks!Intents
        BY <4>3
      <4>5. Len(held[q]) = 1
        <5>1. Len(held[q]) \in Nat /\ Len(held[q]) < 2
          BY <1>1, <1>2, <4>4
        <5>2. i \in Int /\ 1 <= i /\ i <= Len(held[q])
          BY <5>1
        <5>3. \A n \in Nat : n < 2 /\ 1 <= i /\ i <= n => n = 1
          BY <5>2
        <5> QED BY <5>1, <5>2, <5>3
      <4>6. Locks!Wanted(q) = Locks!Intents
        BY <1>2, <4>4, <4>5
      <4> QED BY <4>6, <1>5, <1>7, <2>3, Ranks DEF Level
    <3>9. command[q][1] # "triage"
      BY <1>2 DEF Untangled, NoTriage
    <3> QED BY <3>6, <3>7, <3>8, <3>9
  <2> QED BY <2>2, <2>3
<1> QED BY <1>6, <1>7

\* Levels are bounded.
LEMMA LevelType ==
  ASSUME NEW D \in Nat, Shallow(D), NEW p \in Commanders, Working(p), Locks!Asking(p)
  PROVE  Level(D, p) \in 0..(TasksRank(D) + 3)
<1>1. Rank(D, Locks!Wanted(p)) \in 0..(TasksRank(D) + 3)
  BY AskingShape, RankType
<1>2. TasksRank(D) \in Nat
  BY DEF TasksRank
<1> QED BY <1>1, <1>2 DEF Level

\* In a circle the highest level waits for a higher one.
LEMMA Straight == Untangled /\ LocksInv => Locks!NoCircularWait
<1> SUFFICES ASSUME Untangled, LocksInv, NEW group \in (SUBSET Commanders) \ {{}},
                    \A p \in group : Locks!Asking(p) /\ \E q \in group : Locks!Holds(q, Locks!Wanted(p))
             PROVE  FALSE
  BY DEF Locks!NoCircularWait
<1> DEFINE D == Cardinality(Repositories) B == TasksRank(D) + 3 S == {B - Level(D, p) : p \in group}
<1>1. D \in Nat /\ Shallow(D)
  BY ShallowHost
<1>2. B \in Nat
  BY <1>1 DEF TasksRank
<1>3. \A p \in group : Working(p) /\ Locks!Asking(p) /\ p \in Commanders
  BY DEF LocksInv
<1> HIDE DEF D
<1>4. \A p \in group : Level(D, p) \in 0..B
  BY <1>1, <1>3, LevelType
<1> HIDE DEF B
<1>5. S \subseteq Nat /\ S # {}
  BY <1>2, <1>4
<1>6. PICK m \in S : \A k \in S : m <= k
  BY <1>5, Least
<1>7. PICK p \in group : m = B - Level(D, p)
  BY <1>6
<1>8. PICK q \in group : Locks!Holds(q, Locks!Wanted(p))
  BY <1>7
<1>9. Level(D, p) < Level(D, q)
  BY <1>1, <1>3, <1>7, <1>8, Waits
<1>10. B - Level(D, p) <= B - Level(D, q)
  BY <1>6, <1>7, <1>8
<1> QED BY <1>2, <1>4, <1>9, <1>10

-----------------------------------------------------------------------------
(***************************************************************************)
(* Configuration files.                                                    *)
(***************************************************************************)

\* An order of a set of positions.
Enumerates(f, S) ==
  /\ f \in Config!Bijection(1..Cardinality(S), S)
  /\ \A i, j \in DOMAIN f : i < j => f[i] < f[j]

\* A bijection from positions, element by element.
LEMMA BijectionIs ==
  ASSUME NEW n \in Nat, NEW S, NEW f
  PROVE  f \in Config!Bijection(1..n, S) <=>
            /\ f \in [1..n -> S]
            /\ \A i, j \in 1..n : f[i] = f[j] => i = j
            /\ \A s \in S : \E i \in 1..n : f[i] = s
BY DEF Config!Bijection, Config!Injection, Config!Surjection, Config!IsInjective

\* Every set of positions can be enumerated in its order.
LEMMA Enumerable ==
  ASSUME NEW n \in Nat, NEW S \in SUBSET (1..n)
  PROVE  IsFiniteSet(S) /\ \E f : Enumerates(f, S)
<1> DEFINE Good(m) == \A T \in SUBSET (1..m) : IsFiniteSet(T) /\ \E f : Enumerates(f, T)
           Bad == {m \in Nat : ~Good(m)}
<1>1. Good(0)
  <2> SUFFICES ASSUME NEW T \in SUBSET (1..0) PROVE IsFiniteSet(T) /\ \E f : Enumerates(f, T)
    OBVIOUS
  <2>1. T = {} /\ IsFiniteSet({}) /\ Cardinality({}) = 0
    BY FS_EmptySet
  <2> DEFINE f == [i \in 1..0 |-> i]
  <2>2. f \in Config!Bijection(1..0, {})
    <3>1. 0 \in Nat /\ 1..0 = {}
      OBVIOUS
    <3>2. f \in [1..0 -> {}]
      BY <3>1
    <3>3. \A i, j \in 1..0 : f[i] = f[j] => i = j
      BY <3>1
    <3>4. \A s \in {} : \E i \in 1..0 : f[i] = s
      OBVIOUS
    <3> HIDE DEF f
    <3> QED BY <3>1, <3>2, <3>3, <3>4, BijectionIs
  <2>3. Enumerates(f, {})
    BY <2>1, <2>2 DEF Enumerates
  <2> QED BY <2>1, <2>3
<1>2. ASSUME NEW m \in Nat, Good(m) PROVE Good(m + 1)
  <2> SUFFICES ASSUME NEW T \in SUBSET (1..(m + 1)) PROVE IsFiniteSet(T) /\ \E f : Enumerates(f, T)
    OBVIOUS
  <2>1. CASE m + 1 \notin T
    <3>1. T \in SUBSET (1..m)
      BY <2>1
    <3> QED BY <3>1, <1>2
  <2>2. CASE m + 1 \in T
    <3> DEFINE U == T \ {m + 1} c == Cardinality(U)
    <3>1. U \in SUBSET (1..m)
      OBVIOUS
    <3>2. IsFiniteSet(U) /\ \E f : Enumerates(f, U)
      BY <3>1, <1>2
    <3>3. PICK g : Enumerates(g, U)
      BY <3>2
    <3>4. c \in Nat /\ m + 1 \notin U
      BY <3>2, FS_CardinalityType
    <3>5. IsFiniteSet(T) /\ Cardinality(T) = c + 1
      <4>1. IsFiniteSet(U \cup {m + 1}) /\ Cardinality(U \cup {m + 1}) = c + 1
        BY <3>2, <3>4, FS_AddElement
      <4>2. U \cup {m + 1} = T
        BY <2>2
      <4> QED BY <4>1, <4>2
    <3> DEFINE f == [i \in 1..(c + 1) |-> IF i = c + 1 THEN m + 1 ELSE g[i]]
    <3>6. /\ g \in [1..c -> U]
          /\ \A i, j \in 1..c : g[i] = g[j] => i = j
          /\ \A s \in U : \E i \in 1..c : g[i] = s
          /\ \A i, j \in 1..c : i < j => g[i] < g[j]
      <4>1. g \in Config!Bijection(1..c, U) /\ \A i, j \in DOMAIN g : i < j => g[i] < g[j]
        BY <3>3 DEF Enumerates
      <4>0. c \in Nat
        BY <3>4
      <4> HIDE DEF U, c
      <4>2. /\ g \in [1..c -> U]
            /\ \A i, j \in 1..c : g[i] = g[j] => i = j
            /\ \A s \in U : \E i \in 1..c : g[i] = s
        BY <4>0, <4>1, BijectionIs
      <4>3. DOMAIN g = 1..c
        BY <4>2
      <4> QED BY <4>1, <4>2, <4>3
    <3>7. U \subseteq 1..m /\ T = U \cup {m + 1}
      BY <2>2
    <3> HIDE DEF U, c
    <3>8. \A i \in 1..c : g[i] \in U /\ g[i] <= m /\ f[i] = g[i] /\ i # c + 1
      <4> SUFFICES ASSUME NEW i \in 1..c PROVE g[i] \in U /\ g[i] <= m /\ f[i] = g[i] /\ i # c + 1
        OBVIOUS
      <4>1. g[i] \in U
        BY <3>6
      <4>2. g[i] \in 1..m
        BY <4>1, <3>7
      <4>3. i \in 1..(c + 1) /\ i # c + 1
        BY <3>4
      <4>4. f[i] = g[i]
        BY <4>3
      <4> QED BY <4>1, <4>2, <4>3, <4>4
    <3>9. f[c + 1] = m + 1
      BY <3>4
    <3>10. f \in [1..(c + 1) -> T]
      BY <3>4, <3>6, <3>7
    <3>11. \A i \in 1..(c + 1) : i = c + 1 \/ i \in 1..c
      BY <3>4
    <3> HIDE DEF f
    <3>12. \A i, j \in 1..(c + 1) : f[i] = f[j] => i = j
      <4> SUFFICES ASSUME NEW i \in 1..(c + 1), NEW j \in 1..(c + 1), f[i] = f[j] PROVE i = j
        OBVIOUS
      <4>1. CASE i = c + 1 /\ j = c + 1
        BY <4>1
      <4>2. CASE i \in 1..c /\ j \in 1..c
        BY <4>2, <3>6, <3>8
      <4>3. CASE i \in 1..c /\ j = c + 1
        BY <4>3, <3>4, <3>7, <3>8, <3>9
      <4>4. CASE i = c + 1 /\ j \in 1..c
        BY <4>4, <3>4, <3>7, <3>8, <3>9
      <4> QED BY <4>1, <4>2, <4>3, <4>4, <3>11
    <3>13. \A s \in T : \E i \in 1..(c + 1) : f[i] = s
      <4> SUFFICES ASSUME NEW s \in T PROVE \E i \in 1..(c + 1) : f[i] = s
        OBVIOUS
      <4>1. CASE s = m + 1
        BY <4>1, <3>4, <3>9
      <4>2. CASE s \in U
        <5>1. PICK i \in 1..c : g[i] = s
          BY <4>2, <3>6
        <5>2. i \in 1..(c + 1)
          BY <3>4
        <5> QED BY <5>1, <5>2, <3>8
      <4> QED BY <4>1, <4>2, <3>7
    <3>14. \A i, j \in 1..(c + 1) : i < j => f[i] < f[j]
      <4> SUFFICES ASSUME NEW i \in 1..(c + 1), NEW j \in 1..(c + 1), i < j PROVE f[i] < f[j]
        OBVIOUS
      <4>1. i \in 1..c
        BY <3>4
      <4>2. CASE j \in 1..c
        BY <4>1, <4>2, <3>6, <3>8
      <4>3. CASE j = c + 1
        <5>1. g[i] \in 1..m /\ g[i] <= m
          BY <4>1, <3>7, <3>8
        <5> QED BY <5>1, <4>1, <4>3, <3>8, <3>9
      <4> QED BY <4>2, <4>3, <3>11
    <3>15. f \in Config!Bijection(1..(c + 1), T) /\ DOMAIN f = 1..(c + 1)
      <4>1. c + 1 \in Nat
        BY <3>4
      <4> QED BY <4>1, <3>10, <3>12, <3>13, BijectionIs
    <3>16. Enumerates(f, T)
      BY <3>5, <3>14, <3>15 DEF Enumerates
    <3> QED BY <3>5, <3>16
  <2> QED BY <2>1, <2>2
<1> HIDE DEF Good
<1>3. Bad = {}
  <2> SUFFICES ASSUME Bad # {} PROVE FALSE
    OBVIOUS
  <2>1. PICK m \in Bad : \A k \in Bad : m <= k
    BY Least
  <2>2. m # 0
    BY <1>1
  <2>3. m - 1 \in Nat /\ Good(m - 1)
    BY <2>1, <2>2
  <2>4. Good((m - 1) + 1)
    BY <2>3, <1>2
  <2> QED BY <2>3, <2>4
<1>4. Good(n)
  BY <1>3
<1> QED BY <1>4 DEF Good

\* InOrder enumerates a set of positions.
LEMMA InOrderIs ==
  ASSUME NEW n \in Nat, NEW S \in SUBSET (1..n)
  PROVE  /\ Cardinality(S) \in Nat
         /\ Config!InOrder(S) \in [1..Cardinality(S) -> S]
         /\ \A i, j \in 1..Cardinality(S) : Config!InOrder(S)[i] = Config!InOrder(S)[j] => i = j
         /\ \A s \in S : \E i \in 1..Cardinality(S) : Config!InOrder(S)[i] = s
<1>1. Cardinality(S) \in Nat
  BY Enumerable, FS_CardinalityType
<1>2. \E f \in Config!Bijection(1..Cardinality(S), S) : \A i, j \in DOMAIN f : i < j => f[i] < f[j]
  BY Enumerable DEF Enumerates
<1>3. Config!InOrder(S) \in Config!Bijection(1..Cardinality(S), S)
  BY <1>2, Libraries DEF Config!InOrder
<1> QED BY <1>1, <1>3, BijectionIs

\* The elements at some positions: each of them, once.
LEMMA ThoseAre ==
  ASSUME NEW X, NEW s \in Seq(X), NEW S \in SUBSET (1..Len(s))
  PROVE  /\ Config!Those(s, S) \in Seq(X)
         /\ \A i \in 1..Len(Config!Those(s, S)) : Config!InOrder(S)[i] \in S /\
              Config!Those(s, S)[i] = s[Config!InOrder(S)[i]]
         /\ \A i, j \in 1..Len(Config!Those(s, S)) : Config!InOrder(S)[i] = Config!InOrder(S)[j] => i = j
         /\ \A k \in S : \E i \in 1..Len(Config!Those(s, S)) : Config!InOrder(S)[i] = k
<1> DEFINE c == Cardinality(S) f == Config!InOrder(S)
<1>1. /\ c \in Nat /\ f \in [1..c -> S]
      /\ \A i, j \in 1..c : f[i] = f[j] => i = j
      /\ \A k \in S : \E i \in 1..c : f[i] = k
  <2>1. Len(s) \in Nat
    OBVIOUS
  <2> QED BY <2>1, InOrderIs
<1>2. Config!Those(s, S) = [i \in 1..c |-> s[f[i]]]
  BY Libraries DEF Config!Those
<1> HIDE DEF c, f
<1>3. \A i \in 1..c : f[i] \in S /\ s[f[i]] \in X
  <2> SUFFICES ASSUME NEW i \in 1..c PROVE f[i] \in S /\ s[f[i]] \in X
    OBVIOUS
  <2>1. f[i] \in S
    BY <1>1
  <2>2. f[i] \in 1..Len(s)
    BY <2>1
  <2>3. \A k \in 1..Len(s) : s[k] \in X
    OBVIOUS
  <2> QED BY <2>1, <2>2, <2>3
<1>4. [i \in 1..c |-> s[f[i]]] \in Seq(X) /\ Len([i \in 1..c |-> s[f[i]]]) = c
  BY <1>1, <1>3
<1>5. Config!Those(s, S) \in Seq(X) /\ Len(Config!Those(s, S)) = c
  BY <1>2, <1>4
<1> QED BY <1>1, <1>2, <1>3, <1>5 DEF f
-----------------------------------------------------------------------------
Changes == [path : Config!Paths, before : Config!Files, text : Config!Texts \cup {None}]
Images == [path : Config!Paths, before : Config!Files, text : Config!Texts \cup {None},
    known : Config!Files \cup {None}]

ConfTypes ==
  /\ texts \in [Config!Paths -> Config!Files]
  /\ saves \in 0..MaxSaves
  /\ cpc \in [Commanders -> {"idle", "looked", "planned", "locked", "open", "written", "done"}]
  /\ undoes \in [Commanders -> Commanders \cup {None}]
  /\ cplan \in [Commanders -> Seq(Changes)]
  /\ next \in [Commanders -> Nat \ {0}]
  /\ known \in [Commanders -> Seq(Config!Files)]
  /\ receipts \in [Commanders -> [status : {"pending", "applied", "partial"}, images : Seq(Images)] \cup {None}]

Placed(f, c) == f[c.path].text = c.text \/ f[c.path].by \in 1..MaxSaves

\* A transaction holds the leases, plans every file once, and the files it has
\* published are there.
Transaction(p) ==
  /\ cpc[p] \in {"locked", "open", "written"} => lock = p
  /\ \A i, j \in 1..Len(cplan[p]) : cplan[p][i].path = cplan[p][j].path => i = j
  /\ cpc[p] = "idle" => undoes[p] = None /\ cplan[p] = <<>>
  /\ cpc[p] \in {"idle", "looked", "planned", "locked"} => next[p] = 1
  /\ cpc[p] = "open" => \A i \in 1..Len(cplan[p]) : i < next[p] => Placed(texts, cplan[p][i])
  /\ cpc[p] = "written" => /\ next[p] <= Len(cplan[p])
                           /\ \A i \in 1..Len(cplan[p]) : i <= next[p] => Placed(texts, cplan[p][i])

\* A receipt that knows anything is not written any more.
Receipted(p) ==
  receipts[p] # None =>
    /\ receipts[p].status # "pending" => cpc[p] = "done"
    /\ receipts[p].status = "pending" => \A i \in 1..Len(receipts[p].images) : receipts[p].images[i].known = None
    /\ \A i, j \in 1..Len(receipts[p].images) :
          receipts[p].images[i].path = receipts[p].images[j].path => i = j

Reverts(x, c) == c = Config!Change(x.path, x.known, x.before.text)

\* What a restore plans, it plans from a receipt that stays as it is.
Restoring(p) ==
  undoes[p] \in Commanders /\ cplan[p] # <<>> =>
    /\ cpc[undoes[p]] = "done"
    /\ receipts[undoes[p]] # None
    /\ \A i \in 1..Len(cplan[p]) : \E k \in 1..Len(receipts[undoes[p]].images) :
          Reverts(receipts[undoes[p]].images[k], cplan[p][i])

\* Between the two readings nothing has moved.
Looking(p) ==
  cpc[p] = "looked" =>
    /\ undoes[p] \in Commanders
    /\ receipts[undoes[p]] # None
    /\ \A i \in 1..Len(cplan[p]) : texts[cplan[p][i].path] = cplan[p][i].before
    /\ \A k \in 1..Len(receipts[undoes[p]].images) :
          \/ Config!Skipped(receipts[undoes[p]].images[k])
          \/ \E i \in 1..Len(cplan[p]) : Reverts(receipts[undoes[p]].images[k], cplan[p][i])

Stands(p) == Transaction(p) /\ Receipted(p) /\ Restoring(p) /\ Looking(p)

ConfInv == ConfTypes /\ \A p \in Commanders : Stands(p)
-----------------------------------------------------------------------------
\* The text of a file.
LEMMA FileText == \A f \in Config!Files : f.text \in Config!Texts \cup {None}
BY DEF Config!Files, Config!Absent, Config!File

\* A sequence from its end.
LEMMA ReverseIs ==
  ASSUME NEW X, NEW s \in Seq(X)
  PROVE  /\ Config!Reverse(s) \in Seq(X) /\ Len(Config!Reverse(s)) = Len(s)
         /\ \A i \in 1..Len(s) : Len(s) - i + 1 \in 1..Len(s) /\ Config!Reverse(s)[i] = s[Len(s) - i + 1]
<1>1. \A i \in 1..Len(s) : Len(s) - i + 1 \in 1..Len(s)
  OBVIOUS
<1>2. Config!Reverse(s) = [i \in 1..Len(s) |-> s[(Len(s) - i) + 1]]
  BY DEF Config!Reverse
<1>3. \A i \in 1..Len(s) : s[Len(s) - i + 1] \in X
  BY <1>1
<1> QED BY <1>1, <1>2, <1>3

Untouched(q) ==
  /\ cpc'[q] = cpc[q] /\ undoes'[q] = undoes[q] /\ cplan'[q] = cplan[q]
  /\ next'[q] = next[q] /\ receipts'[q] = receipts[q]

Over(r) == cpc[r] = "done" => cpc'[r] = "done" /\ receipts'[r] = receipts[r]

\* What a process stands on while another one moves.
LEMMA OthersKept ==
  ASSUME ConfInv, NEW q \in Commanders, Untouched(q), cpc[q] # "looked",
         \A r \in Commanders : Over(r),
         cpc[q] \in {"locked", "open", "written"} =>
            /\ lock' = lock
            /\ \A i \in 1..Len(cplan[q]) : Placed(texts, cplan[q][i]) => Placed(texts', cplan[q][i])
  PROVE  Stands(q)'
<1>1. Transaction(q) /\ Receipted(q) /\ Restoring(q)
  BY DEF ConfInv, Stands
<1>2. Transaction(q)'
  BY <1>1 DEF Transaction, Untouched
<1>3. Receipted(q)'
  BY <1>1 DEF Receipted, Untouched
<1>4. Restoring(q)'
  BY <1>1 DEF Restoring, Untouched, Over
<1>5. Looking(q)'
  BY DEF Looking, Untouched
<1> QED BY <1>2, <1>3, <1>4, <1>5 DEF Stands

\* A step of one process that leaves the files alone.
LEMMA OneStep ==
  ASSUME ConfInv, NEW p \in Commanders, ConfTypes', Stands(p)',
         \A q \in Commanders : q # p => Untouched(q),
         \A q \in Commanders : cpc[q] # "looked",
         cpc[p] # "done",
         texts' = texts, lock' = lock \/ lock = p \/ lock = None
  PROVE  ConfInv'
<1>1. \A r \in Commanders : Over(r)
  BY DEF Over, Untouched
<1>2. ASSUME NEW q \in Commanders, q # p PROVE Stands(q)'
  <2>1. Untouched(q) /\ cpc[q] # "looked"
    BY <1>2
  <2>2. cpc[q] \in {"locked", "open", "written"} => lock' = lock
    BY <1>2, EditsAssumption DEF ConfInv, Stands, Transaction, Config!ConfigAssumption
  <2> QED BY <1>1, <2>1, <2>2, OthersKept
<1> QED BY <1>2 DEF ConfInv

\* The organizer plans three files, each once.
LEMMA OrganizeConf ==
  ASSUME ConfInv, NEW p \in Commanders, Config!PlanOrganize(p), \A q \in Commanders : cpc[q] # "looked"
  PROVE  ConfInv'
<1> DEFINE s == <<Config!Change(Fragment, Config!Absent, texts[Source].text),
                  Config!Change(Root, texts[Root], "includesFragment"),
                  Config!Change(Source, texts[Source], None)>>
<1>1. ConfTypes /\ Transaction(p) /\ Receipted(p) /\ Restoring(p)
  BY DEF ConfInv, Stands
<1>2. s \in Seq(Changes)
  <2>1. texts[Root] \in Config!Files /\ texts[Source] \in Config!Files /\ Config!Absent \in Config!Files
    BY <1>1 DEF ConfTypes, Config!Paths, Config!Files
  <2>2. texts[Source].text \in Config!Texts \cup {None}
    BY <2>1, FileText
  <2>3. "includesFragment" \in Config!Texts
    BY DEF Config!Texts
  <2> HIDE DEF s
  <2>4. /\ Config!Change(Fragment, Config!Absent, texts[Source].text) \in Changes
        /\ Config!Change(Root, texts[Root], "includesFragment") \in Changes
        /\ Config!Change(Source, texts[Source], None) \in Changes
    BY <2>1, <2>2, <2>3 DEF Config!Change, Changes, Config!Paths
  <2> QED BY <2>4 DEF s
<1>3. Len(s) = 3 /\ s[1].path = Fragment /\ s[2].path = Root /\ s[3].path = Source
  BY DEF Config!Change
<1> HIDE DEF s
<1>4. /\ cpc[p] = "idle" /\ cpc' = [cpc EXCEPT ![p] = "planned"] /\ cplan' = [cplan EXCEPT ![p] = s]
      /\ UNCHANGED <<texts, saves, lock, undoes, next, known, receipts>>
  BY DEF Config!PlanOrganize, s
<1>5. ConfTypes'
  BY <1>1, <1>2, <1>4 DEF ConfTypes
<1>6. /\ cpc'[p] = "planned" /\ cplan'[p] = s /\ undoes'[p] = undoes[p] /\ next'[p] = next[p] /\
           receipts'[p] = receipts[p]
      /\ \A q \in Commanders : q # p => Untouched(q)
  BY <1>1, <1>4 DEF ConfTypes, Untouched
<1>7. Transaction(p)'
  <2>1. \A i \in 1..3 : i = 1 \/ i = 2 \/ i = 3
    OBVIOUS
  <2>2. \A i, j \in 1..3 : s[i].path = s[j].path => i = j
    BY <1>3, <2>1, EditsAssumption DEF Config!ConfigAssumption
  <2>3. next'[p] = 1
    BY <1>1, <1>4, <1>6 DEF Transaction
  <2>4. \A i, j \in 1..Len(cplan'[p]) : cplan'[p][i].path = cplan'[p][j].path => i = j
    BY <1>3, <1>6, <2>2
  <2> QED BY <1>6, <2>3, <2>4 DEF Transaction
<1>8. Receipted(p)'
  BY <1>1, <1>4, <1>6 DEF Receipted
<1>9. Restoring(p)'
  BY <1>1, <1>4, <1>6, EditsAssumption DEF Restoring, Transaction, Config!ConfigAssumption
<1>10. Looking(p)'
  BY <1>6 DEF Looking
<1>11. Stands(p)'
  BY <1>7, <1>8, <1>9, <1>10 DEF Stands
<1> QED BY <1>4, <1>5, <1>6, <1>11, OneStep

\* The plan of a restore, from the images that are not skipped.
Left(m) == Config!Those(Config!RestoreOrder(m),
    {i \in DOMAIN Config!RestoreOrder(m) : ~Config!Skipped(Config!RestoreOrder(m)[i])})
Putting(m) == [i \in 1..Len(Left(m)) |-> Config!Change(Left(m)[i].path, Left(m)[i].known,
    Left(m)[i].before.text)]

\* Each change puts back one image from the state its receipt knows, and every image is skipped or put back.
LEMMA RestorePlanIs ==
  ASSUME ConfTypes, NEW m \in Seq(Images),
         \A i, j \in 1..Len(m) : m[i].path = m[j].path => i = j,
         \A i \in 1..Len(m) : Config!Skipped(m[i]) \/ Config!Recorded(m[i])
  PROVE  /\ Putting(m) \in Seq(Changes)
         /\ \A i, j \in 1..Len(Putting(m)) : Putting(m)[i].path = Putting(m)[j].path => i = j
         /\ \A i \in 1..Len(Putting(m)) :
               /\ texts[Putting(m)[i].path] = Putting(m)[i].before
               /\ \E k \in 1..Len(m) : Reverts(m[k], Putting(m)[i]) /\ m[k].known # None
         /\ \A k \in 1..Len(m) : Config!Skipped(m[k]) \/
              \E i \in 1..Len(Putting(m)) : Reverts(m[k], Putting(m)[i])
<1> DEFINE all == Config!RestoreOrder(m) S == {i \in DOMAIN all : ~Config!Skipped(all[i])} f == Config!InOrder(S)
           left == Left(m) s == Putting(m)
<1>1. Len(m) \in Nat /\ \A i \in 1..Len(m) : m[i] \in Images
  OBVIOUS
<1>3. all = Config!Reverse(m)
  BY DEF Config!RestoreOrder
<1>8. left = Config!Those(all, S)
  BY DEF Left
<1>16a. s = [i \in 1..Len(left) |-> Config!Change(left[i].path, left[i].known, left[i].before.text)]
  BY DEF Putting
<1> HIDE DEF left, s
<1>6. /\ all \in Seq(Images) /\ Len(all) = Len(m)
      /\ \A i \in 1..Len(m) : Len(m) - i + 1 \in 1..Len(m) /\ all[i] = m[Len(m) - i + 1]
  BY <1>3, ReverseIs
<1>7. S \in SUBSET (1..Len(all)) /\ \A i \in S : ~Config!Skipped(all[i])
  BY <1>6
<1> HIDE DEF all, S
<1>9. /\ left \in Seq(Images)
      /\ \A i \in 1..Len(left) : f[i] \in S /\ left[i] = all[f[i]]
      /\ \A i, j \in 1..Len(left) : f[i] = f[j] => i = j
      /\ \A k \in S : \E i \in 1..Len(left) : f[i] = k
  <2>1. /\ Config!Those(all, S) \in Seq(Images)
        /\ \A i \in 1..Len(Config!Those(all, S)) : Config!InOrder(S)[i] \in S /\
             Config!Those(all, S)[i] = all[Config!InOrder(S)[i]]
        /\ \A i, j \in 1..Len(Config!Those(all, S)) : Config!InOrder(S)[i] = Config!InOrder(S)[j] => i = j
        /\ \A k \in S : \E i \in 1..Len(Config!Those(all, S)) : Config!InOrder(S)[i] = k
    BY <1>6, <1>7, ThoseAre
  <2> QED BY <1>8, <2>1
<1> HIDE DEF f
\* Every change comes from one image.
<1> DEFINE g(i) == Len(m) - f[i] + 1
<1>10. \A i \in 1..Len(left) : g(i) \in 1..Len(m) /\ left[i] = m[g(i)] /\ ~Config!Skipped(m[g(i)])
  <2> SUFFICES ASSUME NEW i \in 1..Len(left)
               PROVE  g(i) \in 1..Len(m) /\ left[i] = m[g(i)] /\ ~Config!Skipped(m[g(i)])
    OBVIOUS
  <2>1. f[i] \in S /\ left[i] = all[f[i]]
    BY <1>9
  <2>2. f[i] \in 1..Len(m) /\ ~Config!Skipped(all[f[i]])
    BY <2>1, <1>6, <1>7
  <2> QED BY <2>1, <2>2, <1>6
<1>11. \A i, j \in 1..Len(left) : g(i) = g(j) => i = j
  <2> SUFFICES ASSUME NEW i \in 1..Len(left), NEW j \in 1..Len(left), g(i) = g(j) PROVE i = j
    OBVIOUS
  <2>1. f[i] \in 1..Len(m) /\ f[j] \in 1..Len(m)
    BY <1>6, <1>7, <1>9
  <2>2. f[i] = f[j]
    BY <2>1, <1>1
  <2> QED BY <2>2, <1>9
<1>12. \A k \in 1..Len(m) : ~Config!Skipped(m[k]) => \E i \in 1..Len(left) : left[i] = m[k]
  <2> SUFFICES ASSUME NEW k \in 1..Len(m), ~Config!Skipped(m[k]) PROVE \E i \in 1..Len(left) : left[i] = m[k]
    OBVIOUS
  <2> DEFINE n == Len(m) - k + 1
  <2>1. n \in 1..Len(m) /\ Len(m) - n + 1 = k
    BY <1>1
  <2>2. all[n] = m[k]
    BY <2>1, <1>6
  <2>3. n \in S
    BY <2>1, <2>2, <1>6 DEF S
  <2>4. PICK i \in 1..Len(left) : f[i] = n
    BY <2>3, <1>9
  <2>5. left[i] = all[n]
    BY <2>4, <1>9
  <2> QED BY <2>2, <2>5
<1> HIDE DEF g
<1>13. Len(left) \in Nat /\ \A i \in 1..Len(left) : left[i] \in Images
  BY <1>9
<1>14. \A i \in 1..Len(left) : Config!Recorded(left[i])
  BY <1>10
<1>15. \A i \in 1..Len(left) : Config!Change(left[i].path, left[i].known, left[i].before.text) \in Changes
  <2> SUFFICES ASSUME NEW i \in 1..Len(left)
               PROVE  Config!Change(left[i].path, left[i].known, left[i].before.text) \in Changes
    OBVIOUS
  <2>1. left[i] \in Images /\ texts[left[i].path] = left[i].known
    BY <1>13, <1>14 DEF Config!Recorded, Config!Current
  <2>2. left[i].path \in Config!Paths /\ left[i].before \in Config!Files
    BY <2>1 DEF Images
  <2>3. left[i].known \in Config!Files /\ left[i].before.text \in Config!Texts \cup {None}
    BY <2>1, <2>2, FileText DEF ConfTypes
  <2> QED BY <2>2, <2>3 DEF Config!Change, Changes
<1>16. s \in Seq(Changes) /\ Len(s) = Len(left)
       /\ \A i \in 1..Len(left) : s[i] = Config!Change(left[i].path, left[i].known, left[i].before.text)
  BY <1>13, <1>15, <1>16a
<1>17. \A i \in 1..Len(left) : s[i].path = left[i].path /\ s[i].before = left[i].known
  <2> SUFFICES ASSUME NEW i \in 1..Len(left) PROVE s[i].path = left[i].path /\ s[i].before = left[i].known
    OBVIOUS
  <2>1. s[i] = Config!Change(left[i].path, left[i].known, left[i].before.text)
    BY <1>16
  <2> QED BY <2>1 DEF Config!Change
<1>18. \A i, j \in 1..Len(s) : s[i].path = s[j].path => i = j
  <2> SUFFICES ASSUME NEW i \in 1..Len(left), NEW j \in 1..Len(left), s[i].path = s[j].path PROVE i = j
    BY <1>16
  <2>1. m[g(i)].path = m[g(j)].path /\ g(i) \in 1..Len(m) /\ g(j) \in 1..Len(m)
    BY <1>10, <1>17
  <2> QED BY <2>1, <1>11
<1>19. \A i \in 1..Len(s) : /\ texts[s[i].path] = s[i].before
                            /\ \E k \in 1..Len(m) : Reverts(m[k], s[i]) /\ m[k].known # None
  <2> SUFFICES ASSUME NEW i \in 1..Len(left)
               PROVE  /\ texts[s[i].path] = s[i].before
                      /\ \E k \in 1..Len(m) : Reverts(m[k], s[i]) /\ m[k].known # None
    BY <1>16
  <2>1. left[i].known # None /\ texts[left[i].path] = left[i].known
    BY <1>14 DEF Config!Recorded, Config!Current
  <2>2. g(i) \in 1..Len(m) /\ left[i] = m[g(i)]
    BY <1>10
  <2>3. Reverts(m[g(i)], s[i])
    BY <2>2, <1>16 DEF Reverts
  <2>4. m[g(i)].known # None
    BY <2>1, <2>2
  <2> QED BY <2>1, <2>2, <2>3, <2>4, <1>17
<1>20. \A k \in 1..Len(m) : Config!Skipped(m[k]) \/ \E i \in 1..Len(s) : Reverts(m[k], s[i])
  <2> SUFFICES ASSUME NEW k \in 1..Len(m), ~Config!Skipped(m[k]) PROVE \E i \in 1..Len(s) : Reverts(m[k], s[i])
    OBVIOUS
  <2>1. PICK i \in 1..Len(left) : left[i] = m[k]
    BY <1>12
  <2>2. Reverts(m[k], s[i])
    BY <2>1, <1>16 DEF Reverts
  <2> QED BY <2>2, <1>16
<1> QED BY <1>16, <1>18, <1>19, <1>20 DEF s

\* A restore reads the receipt of a process that is done, if there is anything to put back.
LEMMA LookConf ==
  ASSUME ConfInv, NEW p \in Commanders, NEW q \in Commanders, Config!RestoreLook(p, q),
           \A r \in Commanders : cpc[r] # "looked"
  PROVE  ConfInv'
<1> DEFINE s == Putting(receipts[q].images)
<1>1. ConfTypes /\ Transaction(p) /\ Receipted(p) /\ Restoring(p) /\ Receipted(q)
  BY DEF ConfInv, Stands
<1>2. /\ cpc[p] = "idle" /\ receipts[q] # None
      /\ \A i \in 1..Len(receipts[q].images) : Config!Skipped(receipts[q].images[i]) \/
           Config!Recorded(receipts[q].images[i])
      /\ cpc' = [cpc EXCEPT ![p] = "looked"] /\ undoes' = [undoes EXCEPT ![p] = q]
      /\ cplan' = [cplan EXCEPT ![p] = s]
      /\ UNCHANGED <<texts, saves, lock, next, known, receipts>>
  BY DEF Config!RestoreLook, Putting, Left
<1>3. /\ s \in Seq(Changes)
      /\ \A i, j \in 1..Len(s) : s[i].path = s[j].path => i = j
      /\ \A i \in 1..Len(s) : /\ texts[s[i].path] = s[i].before
                              /\ \E k \in 1..Len(receipts[q].images) :
                                    Reverts(receipts[q].images[k], s[i]) /\ receipts[q].images[k].known # None
      /\ \A k \in 1..Len(receipts[q].images) :
            Config!Skipped(receipts[q].images[k]) \/ \E i \in 1..Len(s) : Reverts(receipts[q].images[k], s[i])
  <2>1. \A i, j \in 1..Len(receipts[q].images) : receipts[q].images[i].path = receipts[q].images[j].path =>
           i = j
    BY <1>1, <1>2 DEF Receipted
  <2>2. receipts[q].images \in Seq(Images)
    BY <1>1, <1>2 DEF ConfTypes
  <2> QED BY <1>1, <1>2, <2>1, <2>2, RestorePlanIs
<1> HIDE DEF s
<1>4. ConfTypes'
  BY <1>1, <1>2, <1>3 DEF ConfTypes
<1>5. /\ cpc'[p] = "looked" /\ cplan'[p] = s /\ undoes'[p] = q /\ next'[p] = next[p] /\
           receipts'[p] = receipts[p]
      /\ \A r \in Commanders : r # p => Untouched(r)
  BY <1>1, <1>2 DEF ConfTypes, Untouched
<1>6. Transaction(p)'
  <2>1. next'[p] = 1
    BY <1>1, <1>2, <1>5 DEF Transaction
  <2> QED BY <1>3, <1>5, <2>1 DEF Transaction
<1>7. Receipted(p)'
  BY <1>1, <1>2, <1>5 DEF Receipted
<1>8. Restoring(p)'
  <2>1. ASSUME s # <<>> PROVE cpc[q] = "done"
    <3>1. Len(s) \in Nat /\ Len(s) # 0
      BY <1>3, <2>1
    <3>2. 1 \in 1..Len(s)
      BY <3>1
    <3>3. PICK k \in 1..Len(receipts[q].images) : receipts[q].images[k].known # None
      BY <1>3, <3>2
    <3> QED BY <1>1, <1>2, <3>3 DEF Receipted
  <2>2. s # <<>> => cpc'[q] = "done"
    BY <2>1, <1>2, <1>5 DEF Untouched
  <2>3. receipts' = receipts
    BY <1>2
  <2> QED BY <1>2, <1>3, <1>5, <2>2, <2>3 DEF Restoring
<1>9. Looking(p)'
  <2>1. texts' = texts /\ receipts' = receipts
    BY <1>2
  <2>2. \A k \in 1..Len(receipts[q].images) :
           \/ texts'[receipts[q].images[k].path].text = receipts[q].images[k].before.text
           \/ \E i \in 1..Len(s) : Reverts(receipts[q].images[k], s[i])
    BY <1>3, <2>1 DEF Config!Skipped
  <2>3. \A i \in 1..Len(s) : texts'[s[i].path] = s[i].before
    BY <1>3, <2>1
  <2>4. receipts'[q] # None
    BY <1>2
  <2> HIDE DEF Reverts
  <2> QED BY <1>5, <2>1, <2>2, <2>3, <2>4 DEF Looking, Config!Skipped
<1>10. Stands(p)'
  BY <1>6, <1>7, <1>8, <1>9 DEF Stands
<1> QED BY <1>2, <1>4, <1>5, <1>10, OneStep

\* What the second reading leaves of a plan: the changes that change anything.
Needed(p) == Config!Those(cplan[p], {i \in DOMAIN cplan[p] : texts[cplan[p][i].path].text # cplan[p][i].text})
Captured(p) == [i \in 1..Len(Needed(p)) |-> Config!Change(Needed(p)[i].path, texts[Needed(p)[i].path],
    Needed(p)[i].text)]

\* While nothing has moved the second reading keeps what it does not drop.
LEMMA CapturedIs ==
  ASSUME ConfTypes, NEW p \in Commanders, Transaction(p),
         \A i \in 1..Len(cplan[p]) : texts[cplan[p][i].path] = cplan[p][i].before
  PROVE  /\ Captured(p) \in Seq(Changes) /\ (Needed(p) = <<>> <=> Captured(p) = <<>>)
         /\ \A i, j \in 1..Len(Captured(p)) : Captured(p)[i].path = Captured(p)[j].path => i = j
         /\ \A i \in 1..Len(Captured(p)) : \E k \in 1..Len(cplan[p]) : Captured(p)[i] = cplan[p][k]
         /\ \A k \in 1..Len(cplan[p]) :
               \/ texts[cplan[p][k].path].text = cplan[p][k].text
               \/ \E i \in 1..Len(Captured(p)) : Captured(p)[i] = cplan[p][k]
<1> DEFINE m == cplan[p] S == {i \in DOMAIN m : texts[m[i].path].text # m[i].text} f == Config!InOrder(S)
           left == Needed(p) s == Captured(p)
<1>1. m \in Seq(Changes) /\ Len(m) \in Nat /\ \A i \in 1..Len(m) : m[i] \in Changes /\
         texts[m[i].path] = m[i].before
  BY DEF ConfTypes
<1>2. \A i, j \in 1..Len(m) : m[i].path = m[j].path => i = j
  BY DEF Transaction
<1>3. left = Config!Those(m, S)
  BY DEF Needed
<1>4. s = [i \in 1..Len(left) |-> Config!Change(left[i].path, texts[left[i].path], left[i].text)]
  BY DEF Captured
<1>5. /\ S \in SUBSET (1..Len(m))
      /\ \A k \in 1..Len(m) : texts[m[k].path].text = m[k].text \/ k \in S
  BY <1>1
<1> HIDE DEF left, s, m, S
<1>6. /\ left \in Seq(Changes)
      /\ \A i \in 1..Len(left) : f[i] \in S /\ left[i] = m[f[i]]
      /\ \A i, j \in 1..Len(left) : f[i] = f[j] => i = j
      /\ \A k \in S : \E i \in 1..Len(left) : f[i] = k
  <2>1. /\ Config!Those(m, S) \in Seq(Changes)
        /\ \A i \in 1..Len(Config!Those(m, S)) : Config!InOrder(S)[i] \in S /\
             Config!Those(m, S)[i] = m[Config!InOrder(S)[i]]
        /\ \A i, j \in 1..Len(Config!Those(m, S)) : Config!InOrder(S)[i] = Config!InOrder(S)[j] => i = j
        /\ \A k \in S : \E i \in 1..Len(Config!Those(m, S)) : Config!InOrder(S)[i] = k
    <3>1. m \in Seq(Changes) /\ S \in SUBSET (1..Len(m))
      BY <1>1, <1>5
    <3> HIDE DEF f
    <3> QED BY <3>1, ThoseAre
  <2> QED BY <1>3, <2>1
<1> HIDE DEF f
<1>7. \A i \in 1..Len(left) : f[i] \in 1..Len(m) /\ left[i] = m[f[i]]
  BY <1>5, <1>6
<1>8. \A i \in 1..Len(left) : Config!Change(left[i].path, texts[left[i].path], left[i].text) = m[f[i]] /\
         m[f[i]] \in Changes
  <2> SUFFICES ASSUME NEW i \in 1..Len(left)
               PROVE  Config!Change(left[i].path, texts[left[i].path], left[i].text) = m[f[i]] /\
                        m[f[i]] \in Changes
    OBVIOUS
  <2>1. left[i] = m[f[i]] /\ m[f[i]] \in Changes /\ texts[left[i].path] = left[i].before
    BY <1>1, <1>7
  <2>2. left[i] \in Changes
    BY <2>1
  <2>3. left[i] = Config!Change(left[i].path, left[i].before, left[i].text)
    BY <2>2 DEF Changes, Config!Change
  <2> QED BY <2>1, <2>3
<1>9. Len(left) \in Nat
  BY <1>6
<1>10. s \in Seq(Changes) /\ Len(s) = Len(left) /\ \A i \in 1..Len(left) : s[i] = m[f[i]]
  BY <1>4, <1>8, <1>9
<1>11. left = <<>> <=> s = <<>>
  BY <1>6, <1>10
<1>12. \A i, j \in 1..Len(s) : s[i].path = s[j].path => i = j
  <2> SUFFICES ASSUME NEW i \in 1..Len(left), NEW j \in 1..Len(left), s[i].path = s[j].path PROVE i = j
    BY <1>10
  <2>1. m[f[i]].path = m[f[j]].path /\ f[i] \in 1..Len(m) /\ f[j] \in 1..Len(m)
    BY <1>7, <1>10
  <2>2. f[i] = f[j]
    BY <2>1, <1>2
  <2> QED BY <2>2, <1>6
<1>13. \A i \in 1..Len(s) : \E k \in 1..Len(m) : s[i] = m[k]
  BY <1>7, <1>10
<1>14. \A k \in 1..Len(m) : texts[m[k].path].text = m[k].text \/ \E i \in 1..Len(s) : s[i] = m[k]
  <2> SUFFICES ASSUME NEW k \in S PROVE \E i \in 1..Len(s) : s[i] = m[k]
    BY <1>5
  <2>1. PICK i \in 1..Len(left) : f[i] = k
    BY <1>6
  <2> QED BY <2>1, <1>10
<1> QED BY <1>10, <1>11, <1>12, <1>13, <1>14 DEF s, m, left

\* The second reading, and what the plan covers behind it.
LEMMA CaptureConf ==
  ASSUME ConfInv, NEW p \in Commanders, Config!RestoreCapture(p)
  PROVE  ConfInv' /\ Config!Covers(p)
<1> DEFINE s == Captured(p) images == receipts[undoes[p]].images
<1>1. ConfTypes /\ Transaction(p) /\ Receipted(p) /\ Restoring(p) /\ Looking(p)
  BY DEF ConfInv, Stands
<1>2. /\ cpc[p] = "looked" /\ cplan' = [cplan EXCEPT ![p] = s]
      /\ cpc' = [cpc EXCEPT ![p] = IF Needed(p) = <<>> THEN "done" ELSE "planned"]
      /\ UNCHANGED <<texts, saves, lock, undoes, next, known, receipts>>
  BY DEF Config!RestoreCapture, Captured, Needed
<1>3. /\ undoes[p] \in Commanders /\ receipts[undoes[p]] # None
      /\ \A i \in 1..Len(cplan[p]) : texts[cplan[p][i].path] = cplan[p][i].before
      /\ \A k \in 1..Len(images) : Config!Skipped(images[k]) \/
           \E i \in 1..Len(cplan[p]) : Reverts(images[k], cplan[p][i])
  BY <1>1, <1>2 DEF Looking
<1>4. /\ s \in Seq(Changes) /\ (Needed(p) = <<>> <=> s = <<>>)
      /\ \A i, j \in 1..Len(s) : s[i].path = s[j].path => i = j
      /\ \A i \in 1..Len(s) : \E k \in 1..Len(cplan[p]) : s[i] = cplan[p][k]
      /\ \A k \in 1..Len(cplan[p]) : texts[cplan[p][k].path].text = cplan[p][k].text \/
           \E i \in 1..Len(s) : s[i] = cplan[p][k]
  BY <1>1, <1>3, CapturedIs
<1> HIDE DEF s
<1>5. ConfTypes'
  BY <1>1, <1>2, <1>4 DEF ConfTypes
<1>6. /\ cpc'[p] \in {"done", "planned"} /\ cplan'[p] = s /\ undoes'[p] = undoes[p] /\ next'[p] = next[p] /\
           receipts'[p] = receipts[p]
      /\ \A r \in Commanders : r # p => Untouched(r)
  BY <1>1, <1>2 DEF ConfTypes, Untouched
<1>7. Transaction(p)'
  <2>1. next'[p] = 1
    BY <1>1, <1>2, <1>6 DEF Transaction
  <2> QED BY <1>4, <1>6, <2>1 DEF Transaction
<1>8. Receipted(p)'
  <2>1. receipts[p] = None \/ receipts[p].status = "pending"
    BY <1>1, <1>2 DEF Receipted
  <2> QED BY <1>1, <1>6, <2>1 DEF Receipted
<1>9. Restoring(p)'
  <2>1. ASSUME s # <<>> PROVE cplan[p] # <<>>
    <3>1. 1 \in 1..Len(s)
      BY <1>4, <2>1
    <3>2. PICK k \in 1..Len(cplan[p]) : s[1] = cplan[p][k]
      BY <1>4, <3>1
    <3> QED BY <3>2
  <2>2. ASSUME s # <<>>
        PROVE  /\ cpc[undoes[p]] = "done"
               /\ \A i \in 1..Len(cplan[p]) : \E k \in 1..Len(images) : Reverts(images[k], cplan[p][i])
    BY <2>1, <2>2, <1>1, <1>3 DEF Restoring
  <2>3. ASSUME s # <<>> PROVE cpc'[undoes[p]] = "done"
    BY <2>2, <2>3, <1>2, <1>3, <1>6 DEF Untouched
  <2>4. ASSUME s # <<>> PROVE \A i \in 1..Len(s) : \E k \in 1..Len(images) : Reverts(images[k], s[i])
    BY <2>2, <2>4, <1>4
  <2>5. receipts' = receipts
    BY <1>2
  <2> QED BY <1>3, <1>6, <2>3, <2>4, <2>5 DEF Restoring
<1>10. Stands(p)'
  BY <1>6, <1>7, <1>8, <1>9 DEF Stands, Looking
<1>11. ASSUME NEW q \in Commanders, q # p PROVE Stands(q)'
  <2>1. Untouched(q) /\ Transaction(q) /\ Receipted(q) /\ Restoring(q) /\ Looking(q)
    BY <1>6, <1>11 DEF ConfInv, Stands
  <2>2. texts' = texts /\ receipts' = receipts /\ lock' = lock
    BY <1>2
  <2>3. \A r \in Commanders : Over(r)
    BY <1>2, <1>6 DEF Over, Untouched
  <2>4. Transaction(q)' /\ Receipted(q)'
    BY <2>1, <2>2 DEF Transaction, Receipted, Untouched
  <2>5. Restoring(q)'
    BY <2>1, <2>3 DEF Restoring, Untouched, Over
  <2>6. Looking(q)'
    BY <2>1, <2>2 DEF Looking, Untouched, Config!Skipped
  <2> QED BY <2>4, <2>5, <2>6 DEF Stands
<1>12. Config!Covers(p)
  <2> SUFFICES ASSUME NEW k \in 1..Len(images)
               PROVE  \/ texts[images[k].path].text = images[k].before.text
                      \/ \E i \in 1..Len(s) : s[i] = Config!Change(images[k].path, texts[images[k].path],
                           images[k].before.text)
    BY <1>6 DEF Config!Covers
  <2>1. CASE Config!Skipped(images[k])
    BY <2>1 DEF Config!Skipped
  <2>2. ASSUME NEW i \in 1..Len(cplan[p]), Reverts(images[k], cplan[p][i])
        PROVE  \/ texts[images[k].path].text = images[k].before.text
               \/ \E j \in 1..Len(s) : s[j] = Config!Change(images[k].path, texts[images[k].path],
                    images[k].before.text)
    <3>1. cplan[p][i] = Config!Change(images[k].path, images[k].known, images[k].before.text)
      BY <2>2 DEF Reverts
    <3>2. /\ cplan[p][i].path = images[k].path /\ cplan[p][i].before = images[k].known
          /\ cplan[p][i].text = images[k].before.text
      BY <3>1 DEF Config!Change
    <3>3. texts[images[k].path] = images[k].known
      BY <3>2, <1>3
    <3>4. cplan[p][i] = Config!Change(images[k].path, texts[images[k].path], images[k].before.text)
      BY <3>1, <3>3
    <3>5. texts[cplan[p][i].path].text = cplan[p][i].text \/ \E j \in 1..Len(s) : s[j] = cplan[p][i]
      BY <1>4
    <3>6. texts[cplan[p][i].path] = texts[images[k].path]
      BY <3>2
    <3> HIDE DEF images
    <3> QED BY <3>2, <3>4, <3>5, <3>6
  <2> QED BY <1>3, <2>1, <2>2
<1> QED BY <1>5, <1>10, <1>11, <1>12 DEF ConfInv

\* A receipt has an image of every change.
LEMMA ReceiptIs ==
  ASSUME ConfTypes, NEW p \in Commanders, NEW status \in {"pending", "applied", "partial"},
           NEW after \in Seq(Config!Files),
         \A i, j \in 1..Len(cplan[p]) : cplan[p][i].path = cplan[p][j].path => i = j
  PROVE  /\ Config!Receipt(p, status, after) \in [status : {"pending", "applied", "partial"},
              images : Seq(Images)]
         /\ Config!Receipt(p, status, after).status = status
         /\ \A i, j \in 1..Len(Config!Receipt(p, status, after).images) :
               Config!Receipt(p, status, after).images[i].path = Config!Receipt(p, status,
                   after).images[j].path => i = j
         /\ Len(after) = 0 => \A i \in 1..Len(Config!Receipt(p, status, after).images) :
                                 Config!Receipt(p, status, after).images[i].known = None
<1> DEFINE w(i) == IF i <= Len(after) THEN after[i] ELSE None
           m == [i \in 1..Len(cplan[p]) |-> Config!Image(cplan[p][i], w(i))]
<1>1. /\ cplan[p] \in Seq(Changes) /\ Len(cplan[p]) \in Nat /\ Len(after) \in Nat
      /\ \A i \in 1..Len(cplan[p]) : cplan[p][i] \in Changes
  BY DEF ConfTypes
<1>2. \A i \in 1..Len(cplan[p]) : w(i) \in Config!Files \cup {None} /\ (Len(after) = 0 => w(i) = None)
  BY <1>1
<1>3. Config!Receipt(p, status, after) = [status |-> status, images |-> m]
  BY DEF Config!Receipt
<1> HIDE DEF w
<1>4. \A i \in 1..Len(cplan[p]) : /\ Config!Image(cplan[p][i], w(i)) \in Images
                                  /\ Config!Image(cplan[p][i], w(i)).path = cplan[p][i].path
                                  /\ Config!Image(cplan[p][i], w(i)).known = w(i)
  BY <1>1, <1>2 DEF Config!Image, Images, Changes
<1>5. m \in Seq(Images) /\ Len(m) = Len(cplan[p]) /\
         \A i \in 1..Len(cplan[p]) : m[i] = Config!Image(cplan[p][i], w(i))
  BY <1>1, <1>4
<1> HIDE DEF m
<1>6. Config!Receipt(p, status, after).status = status /\ Config!Receipt(p, status, after).images = m
  BY <1>3
<1>7. Config!Receipt(p, status, after) \in [status : {"pending", "applied", "partial"}, images : Seq(Images)]
  BY <1>3, <1>5
<1>8. \A i, j \in 1..Len(m) : m[i].path = m[j].path => i = j
  BY <1>4, <1>5
<1>9. Len(after) = 0 => \A i \in 1..Len(m) : m[i].known = None
  BY <1>2, <1>4, <1>5
<1> QED BY <1>6, <1>7, <1>8, <1>9

\* The receipt at the end of a transaction.
LEMMA SavedIs ==
  ASSUME ConfTypes, NEW p \in Commanders, Transaction(p), NEW status \in {"applied", "partial"}
  PROVE  /\ Config!Receipt(p, status, known[p]) \in [status : {"pending", "applied", "partial"},
              images : Seq(Images)]
         /\ Config!Receipt(p, status, known[p]).status # "pending"
         /\ \A i, j \in 1..Len(Config!Receipt(p, status, known[p]).images) :
               Config!Receipt(p, status, known[p]).images[i].path = Config!Receipt(p, status,
                   known[p]).images[j].path => i = j
<1>1. \A i, j \in 1..Len(cplan[p]) : cplan[p][i].path = cplan[p][j].path => i = j
  BY DEF Transaction
<1>2. known[p] \in Seq(Config!Files) /\ status \in {"pending", "applied", "partial"} /\ status # "pending"
  BY DEF ConfTypes
<1> QED BY <1>1, <1>2, ReceiptIs

\* A step that only moves a process on, or ends it.
Ends(p) ==
  /\ cpc[p] \notin {"idle", "done"} /\ cpc' = [cpc EXCEPT ![p] = "done"]
  /\ UNCHANGED <<texts, saves, undoes, cplan, next, known>>

\* A process that ends writes no receipt, or its last one.
LEMMA EndConf ==
  ASSUME ConfInv, NEW p \in Commanders, Ends(p), \A q \in Commanders : cpc[q] # "looked",
         lock' = lock \/ lock = p,
         NEW receipt, receipts' = [receipts EXCEPT ![p] = receipt],
         receipt = receipts[p] \/ \E status \in {"applied", "partial"} : receipt = Config!Receipt(p, status,
             known[p])
  PROVE  ConfInv'
<1>1. ConfTypes /\ Transaction(p) /\ Receipted(p) /\ Restoring(p)
  BY DEF ConfInv, Stands
<1>2. /\ receipt \in [status : {"pending", "applied", "partial"}, images : Seq(Images)] \cup {None}
      /\ \/ receipt = receipts[p]
         \/ /\ receipt.status # "pending"
            /\ \A i, j \in 1..Len(receipt.images) : receipt.images[i].path = receipt.images[j].path => i = j
  <2>1. CASE receipt = receipts[p]
    BY <2>1, <1>1 DEF ConfTypes
  <2>2. ASSUME NEW status \in {"applied", "partial"}, receipt = Config!Receipt(p, status, known[p])
        PROVE  /\ receipt \in [status : {"pending", "applied", "partial"}, images : Seq(Images)]
               /\ receipt.status # "pending"
               /\ \A i, j \in 1..Len(receipt.images) : receipt.images[i].path = receipt.images[j].path => i = j
    BY <1>1, <2>2, SavedIs
  <2> QED BY <2>1, <2>2
<1>3. ConfTypes'
  BY <1>1, <1>2 DEF ConfTypes, Ends
<1>4. /\ cpc'[p] = "done" /\ cplan'[p] = cplan[p] /\ undoes'[p] = undoes[p] /\ receipts'[p] = receipt
      /\ \A r \in Commanders : r # p => Untouched(r)
  BY <1>1 DEF ConfTypes, Untouched, Ends
<1>5. Transaction(p)'
  BY <1>1, <1>4 DEF Transaction
<1>6. Receipted(p)'
  BY <1>1, <1>2, <1>4 DEF Receipted
<1>7. Restoring(p)'
  <2>1. cpc[p] # "done"
    BY DEF Ends
  <2>2. \A r \in Commanders : cpc[r] = "done" => cpc'[r] = "done" /\ receipts'[r] = receipts[r]
    BY <1>4, <2>1 DEF Untouched
  <2> QED BY <1>1, <1>4, <2>2 DEF Restoring
<1>8. Stands(p)'
  BY <1>4, <1>5, <1>6, <1>7 DEF Stands, Looking
<1> QED BY <1>3, <1>4, <1>8, OneStep DEF Ends

\* A transaction that is refused outside the leases,
LEMMA RefuseConf ==
  ASSUME ConfInv, NEW p \in Commanders, Config!Refuse(p), \A q \in Commanders : cpc[q] # "looked"
  PROVE  ConfInv'
<1>1. receipts' = [receipts EXCEPT ![p] = receipts[p]]
  BY DEF Config!Refuse, ConfInv, ConfTypes
<1>2. Ends(p) /\ lock' = lock
  BY DEF Config!Refuse, Ends
<1> QED BY <1>1, <1>2, EndConf

\* refused under them,
LEMMA LeaveConf ==
  ASSUME ConfInv, NEW p \in Commanders, Config!Leave(p), \A q \in Commanders : cpc[q] # "looked"
  PROVE  ConfInv'
<1>1. receipts' = [receipts EXCEPT ![p] = receipts[p]]
  BY DEF Config!Leave, ConfInv, ConfTypes
<1>2. Ends(p) /\ lock = p
  BY DEF Config!Leave, Ends, ConfInv, Stands, Transaction
<1> QED BY <1>1, <1>2, EndConf

\* killed,
LEMMA KillConf ==
  ASSUME ConfInv, NEW p \in Commanders, Config!Kill(p), \A q \in Commanders : cpc[q] # "looked"
  PROVE  ConfInv'
<1>1. receipts' = [receipts EXCEPT ![p] = receipts[p]]
  BY DEF Config!Kill, ConfInv, ConfTypes
<1>2. Ends(p) /\ lock = p
  BY DEF Config!Kill, Ends, ConfInv, Stands, Transaction
<1> QED BY <1>1, <1>2, EndConf

\* stopped half way,
LEMMA StopConf ==
  ASSUME ConfInv, NEW p \in Commanders, Config!Stop(p), \A q \in Commanders : cpc[q] # "looked"
  PROVE  ConfInv'
<1>1. receipts' = [receipts EXCEPT ![p] = Config!Receipt(p, "partial", known[p])]
  BY DEF Config!Stop, Config!SavePartial
<1>2. Ends(p) /\ lock = p
  BY DEF Config!Stop, Ends, ConfInv, Stands, Transaction
<1> QED BY <1>1, <1>2, EndConf

\* or complete.
LEMMA FinishConf ==
  ASSUME ConfInv, NEW p \in Commanders, Config!Finish(p), \A q \in Commanders : cpc[q] # "looked"
  PROVE  ConfInv'
<1>1. receipts' = [receipts EXCEPT ![p] = Config!Receipt(p, "applied", known[p])]
  BY DEF Config!Finish
<1>2. Ends(p) /\ lock = p
  BY DEF Config!Finish, Ends, ConfInv, Stands, Transaction
<1> QED BY <1>1, <1>2, EndConf

\* The leases are taken when nobody has them.
LEMMA EnterConf ==
  ASSUME ConfInv, NEW p \in Commanders, Config!Enter(p), \A q \in Commanders : cpc[q] # "looked"
  PROVE  ConfInv'
<1>1. ConfTypes /\ Transaction(p) /\ Receipted(p) /\ Restoring(p)
  BY DEF ConfInv, Stands
<1>2. /\ cpc[p] = "planned" /\ lock = None /\ lock' = p /\ cpc' = [cpc EXCEPT ![p] = "locked"]
      /\ UNCHANGED <<texts, saves, undoes, cplan, guards, next, known, receipts>>
  BY DEF Config!Enter
<1>3. ConfTypes'
  BY <1>1, <1>2 DEF ConfTypes
<1>4. cpc'[p] = "locked" /\ \A r \in Commanders : r # p => Untouched(r)
  BY <1>1, <1>2 DEF ConfTypes, Untouched
<1>5. Transaction(p)'
  BY <1>1, <1>2, <1>4 DEF Transaction
<1>6. Receipted(p)'
  BY <1>1, <1>2, <1>4 DEF Receipted
<1>7. Restoring(p)'
  <2>1. \A r \in Commanders : cpc[r] = "done" => cpc'[r] = "done"
    BY <1>2, <1>4 DEF Untouched
  <2> QED BY <1>1, <1>2, <2>1 DEF Restoring
<1>8. Stands(p)'
  BY <1>4, <1>5, <1>6, <1>7 DEF Stands, Looking
<1> QED BY <1>2, <1>3, <1>4, <1>8, OneStep

\* The first receipt knows nothing yet.
LEMMA BeginConf ==
  ASSUME ConfInv, NEW p \in Commanders, Config!Begin(p), \A q \in Commanders : cpc[q] # "looked"
  PROVE  ConfInv'
<1> DEFINE receipt == Config!Receipt(p, "pending", <<>>)
<1>1. ConfTypes /\ Transaction(p) /\ Receipted(p) /\ Restoring(p)
  BY DEF ConfInv, Stands
<1>2. /\ cpc[p] = "locked" /\ cpc' = [cpc EXCEPT ![p] = "open"] /\ receipts' = [receipts EXCEPT ![p] = receipt]
      /\ UNCHANGED <<texts, saves, lock, undoes, cplan, guards, next, known>>
  BY DEF Config!Begin
<1>3. /\ receipt \in [status : {"pending", "applied", "partial"}, images : Seq(Images)]
      /\ receipt.status = "pending"
      /\ \A i, j \in 1..Len(receipt.images) : receipt.images[i].path = receipt.images[j].path => i = j
      /\ \A i \in 1..Len(receipt.images) : receipt.images[i].known = None
  <2>1. <<>> \in Seq(Config!Files) /\ Len(<<>>) = 0
    OBVIOUS
  <2>2. "pending" \in {"pending", "applied", "partial"}
    OBVIOUS
  <2>3. \A i, j \in 1..Len(cplan[p]) : cplan[p][i].path = cplan[p][j].path => i = j
    BY <1>1 DEF Transaction
  <2> QED BY <1>1, <2>1, <2>2, <2>3, ReceiptIs
<1> HIDE DEF receipt
<1>4. ConfTypes'
  BY <1>1, <1>2, <1>3 DEF ConfTypes
<1>5. cpc'[p] = "open" /\ receipts'[p] = receipt /\ \A r \in Commanders : r # p => Untouched(r)
  BY <1>1, <1>2 DEF ConfTypes, Untouched
<1>6. Transaction(p)'
  <2>1. next[p] = 1 /\ lock = p
    BY <1>1, <1>2 DEF Transaction
  <2> QED BY <1>1, <1>2, <1>5, <2>1 DEF Transaction
<1>7. Receipted(p)'
  BY <1>3, <1>5 DEF Receipted
<1>8. Restoring(p)'
  <2>1. \A r \in Commanders : cpc[r] = "done" => cpc'[r] = "done" /\ receipts'[r] = receipts[r]
    BY <1>2, <1>5 DEF Untouched
  <2> QED BY <1>1, <1>2, <2>1 DEF Restoring
<1>9. Stands(p)'
  BY <1>5, <1>6, <1>7, <1>8 DEF Stands, Looking
<1> QED BY <1>2, <1>4, <1>5, <1>9, OneStep

\* A file that was read back is known.
LEMMA ObserveConf ==
  ASSUME ConfInv, NEW p \in Commanders, Config!Observe(p), \A q \in Commanders : cpc[q] # "looked"
  PROVE  ConfInv'
<1>1. ConfTypes /\ Transaction(p) /\ Receipted(p) /\ Restoring(p)
  BY DEF ConfInv, Stands
<1>2. /\ cpc[p] = "written" /\ cpc' = [cpc EXCEPT ![p] = "open"] /\ next' = [next EXCEPT ![p] = next[p] + 1]
      /\ known' = [known EXCEPT ![p] = Append(known[p], texts[cplan[p][next[p]].path])]
      /\ UNCHANGED <<texts, saves, lock, undoes, cplan, guards, receipts>>
  BY DEF Config!Observe
<1>3. next[p] \in 1..Len(cplan[p])
  BY <1>1, <1>2 DEF ConfTypes, Transaction
<1>4. texts[cplan[p][next[p]].path] \in Config!Files
  <2>1. cplan[p] \in Seq(Changes)
    BY <1>1 DEF ConfTypes
  <2>2. cplan[p][next[p]] \in Changes
    BY <1>3, <2>1
  <2> QED BY <1>1, <2>2 DEF ConfTypes, Changes
<1>5. ConfTypes'
  <2>1. known[p] \in Seq(Config!Files) /\ next[p] + 1 \in Nat \ {0}
    BY <1>1 DEF ConfTypes
  <2>2. Append(known[p], texts[cplan[p][next[p]].path]) \in Seq(Config!Files)
    BY <2>1, <1>4
  <2> QED BY <1>1, <1>2, <2>1, <2>2 DEF ConfTypes
<1>6. cpc'[p] = "open" /\ next'[p] = next[p] + 1 /\ \A r \in Commanders : r # p => Untouched(r)
  BY <1>1, <1>2 DEF ConfTypes, Untouched
<1>7. Transaction(p)'
  <2>1. \A i \in 1..Len(cplan[p]) : i <= next[p] => Placed(texts, cplan[p][i])
    BY <1>1, <1>2 DEF Transaction
  <2>2. \A i \in 1..Len(cplan[p]) : i < next'[p] => Placed(texts, cplan[p][i])
    BY <1>1, <1>6, <2>1 DEF ConfTypes
  <2>3. lock = p /\ \A i, j \in 1..Len(cplan[p]) : cplan[p][i].path = cplan[p][j].path => i = j
    BY <1>1, <1>2 DEF Transaction
  <2> QED BY <1>2, <1>6, <2>2, <2>3 DEF Transaction
<1>8. Receipted(p)'
  BY <1>1, <1>2, <1>6 DEF Receipted
<1>9. Restoring(p)'
  <2>1. \A r \in Commanders : cpc[r] = "done" => cpc'[r] = "done"
    BY <1>2, <1>6 DEF Untouched
  <2> QED BY <1>1, <1>2, <2>1 DEF Restoring
<1>10. Stands(p)'
  BY <1>6, <1>7, <1>8, <1>9 DEF Stands, Looking
<1> QED BY <1>2, <1>5, <1>6, <1>10, OneStep

\* A file is published while the transaction has the leases; its other files stay there.
LEMMA PublishConf ==
  ASSUME ConfInv, NEW p \in Commanders, Config!Publish(p), \A q \in Commanders : cpc[q] # "looked"
  PROVE  ConfInv'
<1> DEFINE c == cplan[p][next[p]] state == IF c.text = None THEN Config!Absent ELSE Config!File(c.text, p)
<1>1. ConfTypes /\ Transaction(p) /\ Receipted(p) /\ Restoring(p)
  BY DEF ConfInv, Stands
<1>2. /\ cpc[p] = "open" /\ next[p] <= Len(cplan[p]) /\ cpc' = [cpc EXCEPT ![p] = "written"]
      /\ texts' = [texts EXCEPT ![c.path] = state]
      /\ UNCHANGED <<saves, lock, undoes, cplan, guards, next, known, receipts>>
  BY DEF Config!Publish
<1>3. cplan[p] \in Seq(Changes) /\ next[p] \in 1..Len(cplan[p])
  BY <1>1, <1>2 DEF ConfTypes
<1>4. c \in Changes
  BY <1>3
<1>5. c.path \in Config!Paths /\ c.text \in Config!Texts \cup {None}
  BY <1>4 DEF Changes
<1> HIDE DEF c
<1>6. state \in Config!Files /\ state.text = c.text
  <2>1. CASE c.text = None
    BY <2>1 DEF Config!Absent, Config!File, Config!Files
  <2>2. CASE c.text # None
    BY <2>2, <1>5 DEF Config!File, Config!Files, Config!Writes
  <2> QED BY <2>1, <2>2
<1> HIDE DEF state
<1>7. /\ texts' \in [Config!Paths -> Config!Files] /\ texts'[c.path] = state
      /\ \A path \in Config!Paths : path # c.path => texts'[path] = texts[path]
  BY <1>1, <1>2, <1>5, <1>6 DEF ConfTypes
<1>8. ConfTypes'
  BY <1>1, <1>2, <1>7 DEF ConfTypes
<1>9. cpc'[p] = "written" /\ \A r \in Commanders : r # p => Untouched(r)
  BY <1>1, <1>2 DEF ConfTypes, Untouched
<1>10. Transaction(p)'
  <2>1. ASSUME NEW i \in 1..Len(cplan[p]), i <= next[p] PROVE Placed(texts', cplan[p][i])
    <3>1. CASE i = next[p]
      BY <3>1, <1>6, <1>7 DEF Placed, c
    <3>2. CASE i # next[p]
      <4>1. Placed(texts, cplan[p][i])
        BY <2>1, <3>2, <1>1, <1>2, <1>3 DEF Transaction
      <4>2. cplan[p][i] \in Changes /\ cplan[p][i].path # c.path
        BY <3>2, <1>1, <1>3 DEF Transaction, c
      <4>3. texts'[cplan[p][i].path] = texts[cplan[p][i].path]
        BY <4>2, <1>7 DEF Changes
      <4> QED BY <4>1, <4>3 DEF Placed
    <3> QED BY <3>1, <3>2
  <2>2. lock = p /\ \A i, j \in 1..Len(cplan[p]) : cplan[p][i].path = cplan[p][j].path => i = j
    BY <1>1, <1>2 DEF Transaction
  <2> QED BY <1>2, <1>9, <2>1, <2>2 DEF Transaction
<1>11. Receipted(p)'
  BY <1>1, <1>2, <1>9 DEF Receipted
<1>12. Restoring(p)'
  <2>1. \A r \in Commanders : cpc[r] = "done" => cpc'[r] = "done"
    BY <1>2, <1>9 DEF Untouched
  <2> QED BY <1>1, <1>2, <2>1 DEF Restoring
<1>13. Stands(p)'
  BY <1>9, <1>10, <1>11, <1>12 DEF Stands, Looking
<1>14. ASSUME NEW q \in Commanders, q # p PROVE Stands(q)'
  <2>1. cpc[q] \notin {"locked", "open", "written"}
    BY <1>1, <1>2, <1>14 DEF ConfInv, Stands, Transaction
  <2>2. \A r \in Commanders : Over(r)
    BY <1>2, <1>9 DEF Over, Untouched
  <2>3. Untouched(q) /\ cpc[q] # "looked"
    BY <1>9, <1>14
  <2> QED BY <2>1, <2>2, <2>3, OthersKept
<1> QED BY <1>8, <1>13, <1>14 DEF ConfInv

\* The user may save any file; the write is the user's from then on.
LEMMA EditConf ==
  ASSUME ConfInv, NEW path \in Config!Paths, Config!Edit(path), \A q \in Commanders : cpc[q] # "looked"
  PROVE  ConfInv'
<1>1. ConfTypes /\ saves \in Nat /\ saves < MaxSaves
  BY EditsAssumption DEF ConfInv, ConfTypes, Config!Edit, Config!ConfigAssumption
<1>2. PICK text \in {texts[path].text, "edited"} : texts' = [texts EXCEPT ![path] = Config!File(text, saves')]
  BY DEF Config!Edit
<1>3. saves' = saves + 1 /\ texts[path] # Config!Absent /\
         UNCHANGED <<lock, cpc, undoes, cplan, guards, next, known, receipts>>
  BY DEF Config!Edit
<1>4. saves' \in 1..MaxSaves /\ saves' \in 0..MaxSaves
  BY <1>1, <1>3, EditsAssumption DEF Config!ConfigAssumption
<1>5. Config!File(text, saves') \in Config!Files /\ Config!File(text, saves').by = saves'
  <2>1. texts[path] \in [text : Config!Texts, by : Config!Writes]
    BY <1>1, <1>3 DEF ConfTypes, Config!Files
  <2>2. text \in Config!Texts
    BY <2>1 DEF Config!Texts
  <2> QED BY <2>2, <1>4 DEF Config!File, Config!Files, Config!Writes
<1>6. /\ texts' \in [Config!Paths -> Config!Files] /\ texts'[path].by \in 1..MaxSaves
      /\ \A elsewhere \in Config!Paths : elsewhere # path => texts'[elsewhere] = texts[elsewhere]
  BY <1>1, <1>2, <1>4, <1>5 DEF ConfTypes
<1>7. ConfTypes'
  BY <1>1, <1>3, <1>4, <1>6 DEF ConfTypes
<1>8. ASSUME NEW q \in Commanders PROVE Stands(q)'
  <2>1. Untouched(q) /\ cpc[q] # "looked" /\ \A r \in Commanders : Over(r)
    BY <1>3 DEF Untouched, Over
  <2>2. cplan[q] \in Seq(Changes)
    BY <1>1 DEF ConfTypes
  <2>3. ASSUME NEW i \in 1..Len(cplan[q]), Placed(texts, cplan[q][i]) PROVE Placed(texts', cplan[q][i])
    <3>1. cplan[q][i] \in Changes
      BY <2>2
    <3>2. cplan[q][i].path \in Config!Paths
      BY <3>1 DEF Changes
    <3> QED BY <3>2, <2>3, <1>6 DEF Placed
  <2> QED BY <1>3, <2>1, <2>3, OthersKept
<1> QED BY <1>7, <1>8 DEF ConfInv

\* The initial files.
LEMMA InitConf == Config!Init => ConfInv
<1> SUFFICES ASSUME Config!Init PROVE ConfInv
  OBVIOUS
<1>1. texts \in [Config!Paths -> Config!Files]
  <2>1. /\ Config!Absent \in Config!Files /\ Config!File("includesSource", 0) \in Config!Files /\
             Config!File("blocks", 0) \in Config!Files
    BY EditsAssumption
       DEF Config!Files, Config!File, Config!Texts, Config!Writes, Config!ConfigAssumption
  <2>2. \A path \in Config!Paths : (CASE path = Fragment -> Config!Absent
                               [] path = Root -> Config!File("includesSource", 0)
                               [] path = Source -> Config!File("blocks", 0)) \in Config!Files
    <3> SUFFICES ASSUME NEW path \in Config!Paths
                 PROVE (CASE path = Fragment -> Config!Absent
                          [] path = Root -> Config!File("includesSource", 0)
                          [] path = Source -> Config!File("blocks", 0)) \in Config!Files
      OBVIOUS
    <3>1. path = Fragment \/ path = Root \/ path = Source
      BY DEF Config!Paths
    <3>2. Fragment # Root /\ Fragment # Source /\ Root # Source
      BY EditsAssumption DEF Config!ConfigAssumption
    <3> HIDE DEF Config!Files, Config!Absent, Config!File
    <3> QED BY <2>1, <3>1, <3>2, Zenon
  <2> HIDE DEF Config!Files, Config!Absent, Config!File
  <2>3. texts = [path \in Config!Paths |-> CASE path = Fragment -> Config!Absent
                               [] path = Root -> Config!File("includesSource", 0)
                               [] path = Source -> Config!File("blocks", 0)]
    BY Zenon DEF Config!Init
  <2> QED BY <2>2, <2>3, Zenon
<1>2. /\ saves = 0 /\ cpc = [p \in Commanders |-> "idle"] /\ undoes = [p \in Commanders |-> None]
      /\ cplan = [p \in Commanders |-> <<>>] /\ next = [p \in Commanders |-> 1]
      /\ known = [p \in Commanders |-> <<>>] /\ receipts = [p \in Commanders |-> None]
  BY Zenon DEF Config!Init
<1>3. <<>> \in Seq(Changes) /\ <<>> \in Seq(Config!Files)
  OBVIOUS
<1>4. ConfTypes
  BY <1>1, <1>2, <1>3, EditsAssumption DEF ConfTypes, Config!ConfigAssumption
<1>5. ASSUME NEW p \in Commanders PROVE Stands(p)
  BY <1>2, EditsAssumption
     DEF Stands, Transaction, Receipted, Restoring, Looking, Config!ConfigAssumption
<1> QED BY <1>4, <1>5 DEF ConfInv

\* Nothing happens.
LEMMA UnchangedConf == ConfInv /\ UNCHANGED Config!vars => ConfInv'
<1> SUFFICES ASSUME ConfInv, UNCHANGED Config!vars PROVE ConfInv'
  OBVIOUS
<1>1. UNCHANGED <<texts, saves, lock, cpc, undoes, cplan, next, known, receipts>>
  BY DEF Config!vars
<1> QED BY <1>1 DEF ConfInv, Stands, ConfTypes, Transaction, Receipted, Restoring, Looking, Config!Skipped

\* Every step keeps the invariant, and restores put back what they should.
LEMMA NextConf == ConfInv /\ [Config!Next]_(Config!vars) => ConfInv' /\ Config!PutsBack
<1> SUFFICES ASSUME ConfInv, [Config!Next]_(Config!vars) PROVE ConfInv' /\ Config!PutsBack
  OBVIOUS
<1>1. ASSUME NEW p \in Commanders, Config!RestoreCapture(p) PROVE ConfInv' /\ Config!Covers(p)
  BY <1>1, CaptureConf
<1>2. ASSUME NEW p \in Commanders, Config!Finish(p) PROVE Config!PutBack(p)
  <2>1. ConfTypes /\ Transaction(p) /\ cpc[p] = "open" /\ next[p] > Len(cplan[p])
    BY <1>2 DEF ConfInv, Stands, Config!Finish
  <2>2. Len(cplan[p]) \in Nat /\ next[p] \in Nat
    BY <2>1 DEF ConfTypes
  <2>3. \A i \in 1..Len(cplan[p]) : Placed(texts, cplan[p][i])
    BY <2>1, <2>2 DEF Transaction
  <2> QED BY <2>3 DEF Config!PutBack, Placed
<1>3. Config!PutsBack
  BY <1>1, <1>2 DEF Config!PutsBack
<1>4. CASE UNCHANGED Config!vars
  BY <1>3, <1>4, UnchangedConf
<1>5. CASE Config!Next
  <2>1. CASE \E p \in Commanders : Config!RestoreCapture(p)
    BY <1>1, <1>3, <2>1
  <2>2. ASSUME ~\E p \in Commanders : Config!RestoreCapture(p) PROVE ConfInv'
    <3>1. \A p \in Commanders : cpc[p] # "looked"
      BY <1>5, <2>2 DEF Config!Next, Config!Quiet
    <3>2. \/ \E p \in Commanders :
                \/ Config!PlanOrganize(p)
                \/ \E q \in Commanders : Config!RestoreLook(p, q)
                \/ Config!Refuse(p) \/ Config!Enter(p) \/ Config!Begin(p) \/ Config!Leave(p)
                \/ Config!Publish(p) \/ Config!Observe(p) \/ Config!Finish(p) \/ Config!Stop(p) \/
                     Config!Kill(p)
          \/ \E path \in Config!Paths : Config!Edit(path)
      BY <1>5, <2>2 DEF Config!Next
    <3> QED BY <3>1, <3>2, OrganizeConf, LookConf, RefuseConf, EnterConf, BeginConf, LeaveConf,
               PublishConf, ObserveConf, FinishConf, StopConf, KillConf, EditConf
  <2> QED BY <1>3, <2>1, <2>2
<1> QED BY <1>4, <1>5

\* The receipt a restore publishes from.
LEMMA Recorders == ConfInv => Config!RestoresRecorded
<1> SUFFICES ASSUME ConfInv, NEW p \in Commanders, Config!Publish(p), undoes[p] # None
             PROVE  \E i \in 1..Len(receipts[undoes[p]].images) :
                       LET x == receipts[undoes[p]].images[i]
                       IN  x.path = cplan[p][next[p]].path /\ x.known = texts[x.path]
  BY DEF Config!RestoresRecorded
<1>1. ConfTypes /\ Restoring(p)
  BY DEF ConfInv, Stands
<1>2. next[p] \in 1..Len(cplan[p]) /\ undoes[p] \in Commanders /\ cplan[p] \in Seq(Changes)
  BY <1>1 DEF ConfTypes, Config!Publish
<1>3. cplan[p] # <<>>
  BY <1>2
<1>4. PICK k \in 1..Len(receipts[undoes[p]].images) : Reverts(receipts[undoes[p]].images[k], cplan[p][next[p]])
  BY <1>1, <1>2, <1>3 DEF Restoring
<1> DEFINE x == receipts[undoes[p]].images[k] c == cplan[p][next[p]]
<1>5. c.path = x.path /\ c.before = x.known
  BY <1>4 DEF Reverts, Config!Change
<1>6. texts[c.path] = c.before
  BY DEF Config!Publish, Config!Publishable, Config!Current
<1> QED BY <1>5, <1>6

\* The invariant of the transactions.
LEMMA ConfHolds == Config!Spec => []ConfInv
<1>1. Config!Init => ConfInv
  BY InitConf
<1>2. ConfInv /\ [Config!Next]_(Config!vars) => ConfInv'
  BY NextConf
<1> QED BY <1>1, <1>2, PTL DEF Config!Spec

-----------------------------------------------------------------------------
(***************************************************************************)
(* The host.                                                               *)
(***************************************************************************)

\* A behaviour of the host is one of the locks, and one of the transactions.
LEMMA HostLocks == HostSpec => []LocksInv
<1>1. HostInit => LocksInv
  BY InitLocks DEF HostInit
<1>2. LocksInv /\ [HostNext]_<<part, vars, configuration, stacks>> => LocksInv'
  <2> SUFFICES ASSUME LocksInv, [HostNext]_<<part, vars, configuration, stacks>> PROVE LocksInv'
    OBVIOUS
  <2>1. [Locks!Next]_(Locks!vars)
    BY DEF HostNext, stacks, Locks!vars
  <2> QED BY <2>1, NextLocks
<1> QED BY <1>1, <1>2, PTL DEF HostSpec

LEMMA HostConfig == HostSpec => Config!Spec
<1>1. HostInit => Config!Init
  BY DEF HostInit
<1>2. [HostNext]_<<part, vars, configuration, stacks>> => [Config!Next]_(Config!vars)
  BY DEF HostNext, configuration, Config!vars
<1> QED BY <1>1, <1>2, PTL DEF HostSpec, Config!Spec

\* No commands wait for each other in a circle, however many run on however many
\* repositories, as long as no cleanup of a triage runs, which takes its gate alone
\* (sync.go), and no repository is the archive of one and has another one archived
\* in it (lockx.acquire polls without a limit).
THEOREM NoCircularWaitTheorem == Untangled => (HostSpec => []NoCircularWait)
<1> SUFFICES ASSUME Untangled PROVE HostSpec => []NoCircularWait
  OBVIOUS
<1>1. LocksInv => NoCircularWait
  BY Straight DEF NoCircularWait
<1> QED BY <1>1, HostLocks, PTL

\* While a checkout of a superproject is retired, no other command than a cleanup of
\* a triage is in a lifecycle transaction of one of its submodules
\* (WithLifecycleLock).
THEOREM SubmodulesClosedTheorem == NoTriage => (HostSpec => []SubmodulesClosed)
<1> SUFFICES ASSUME NoTriage PROVE HostSpec => []SubmodulesClosed
  OBVIOUS
<1>1. LocksInv => SubmodulesClosed
  BY Closed DEF SubmodulesClosed
<1> QED BY <1>1, HostLocks, PTL

\* A restore replaces or removes a file only in the state its receipt recorded,
\* whatever else runs or is saved, as long as nothing is saved between its two
\* readings (RestorePlan, New).
THEOREM EditsKeptTheorem == HostSpec => EditsKept
<1>1. ConfInv => [Config!RestoresRecorded]_(Config!vars)
  BY Recorders
<1> QED BY <1>1, ConfHolds, HostConfig, PTL DEF EditsKept, Config!EditsKept

\* A restore plans to put back every text of its transaction that is not there, and
\* is reported as applied with those there or saved by the user since (RestorePlan,
\* ApplyChecked).
THEOREM UndoneTheorem == HostSpec => Undone
<1>1. ConfInv /\ [Config!Next]_(Config!vars) => [Config!PutsBack]_(Config!vars)
  BY NextConf
<1> QED BY <1>1, ConfHolds, HostConfig, PTL DEF Undone, Config!Undone, Config!Spec
=============================================================================
