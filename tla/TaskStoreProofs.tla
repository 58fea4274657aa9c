--------------------------- MODULE TaskStoreProofs ---------------------------
(***************************************************************************)
(* What the task store guarantees for every set of processes, ids, states  *)
(* and methods, and every MaxTime.                                         *)
(***************************************************************************)
EXTENDS TaskStore, TLAPS

-------------------------------------------------------------------------------
(* Type correctness.                                                        *)

\* A process that decides or writes has a call.
TypeInv == TypeOK /\ \A p \in Procs : pc[p] \in {"deciding", "writing"} => call[p] \in Call

(* What a process asks for is a call. *)
LEMMA AskedType ==
    ASSUME TypeInv, NEW p \in Procs, NEW op \in Operations, NEW s \in States,
           NEW tx \in BOOLEAN, copy[p] # None
    PROVE  Asked(p, op, s, tx) \in Call
<1>1. copy[p] \in Copy
    BY DEF TypeInv, TypeOK
<1>2. copy[p].id \in Ids /\ copy[p].task \in Task /\ copy[p].stored \in Task \cup {None}
    BY <1>1 DEF Copy
<1>3. [copy[p].task EXCEPT !.state = s, !.edits = @ \cup {p}] \in Task
    BY <1>2 DEF Task
<1> QED
    BY <1>2, <1>3 DEF Asked, Call

(* What a call writes is a record, or nothing. *)
LEMMA WrittenType ==
    ASSUME TypeInv, NEW c \in Call
    PROVE  Written(c) \in Task \cup {None}
<1>1. c.candidate \in Task /\ now \in Time
    BY DEF TypeInv, TypeOK, Call
<1>2. Stamped(c.candidate) \in Task
    BY <1>1 DEF Stamped, Task
<1>3. [c.candidate EXCEPT !.created = now, !.updated = now] \in Task
    BY <1>1 DEF Task
<1> QED
    BY <1>1, <1>2, <1>3 DEF Written

LEMMA CopyAfterType ==
    ASSUME NEW c \in Call, NEW written \in Task \cup {None}, NEW old \in Copy \cup {None}
    PROVE  CopyAfter(c, written, old) \in Copy \cup {None}
    BY DEF CopyAfter, Copy, Call

LEMMA TypeInit == Init => TypeInv
    BY MaxTimeAssumption DEF Init, TypeInv, TypeOK, Time

(* Releasing the lock keeps the types, whatever the rest of the step does. *)
LEMMA ReleaseType ==
    ASSUME TypeInv, NEW p \in Procs, Release(p) \/ Leave(p),
           file' \in [Ids -> Task \cup {None, Corrupt}], now' \in Time,
           copy' \in [Procs -> Copy \cup {None}]
    PROVE  TypeInv'
    BY DEF Release, Leave, TypeInv, TypeOK

LEMMA PublishType ==
    ASSUME TypeInv, NEW p \in Procs, Publish(p)
    PROVE  TypeInv'
<1>1. call[p] \in Call /\ pc[p] = "writing"
    BY DEF Publish, TypeInv
<1>2. Written(call[p]) \in Task \cup {None} /\ call[p].id \in Ids
    BY <1>1, WrittenType DEF Call
<1>3. CopyAfter(call[p], Written(call[p]), copy[p]) \in Copy \cup {None}
    BY <1>1, <1>2, CopyAfterType DEF TypeInv, TypeOK
<1>4. file' \in [Ids -> Task \cup {None, Corrupt}]
    BY <1>2 DEF Publish, TypeInv, TypeOK
<1>5. copy' \in [Procs -> Copy \cup {None}]
    BY <1>3 DEF Publish, TypeInv, TypeOK
<1> QED
    BY <1>4, <1>5, ReleaseType DEF Publish, TypeInv, TypeOK

(* TypeInv is preserved by every step of the store. *)
LEMMA TypeStep == TypeInv /\ [Next]_vars => TypeInv'
<1> SUFFICES ASSUME TypeInv, [Next]_vars
             PROVE  TypeInv'
    OBVIOUS
<1>1. CASE UNCHANGED vars
    BY <1>1 DEF vars, TypeInv, TypeOK
<1>2. CASE Tick
    BY <1>2, MaxTimeAssumption DEF Tick, TypeInv, TypeOK, Time
<1>3. ASSUME NEW p \in Procs, NEW id \in Ids, Read(p, id)
      PROVE  TypeInv'
    BY <1>3 DEF Read, TypeInv, TypeOK, Copy
<1>4. ASSUME NEW p \in Procs, NEW id \in Ids, Draft(p, id)
      PROVE  TypeInv'
  <2>1. \A s \in States : [state |-> s, edits |-> {p}, created |-> 0, updated |-> 0] \in Task
      BY MaxTimeAssumption DEF Task, Time
  <2> QED
      BY <1>4, <2>1 DEF Draft, TypeInv, TypeOK, Copy
<1>5. ASSUME NEW p \in Procs, Request(p)
      PROVE  TypeInv'
  <2>1. PICK op \in Operations \cap Askable(p), s \in States :
            call' = [call EXCEPT ![p] = Asked(p, op, s, FALSE)]
      BY <1>5 DEF Request
  <2>2. Asked(p, op, s, FALSE) \in Call
      BY <1>5, AskedType DEF Request
  <2> QED
      BY <1>5, <2>1, <2>2 DEF Request, TypeInv, TypeOK
<1>6. ASSUME NEW p \in Procs, RequestInTx(p)
      PROVE  TypeInv'
  <2>1. PICK op \in Operations \cap Askable(p) \cap InTx, s \in States :
            call' = [call EXCEPT ![p] = Asked(p, op, s, TRUE)]
      BY <1>6 DEF RequestInTx
  <2>2. Asked(p, op, s, TRUE) \in Call
      BY <1>6, AskedType DEF RequestInTx
  <2> QED
      BY <1>6, <2>1, <2>2 DEF RequestInTx, TypeInv, TypeOK
<1>7. ASSUME NEW p \in Procs, BeginTx(p) \/ Acquire(p)
      PROVE  TypeInv'
    BY <1>7 DEF BeginTx, Acquire, TypeInv, TypeOK
<1>8. ASSUME NEW p \in Procs, EndTx(p) \/ Cancel(p) \/ Crash(p)
      PROVE  TypeInv'
    BY <1>8, ReleaseType DEF EndTx, Cancel, Crash, TypeInv, TypeOK
<1>9. ASSUME NEW p \in Procs, Decide(p)
      PROVE  TypeInv'
    BY <1>9, ReleaseType DEF Decide, TypeInv, TypeOK
<1> QED
    BY <1>1, <1>2, <1>3, <1>4, <1>5, <1>6, <1>7, <1>8, <1>9, PublishType DEF Next, Step

(* Every variable keeps its type. *)
THEOREM TypeCorrect == Spec => []TypeOK
<1>1. TypeInv => TypeOK
    BY DEF TypeInv
<1> QED
    BY <1>1, TypeInit, TypeStep, PTL DEF Spec

-------------------------------------------------------------------------------
(* The lock: whoever is inside has it, and a call is about what its caller  *)
(* has in memory.                                                           *)

Inside == {"inside", "deciding", "writing"}

\* A process inside the store holds its lock.
LockInv == \A p \in Procs : pc[p] \in Inside => lock = p

\* Nothing is asked outside a call, and the copy stays what the call was made of.
AskedOf(p) ==
    /\ pc[p] \in {"idle", "inside"} => call[p] = None
    /\ pc[p] # "idle" /\ call[p] # None =>
          copy[p] # None /\ call[p].id = copy[p].id /\ call[p].expected = copy[p].stored
CallInv == \A p \in Procs : AskedOf(p)

\* A comparison that succeeded still would.
AdmittedInv == AdmittedStaysTrue

Inv == TypeInv /\ LockInv /\ CallInv /\ AdmittedInv

LEMMA InvInit == Init => Inv
    BY TypeInit DEF Init, Inv, LockInv, Inside, CallInv, AskedOf, AdmittedInv, AdmittedStaysTrue

LEMMA LockStep == TypeInv /\ LockInv /\ [Next]_vars => LockInv'
<1> SUFFICES ASSUME TypeInv, LockInv, [Next]_vars
             PROVE  LockInv'
    OBVIOUS
<1> USE DEF LockInv, Inside, TypeInv, TypeOK
<1>1. CASE UNCHANGED vars \/ Tick
    BY <1>1 DEF vars, Tick
<1>2. ASSUME NEW p \in Procs, NEW id \in Ids, Read(p, id) \/ Draft(p, id)
      PROVE  LockInv'
    BY <1>2 DEF Read, Draft
<1>3. ASSUME NEW p \in Procs, Request(p) \/ RequestInTx(p) \/ BeginTx(p)
      PROVE  LockInv'
    BY <1>3 DEF Request, RequestInTx, BeginTx
<1>4. ASSUME NEW p \in Procs, Acquire(p)
      PROVE  LockInv'
    BY <1>4, StoreNoneAssumption DEF Acquire
<1>5. ASSUME NEW p \in Procs, EndTx(p) \/ Cancel(p) \/ Crash(p)
      PROVE  LockInv'
    BY <1>5, StoreNoneAssumption DEF EndTx, Cancel, Crash, Release
<1>6. ASSUME NEW p \in Procs, Decide(p) \/ Publish(p)
      PROVE  LockInv'
    BY <1>6, StoreNoneAssumption DEF Decide, Publish, Leave
<1> QED
    BY <1>1, <1>2, <1>3, <1>4, <1>5, <1>6 DEF Next, Step

LEMMA CallStep == TypeInv /\ CallInv /\ [Next]_vars => CallInv'
<1> SUFFICES ASSUME TypeInv, CallInv, [Next]_vars
             PROVE  CallInv'
    OBVIOUS
<1> USE DEF CallInv, AskedOf, TypeInv, TypeOK
<1>1. CASE UNCHANGED vars \/ Tick
    BY <1>1 DEF vars, Tick
<1>2. ASSUME NEW p \in Procs, NEW id \in Ids, Read(p, id) \/ Draft(p, id)
      PROVE  CallInv'
    BY <1>2 DEF Read, Draft
<1>3. ASSUME NEW p \in Procs, Request(p) \/ RequestInTx(p)
      PROVE  CallInv'
  <2>1. /\ copy[p] # None /\ UNCHANGED copy
        /\ pc' \in {[pc EXCEPT ![p] = "waiting"], [pc EXCEPT ![p] = "deciding"]}
      BY <1>3 DEF Request, RequestInTx
  <2>2. PICK op \in Operations, s \in States, tx \in BOOLEAN :
            call' = [call EXCEPT ![p] = Asked(p, op, s, tx)]
      BY <1>3 DEF Request, RequestInTx
  <2>3. Asked(p, op, s, tx).id = copy[p].id /\ Asked(p, op, s, tx).expected = copy[p].stored
      BY DEF Asked
  <2> QED
      BY <2>1, <2>2, <2>3
<1>4. ASSUME NEW p \in Procs, BeginTx(p) \/ Acquire(p)
      PROVE  CallInv'
    BY <1>4 DEF BeginTx, Acquire
<1>5. ASSUME NEW p \in Procs, EndTx(p) \/ Cancel(p) \/ Crash(p)
      PROVE  CallInv'
    BY <1>5 DEF EndTx, Cancel, Crash, Release
<1>6. ASSUME NEW p \in Procs, Decide(p)
      PROVE  CallInv'
    BY <1>6 DEF Decide, Leave
<1>7. ASSUME NEW p \in Procs, Publish(p)
      PROVE  CallInv'
    BY <1>7 DEF Publish, Leave
<1> QED
    BY <1>1, <1>2, <1>3, <1>4, <1>5, <1>6, <1>7 DEF Next, Step

LEMMA AdmittedStep ==
    Inv /\ TypeInv' /\ LockInv' /\ [Next]_vars => AdmittedInv'
<1> SUFFICES ASSUME Inv, LockInv', [Next]_vars, NEW q \in Procs, pc'[q] = "writing"
             PROVE  Admits(call'[q], file'[call'[q].id])
    BY DEF AdmittedInv, AdmittedStaysTrue
<1>1. pc[q] = "writing" => lock = q /\ Admits(call[q], file[call[q].id])
    BY DEF Inv, LockInv, Inside, AdmittedInv, AdmittedStaysTrue
<1>2. pc \in [Procs -> {"idle", "waiting", "inside", "deciding", "writing"}] /\ DOMAIN call = Procs
    BY DEF Inv, TypeInv, TypeOK
<1>3. CASE pc[q] = "writing" /\ UNCHANGED file /\ call'[q] = call[q]
    BY <1>1, <1>3
<1>4. CASE UNCHANGED vars \/ Tick
    BY <1>3, <1>4 DEF vars, Tick
<1>5. ASSUME NEW p \in Procs, NEW id \in Ids, Read(p, id) \/ Draft(p, id)
      PROVE  Admits(call'[q], file'[call'[q].id])
    BY <1>3, <1>5 DEF Read, Draft
<1>6. ASSUME NEW p \in Procs, Request(p) \/ RequestInTx(p)
      PROVE  Admits(call'[q], file'[call'[q].id])
  <2>1. UNCHANGED file /\ \E c : call' = [call EXCEPT ![p] = c]
      BY <1>6 DEF Request, RequestInTx
  <2>2. pc'[p] # "writing" /\ pc[q] = "writing"
      BY <1>2, <1>6 DEF Request, RequestInTx
  <2> QED
      BY <1>2, <1>3, <2>1, <2>2
<1>7. ASSUME NEW p \in Procs, BeginTx(p) \/ Acquire(p)
      PROVE  Admits(call'[q], file'[call'[q].id])
    BY <1>2, <1>3, <1>7 DEF BeginTx, Acquire
<1>8. ASSUME NEW p \in Procs, EndTx(p) \/ Cancel(p) \/ Crash(p)
      PROVE  Admits(call'[q], file'[call'[q].id])
    BY <1>2, <1>3, <1>8 DEF EndTx, Cancel, Crash, Release
<1>9. ASSUME NEW p \in Procs, Decide(p)
      PROVE  Admits(call'[q], file'[call'[q].id])
    BY <1>2, <1>3, <1>9 DEF Decide, Leave
<1>10. ASSUME NEW p \in Procs, Publish(p)
       PROVE  Admits(call'[q], file'[call'[q].id])
  <2>1. pc[p] = "writing" /\ lock = p /\ pc'[p] # "writing"
      BY <1>2, <1>10 DEF Publish, Leave, Inv, LockInv, Inside
  <2>2. p # q /\ pc[q] = "writing"
      BY <1>2, <1>10, <2>1 DEF Publish, Leave
  <2> QED
      BY <1>1, <2>1, <2>2
<1> QED
    BY <1>4, <1>5, <1>6, <1>7, <1>8, <1>9, <1>10 DEF Next, Step

(* Every comparison still holds when the file is renamed into place: the      *)
(* writer has kept the lock since.                                           *)
THEOREM AdmittedTheorem == Spec => []AdmittedStaysTrue
<1>1. Inv /\ [Next]_vars => Inv'
    BY TypeStep, LockStep, CallStep, AdmittedStep DEF Inv
<1>2. Inv => AdmittedStaysTrue
    BY DEF Inv, AdmittedInv
<1> QED
    BY <1>1, <1>2, InvInit, PTL DEF Spec

-------------------------------------------------------------------------------
(* No update is lost, if nobody calls Tx.Save, which compares nothing.      *)

\* A copy of a stored record, and a call made of it, has every edit of that
\* record and its creation time.
Follows(task, stored) == task.created = stored.created /\ stored.edits \subseteq task.edits
CopySound(p) ==
    copy[p] # None /\ copy[p].stored # None /\ copy[p].task.created # 0
        => Follows(copy[p].task, copy[p].stored)
SoundCall(c) ==
    c.expected # None /\ c.op # "ReplaceDone"
        => c.candidate.created # 0 /\ Follows(c.candidate, c.expected)
CallSound(p) == call[p] # None => SoundCall(call[p])
EditsInv == \A p \in Procs : CopySound(p) /\ CallSound(p)

(* The call made of a sound copy is sound: a copy with no creation time is    *)
(* used only to start a task over.                                           *)
LEMMA AskedSound ==
    ASSUME TypeInv, NEW p \in Procs, CopySound(p), copy[p] # None,
           NEW op \in Operations \cap Askable(p), NEW s \in States, NEW tx \in BOOLEAN
    PROVE  SoundCall(Asked(p, op, s, tx))
<1> DEFINE c == Asked(p, op, s, tx)
<1>1. copy[p].task \in Task /\ copy[p].stored \in Task \cup {None}
    BY DEF TypeInv, TypeOK, Copy
<1>2. /\ c.op = op /\ c.expected = copy[p].stored
      /\ c.candidate.created = copy[p].task.created
      /\ copy[p].task.edits \subseteq c.candidate.edits
    BY <1>1 DEF Asked, Task
<1>3. c.expected # None /\ op # "ReplaceDone" => copy[p].task.created # 0
    BY <1>2 DEF Askable, Restarts
<1> QED
    BY <1>1, <1>2, <1>3 DEF CopySound, SoundCall, Follows

(* What a call leaves in memory is sound. *)
LEMMA CopyAfterSound ==
    ASSUME NEW c \in Call, NEW written \in Task \cup {None}, NEW old \in Copy \cup {None}
    PROVE  \/ CopyAfter(c, written, old) = old \/ CopyAfter(c, written, old) = None
           \/ Follows(CopyAfter(c, written, old).task, CopyAfter(c, written, old).stored)
    BY DEF CopyAfter, Follows

LEMMA EditsStep == TypeInv /\ EditsInv /\ [Next]_vars => EditsInv'
<1> SUFFICES ASSUME TypeInv, EditsInv, [Next]_vars
             PROVE  EditsInv'
    OBVIOUS
<1>0. DOMAIN copy = Procs /\ DOMAIN call = Procs
    BY DEF TypeInv, TypeOK
<1>1. CASE UNCHANGED <<copy, call>>
    BY <1>1 DEF EditsInv, CopySound, CallSound
<1>2. CASE UNCHANGED vars \/ Tick
    BY <1>1, <1>2 DEF vars, Tick
<1>3. ASSUME NEW p \in Procs, NEW id \in Ids, Read(p, id)
      PROVE  EditsInv'
    BY <1>0, <1>3 DEF Read, EditsInv, CopySound, CallSound, Follows
<1>4. ASSUME NEW p \in Procs, NEW id \in Ids, Draft(p, id)
      PROVE  EditsInv'
    BY <1>0, <1>4 DEF Draft, EditsInv, CopySound, CallSound
<1>5. ASSUME NEW p \in Procs, Request(p) \/ RequestInTx(p)
      PROVE  EditsInv'
  <2>1. UNCHANGED copy /\ copy[p] # None
      BY <1>5 DEF Request, RequestInTx
  <2>2. PICK op \in Operations \cap Askable(p), s \in States, tx \in BOOLEAN :
            call' = [call EXCEPT ![p] = Asked(p, op, s, tx)]
      BY <1>5 DEF Request, RequestInTx
  <2>3. SoundCall(Asked(p, op, s, tx))
      BY <2>1, AskedSound DEF EditsInv
  <2>4. \A q \in Procs : CallSound(q)'
      BY <1>0, <2>2, <2>3 DEF EditsInv, CallSound
  <2>5. \A q \in Procs : CopySound(q)'
      BY <2>1 DEF EditsInv, CopySound
  <2> QED
      BY <2>4, <2>5 DEF EditsInv
<1>6. ASSUME NEW p \in Procs, BeginTx(p) \/ Acquire(p)
      PROVE  EditsInv'
    BY <1>1, <1>6 DEF BeginTx, Acquire
<1>7. ASSUME NEW p \in Procs, EndTx(p) \/ Cancel(p) \/ Crash(p)
      PROVE  EditsInv'
    BY <1>0, <1>7 DEF EndTx, Cancel, Crash, Release, EditsInv, CopySound, CallSound
<1>8. ASSUME NEW p \in Procs, Decide(p)
      PROVE  EditsInv'
    BY <1>0, <1>1, <1>8 DEF Decide, Leave, EditsInv, CopySound, CallSound
<1>9. ASSUME NEW p \in Procs, Publish(p)
      PROVE  EditsInv'
  <2>1. call[p] \in Call /\ copy[p] \in Copy \cup {None}
      BY <1>9 DEF Publish, TypeInv, TypeOK
  <2>2. call' = [call EXCEPT ![p] = None]
      BY <1>9 DEF Publish, Leave
  <2>3. \A q \in Procs : CallSound(q)'
      BY <1>0, <2>2 DEF EditsInv, CallSound
  <2>4. CASE UNCHANGED copy
      BY <2>3, <2>4 DEF EditsInv, CopySound
  <2>5. CASE copy' = [copy EXCEPT ![p] = CopyAfter(call[p], Written(call[p]), @)]
    <3> DEFINE new == CopyAfter(call[p], Written(call[p]), copy[p])
    <3>1. new = copy[p] \/ new = None \/ Follows(new.task, new.stored)
        BY <2>1, WrittenType, CopyAfterSound
    <3>2. copy' = [copy EXCEPT ![p] = new]
        BY <2>5
    <3> HIDE DEF new
    <3>3. \A q \in Procs : CopySound(q)'
        BY <1>0, <3>1, <3>2 DEF EditsInv, CopySound
    <3> QED
        BY <2>3, <3>3 DEF EditsInv
  <2> QED
      BY <1>9, <2>4, <2>5 DEF Publish
<1> QED
    BY <1>2, <1>3, <1>4, <1>5, <1>6, <1>7, <1>8, <1>9 DEF Next, Step

EInv == Inv /\ EditsInv

LEMMA EditsInit == Init => EInv
    BY InvInit DEF Init, EInv, EditsInv, CopySound, CallSound

LEMMA EInvStep == EInv /\ [Next]_vars => EInv'
    BY TypeStep, LockStep, CallStep, AdmittedStep, EditsStep DEF EInv, Inv

(* A call that is admitted over a record knows it, and writes all of its      *)
(* edits unless it was done.                                                 *)
LEMMA AdmittedKnows ==
    ASSUME TypeInv, NEW c \in Call, c.op # "TxSave", SoundCall(c),
           NEW current \in Task, Admits(c, current), Written(c) \in Task
    PROVE  /\ c.expected = current
           /\ current.state = "done" \/ Follows(Written(c), current)
<1>1. /\ c.candidate \in Task /\ now \in Time /\ current # None
      /\ c.op \in Method
    BY StoreNoneAssumption, OperationsAssumption DEF TypeInv, TypeOK, Call
<1>2. c.op \notin {"Delete", "DeleteIfRevision"}
    BY StoreNoneAssumption DEF Written
<1>3. c.op \notin {"Create", "ImportExact"}
    BY <1>1 DEF Admits
<1>4. c.op \in {"Save", "Update", "ReplaceDone", "SaveIfRevision"}
    BY <1>1, <1>2, <1>3 DEF Method
<1>5. c.expected = current
    BY <1>1, <1>4 DEF Admits, Matches
<1>6. CASE c.op = "ReplaceDone"
    BY <1>5, <1>6 DEF Admits
<1>7. CASE c.op # "ReplaceDone"
  <2>1. Written(c) = Stamped(c.candidate)
      BY <1>4, <1>7 DEF Written
  <2>2. c.candidate.created # 0 /\ Follows(c.candidate, current)
      BY <1>1, <1>5, <1>7 DEF SoundCall
  <2>3. Stamped(c.candidate).created = c.candidate.created
        /\ Stamped(c.candidate).edits = c.candidate.edits
      BY <1>1, <2>2 DEF Stamped, Task
  <2> QED
      BY <1>5, <2>1, <2>2, <2>3 DEF Follows
<1> QED
    BY <1>6, <1>7

(* The file changes only when a call is renamed into place. *)
LEMMA OnlyPublish ==
    ASSUME [Next]_vars
    PROVE  UNCHANGED file \/ \E p \in Procs :
              Publish(p) /\ file' = [file EXCEPT ![call[p].id] = Written(call[p])]
<1>1. CASE UNCHANGED vars \/ Tick
    BY <1>1 DEF vars, Tick
<1>2. ASSUME NEW p \in Procs, Publish(p)
      PROVE  UNCHANGED file \/ file' = [file EXCEPT ![call[p].id] = Written(call[p])]
    BY <1>2 DEF Publish
<1>3. ASSUME NEW p \in Procs, Step(p)
      PROVE  UNCHANGED file \/ Publish(p)
    BY <1>3 DEF Step, Read, Draft, Request, RequestInTx, BeginTx, Acquire, EndTx, Cancel,
                Decide, Crash
<1> QED
    BY <1>1, <1>2, <1>3 DEF Next

LEMMA KeepsLivingStep ==
    ASSUME "TxSave" \notin Operations, EInv, [Next]_vars
    PROVE  KeepsLiving
<1>1. CASE UNCHANGED file
    BY <1>1 DEF KeepsLiving
<1>2. ASSUME NEW p \in Procs, Publish(p),
             file' = [file EXCEPT ![call[p].id] = Written(call[p])]
      PROVE  KeepsLiving
  <2> DEFINE c == call[p]
  <2>1. /\ pc[p] = "writing" /\ c \in Call /\ c # None /\ SoundCall(c) /\ Admits(c, file[c.id])
      BY <1>2, StoreNoneAssumption
      DEF Publish, EInv, Inv, TypeInv, TypeOK, EditsInv, CallSound, AdmittedInv, AdmittedStaysTrue
  <2>2. c.op # "TxSave" /\ c.id \in Ids /\ DOMAIN file = Ids /\ TypeInv
      BY <2>1 DEF Call, EInv, Inv, TypeInv, TypeOK
  <2> HIDE DEF c
  <2>3. file[c.id] \in Task /\ Written(c) \in Task
            => file[c.id].state = "done" \/ Follows(Written(c), file[c.id])
      BY <2>1, <2>2, AdmittedKnows
  <2>4. file' = [file EXCEPT ![c.id] = Written(c)]
      BY <1>2 DEF c
  <2> QED
      BY <2>2, <2>3, <2>4 DEF KeepsLiving, Follows
<1> QED
    BY <1>1, <1>2, OnlyPublish

LEMMA KeepsCorruptStep ==
    ASSUME "TxSave" \notin Operations, EInv, [Next]_vars
    PROVE  KeepsCorrupt
<1>1. CASE UNCHANGED file
    BY <1>1 DEF KeepsCorrupt
<1>2. ASSUME NEW p \in Procs, Publish(p),
             file' = [file EXCEPT ![call[p].id] = Written(call[p])]
      PROVE  KeepsCorrupt
  <2> DEFINE c == call[p]
  <2>1. /\ c \in Call /\ Admits(c, file[c.id])
      BY <1>2 DEF Publish, EInv, Inv, TypeInv, AdmittedInv, AdmittedStaysTrue
  <2>2. c.op # "TxSave" /\ c.op \in Method /\ c.id \in Ids /\ DOMAIN file = Ids
      BY <2>1, OperationsAssumption DEF Call, EInv, Inv, TypeInv, TypeOK
  <2> HIDE DEF c
  <2>3. file[c.id] = Corrupt => c.op = "Delete"
      BY <2>1, <2>2, StoreNoneAssumption DEF Admits, Matches, Method
  <2>4. c.op = "Delete" => Written(c) = None
      BY DEF Written
  <2>5. file' = [file EXCEPT ![c.id] = Written(c)]
      BY <1>2 DEF c
  <2> QED
      BY <2>2, <2>3, <2>4, <2>5 DEF KeepsCorrupt
<1> QED
    BY <1>1, <1>2, OnlyPublish

(* Whoever writes over a living task has seen all of its edits.              *)
THEOREM NoUpdateLostTheorem ==
    ASSUME "TxSave" \notin Operations
    PROVE  Spec => NoUpdateLost
<1>1. EInv /\ [Next]_vars => [KeepsLiving]_vars
    BY KeepsLivingStep
<1> QED
    BY <1>1, EditsInit, EInvStep, PTL DEF Spec, NoUpdateLost

(* A file that does not decode is only ever deleted.                         *)
THEOREM CorruptKeptTheorem ==
    ASSUME "TxSave" \notin Operations
    PROVE  Spec => CorruptKept
<1>1. EInv /\ [Next]_vars => [KeepsCorrupt]_vars
    BY KeepsCorruptStep
<1> QED
    BY <1>1, EditsInit, EInvStep, PTL DEF Spec, CorruptKept

-------------------------------------------------------------------------------
(* The store implements OptimisticStore, if nobody calls Tx.Save or the      *)
(* unconditional Delete.                                                     *)

SeenMap == [p \in Procs |-> Seen(p)]
Sight(x) == IF x = None THEN None ELSE IF x.stored = None THEN None
            ELSE [id |-> x.id, record |-> x.stored]

LEMMA SeenChange ==
    ASSUME TypeInv, NEW p \in Procs, NEW x, copy' = [copy EXCEPT ![p] = x]
    PROVE  SeenMap' = [SeenMap EXCEPT ![p] = Sight(x)]
<1>1. copy'[p] = x /\ \A q \in Procs : q # p => copy'[q] = copy[q]
    BY DEF TypeInv, TypeOK
<1>2. Seen(p)' = Sight(x)
    BY <1>1 DEF Seen, Sight
<1>3. \A q \in Procs : q # p => Seen(q)' = Seen(q)
    BY <1>1 DEF Seen
<1> QED
    BY <1>2, <1>3 DEF SeenMap

LEMMA SimulateInit == Init => Optimistic!OInit
    BY DEF Init, Optimistic!OInit, Seen

(* A step that leaves the file and the copies alone is a stutter. *)
LEMMA SimulateStutter ==
    ASSUME UNCHANGED <<file, copy>>
    PROVE  UNCHANGED <<file, SeenMap>>
    BY DEF SeenMap, Seen

LEMMA SimulateRead ==
    ASSUME TypeInv, NEW p \in Procs, NEW id \in Ids, Read(p, id) \/ Draft(p, id)
    PROVE  Optimistic!OStep(p)
<1>1. UNCHANGED file
    BY DEF Read, Draft
<1> DEFINE Sights == [id : {id}, task : Task, stored : {None} \cup ({file[id]} \cap Task)]
<1>2. PICK x : copy' = [copy EXCEPT ![p] = x] /\ x \in Sights
  <2>1. CASE Read(p, id)
    <3>1. [id |-> id, task |-> file[id], stored |-> file[id]] \in Sights
        BY <2>1 DEF Read
    <3> QED
        BY <2>1, <3>1 DEF Read
  <2>2. CASE Draft(p, id)
    <3>1. PICK s \in States, seen \in {None} \cup ({file[id]} \cap Task) :
              copy' = [copy EXCEPT ![p] =
                  [id |-> id, stored |-> seen,
                   task |-> [state |-> s, edits |-> {p}, created |-> 0, updated |-> 0]]]
        BY <2>2 DEF Draft
    <3>2. [state |-> s, edits |-> {p}, created |-> 0, updated |-> 0] \in Task
        BY MaxTimeAssumption DEF Task, Time
    <3>3. [id |-> id, stored |-> seen,
           task |-> [state |-> s, edits |-> {p}, created |-> 0, updated |-> 0]] \in Sights
        BY <3>2
    <3> QED
        BY <3>1, <3>3
  <2> QED
      BY <2>1, <2>2
<1>3. x # None
    BY <1>2, StoreNoneAssumption DEF Copy
<1>4. SeenMap' = [SeenMap EXCEPT ![p] = Sight(x)]
    BY <1>2, SeenChange
<1>5. CASE x.stored = None
  <2>1. Optimistic!Forget(p)
      BY <1>1, <1>4, <1>5 DEF Optimistic!Forget, Optimistic!See, SeenMap, Sight
  <2> QED
      BY <2>1 DEF Optimistic!OStep
<1>6. CASE x.stored # None
  <2>1. file[id] \in Task /\ x.stored = file[id] /\ x.id = id
      BY <1>2, <1>6
  <2>2. Optimistic!Look(p, id)
      BY <1>1, <1>3, <1>4, <1>6, <2>1
      DEF Optimistic!Look, Optimistic!See, Optimistic!View, SeenMap, Sight
  <2> QED
      BY <2>2 DEF Optimistic!OStep
<1> QED
    BY <1>5, <1>6

LEMMA SimulateCrash ==
    ASSUME TypeInv, NEW p \in Procs, Crash(p)
    PROVE  Optimistic!OStep(p)
<1>1. SeenMap' = [SeenMap EXCEPT ![p] = None]
    BY SeenChange DEF Crash, Sight
<1>2. Optimistic!Forget(p)
    BY <1>1 DEF Crash, Optimistic!Forget, Optimistic!See, SeenMap
<1> QED
    BY <1>2 DEF Optimistic!OStep

LEMMA SimulatePublish ==
    ASSUME Operations \cap {"TxSave", "Delete"} = {}, EInv, NEW p \in Procs, Publish(p)
    PROVE  UNCHANGED <<file, SeenMap>> \/ Optimistic!OStep(p)
<1> DEFINE c == call[p]
           w == Written(c)
<1>1. /\ pc[p] = "writing" /\ c \in Call /\ c # None /\ SoundCall(c) /\ Admits(c, file[c.id])
      /\ TypeInv
    BY StoreNoneAssumption
    DEF Publish, EInv, Inv, TypeInv, TypeOK, EditsInv, CallSound, AdmittedInv, AdmittedStaysTrue
<1>2. /\ c.op \in Method \ {"TxSave", "Delete"} /\ c.id \in Ids /\ w \in Task \cup {None}
      /\ file \in [Ids -> Task \cup {None, Corrupt}]
    BY <1>1, WrittenType, OperationsAssumption DEF Call, EInv, Inv, TypeInv, TypeOK
<1>3. copy[p] \in Copy \cup {None} /\ copy[p] # None
      /\ c.id = copy[p].id /\ c.expected = copy[p].stored
    BY <1>1 DEF EInv, Inv, CallInv, AskedOf, TypeInv, TypeOK
<1>4. CASE UNCHANGED <<file, copy>>
    BY <1>4, SimulateStutter
<1>5. CASE /\ file' = [file EXCEPT ![c.id] = w]
           /\ UNCHANGED copy \/ copy' = [copy EXCEPT ![p] = CopyAfter(c, w, copy[p])]
  <2>1. file'[c.id] = w
      BY <1>2, <1>5
  <2> HIDE DEF w, c
  <2>2. \/ UNCHANGED SeenMap
        \/ SeenMap' = [SeenMap EXCEPT ![p] = IF w = None THEN None
                                             ELSE [id |-> c.id, record |-> w]]
    <3>1. CASE UNCHANGED copy
        BY <3>1 DEF SeenMap, Seen
    <3>2. CASE copy' = [copy EXCEPT ![p] = CopyAfter(c, w, copy[p])]
      <4>1. SeenMap' = [SeenMap EXCEPT ![p] = Sight(CopyAfter(c, w, copy[p]))]
          BY <1>1, <3>2, SeenChange
      <4>2. CASE w = None
        <5>0. c.op # "ImportExact"
            BY <1>1, <4>2, StoreNoneAssumption DEF w, Written, Call
        <5>1. CopyAfter(c, w, copy[p]) = None
            BY <4>2, <5>0 DEF CopyAfter
        <5>2. Sight(CopyAfter(c, w, copy[p])) = None
            BY <5>1 DEF Sight
        <5>3. SeenMap' = [SeenMap EXCEPT ![p] = None]
            BY <4>1, <5>2
        <5> QED
            BY <4>2, <5>3
      <4>3. CASE w # None /\ c.op = "ImportExact"
        <5>1. CopyAfter(c, w, copy[p]) = copy[p]
            BY <4>3 DEF CopyAfter
        <5>2. UNCHANGED copy
            BY <1>1, <3>2, <5>1 DEF TypeInv, TypeOK
        <5> QED
            BY <5>2 DEF SeenMap, Seen
      <4>4. CASE w # None /\ c.op # "ImportExact"
        <5>1. CopyAfter(c, w, copy[p]) = [id |-> c.id, task |-> w, stored |-> w]
            BY <4>4 DEF CopyAfter
        <5>2. [id |-> c.id, task |-> w, stored |-> w] \in Copy
            BY <1>2, <4>4 DEF Copy
        <5>3. Sight(CopyAfter(c, w, copy[p])) = [id |-> c.id, record |-> w]
            BY <4>4, <5>1, <5>2, StoreNoneAssumption DEF Sight
        <5> QED
            BY <4>1, <4>4, <5>3
      <4> QED
          BY <4>2, <4>3, <4>4
    <3> QED
        BY <1>5, <3>1, <3>2
  <2>3. Optimistic!Write(p, c.id)
      BY <1>2, <1>5, <2>1, <2>2
      DEF Optimistic!Write, Optimistic!See, Optimistic!View, SeenMap
  <2>4. CASE file[c.id] = None
    <3>1. Optimistic!Make(p, c.id)
        BY <2>3, <2>4 DEF Optimistic!Make
    <3> QED
        BY <1>2, <3>1 DEF Optimistic!OStep
  <2>5. CASE file[c.id] # None
    <3>1. file[c.id] \in Task /\ c.expected = file[c.id]
        BY <1>1, <1>2, <2>5 DEF Admits, Matches, Method
    <3>2. w = None \/ file[c.id].state = "done" \/ Follows(w, file[c.id])
        BY <1>1, <1>2, <3>1, AdmittedKnows DEF w
    <3>3. copy[p].stored # None
        BY <1>3, <3>1, StoreNoneAssumption
    <3>4. Seen(p) = [id |-> c.id, record |-> file[c.id]]
        BY <1>3, <3>1, <3>3 DEF Seen
    <3>5. Seen(p) # None
        BY <1>2, <3>1, <3>4, StoreNoneAssumption
    <3>6. Optimistic!Replace(p)
        BY <2>1, <2>3, <3>2, <3>4, <3>5 DEF Optimistic!Replace, Follows
    <3> QED
        BY <3>6 DEF Optimistic!OStep
  <2> QED
      BY <2>4, <2>5
<1> QED
    BY <1>4, <1>5 DEF Publish

LEMMA SimulateStep ==
    ASSUME Operations \cap {"TxSave", "Delete"} = {}, EInv, [Next]_vars
    PROVE  [Optimistic!ONext]_<<file, SeenMap>>
<1>1. TypeInv
    BY DEF EInv, Inv
<1>2. CASE UNCHANGED vars \/ Tick
    BY <1>2, SimulateStutter DEF vars, Tick
<1>3. ASSUME NEW p \in Procs, NEW id \in Ids, Read(p, id) \/ Draft(p, id)
      PROVE  Optimistic!ONext
    BY <1>1, <1>3, SimulateRead DEF Optimistic!ONext
<1>4. ASSUME NEW p \in Procs,
             Request(p) \/ RequestInTx(p) \/ BeginTx(p) \/ Acquire(p) \/ EndTx(p)
             \/ Cancel(p) \/ Decide(p)
      PROVE  UNCHANGED <<file, SeenMap>>
    BY <1>4, SimulateStutter
    DEF Request, RequestInTx, BeginTx, Acquire, EndTx, Cancel, Decide
<1>5. ASSUME NEW p \in Procs, Publish(p)
      PROVE  UNCHANGED <<file, SeenMap>> \/ Optimistic!ONext
    BY <1>5, SimulatePublish DEF Optimistic!ONext
<1>6. ASSUME NEW p \in Procs, Crash(p)
      PROVE  Optimistic!ONext
    BY <1>1, <1>6, SimulateCrash DEF Optimistic!ONext
<1> QED
    BY <1>2, <1>3, <1>4, <1>5, <1>6 DEF Next, Step

(* Every write is one indivisible step that replaces exactly what its caller  *)
(* saw last, in every store whose callers compare.                           *)
THEOREM ImplementsTheorem ==
    ASSUME Operations \cap {"TxSave", "Delete"} = {}
    PROVE  Spec => ImplementsOptimistic
<1>1. EInv /\ [Next]_vars => [Optimistic!ONext]_<<file, [p \in Procs |-> Seen(p)]>>
    BY SimulateStep DEF SeenMap
<1> QED
    BY <1>1, EditsInit, EInvStep, SimulateInit, PTL
    DEF Spec, ImplementsOptimistic, Optimistic!OSpec
===============================================================================
