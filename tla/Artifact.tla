------------------------------ MODULE Artifact ------------------------------
(***************************************************************************)
(* Archive intents (internal/artifact): the hand-over of an agent's        *)
(* transcript from the session that wrote it to a later process that       *)
(* commits or archives it, on one checkout.  dev processes prepare,        *)
(* finalize, discard and observe intents and run life-cycle operations     *)
(* that need the checkout ready; the agent writes its transcript, the      *)
(* operator commits, rewinds and stages.  A process may crash anywhere.    *)
(*                                                                         *)
(* An intent's revision hashes everything its file holds, so a record      *)
(* stands for its revision (timestamps count whole seconds: all the writes *)
(* here may share one).  A commit hashes its history, so a commit is the   *)
(* sequence of what was committed up to it.                                *)
(* A merge or rebase in progress, another branch checked out and a broken  *)
(* read are among the refusals the finalizer may always meet.              *)
(***************************************************************************)
EXTENDS Naturals, FiniteSets, SequencesExt

CONSTANTS
    Procs,        \* dev processes
    Intents,      \* intent ids
    Runs,         \* agent runs
    Destination,  \* intent -> "commit" or "archive"
    Jobs,         \* the commands processes run
    MaxText,      \* bound: versions of the transcript
    MaxLog,       \* bound: commits on the checkout's history
    None

VARIABLES
    intent,       \* id -> its record, or None
    log,          \* the checkout's HEAD: everything committed, oldest first
    present,      \* the checkout exists
    text,         \* version of the transcript in the working tree
    staged,       \* version of it in the index, 0 when it has none
    foreign,      \* another path is staged
    writing,      \* the agent still writes
    archive,      \* archive plans applied
    finalizeLock, \* holder of dev-artifact-finalize, or None
    repoLock,     \* holder of dev-taskflow, or None
    pc, job,      \* where each process is, and what it runs
    on, held,     \* the intent it works on and the record it holds of it
    proof         \* whether it was told that the writer has stopped

git == <<log, present>>
tree == <<text, staged, foreign, writing>>
locks == <<finalizeLock, repoLock>>
procs == <<pc, job, on, held, proof>>
vars == <<intent, git, tree, archive, locks, procs>>

Status == {"armed", "finalizing", "finalized", "failed", "discarded"}
Commit == [of : Intents \cup {None}, text : 0..MaxText, edit : 0..1]
Log == Seq(Commit)
Plan == 0..2                    \* 0: none bound
Record == [run : Runs, head : Log, status : Status, ended : BOOLEAN,
           commit : Log, plan : Plan]

ASSUME NoneAssumption == None \notin Procs \cup Intents \cup Record
ASSUME TextAssumption == MaxText \in Nat \ {0}      \* the session has written something

\* The index has nothing that HEAD has not; git reset makes it so.
Clean == staged = Last(log).text /\ ~foreign
Unstaged == staged' = Last(log).text

\* Commits that carry the trailer Dev-Artifact-Intent of i.
Receipts(history, i) == {k \in DOMAIN history : history[k].of = i}
HasReceipt(i) == Receipts(log, i) # {}
Receipt(i) == SubSeq(log, 1, CHOOSE k \in Receipts(log, i) :
                                \A other \in Receipts(log, i) : other <= k)
Holds(history, c) == IsPrefix(c, history)

Init ==
    /\ intent = [i \in Intents |-> None]
    /\ log = <<[of |-> None, text |-> 0, edit |-> 0]>>
    /\ present = TRUE
    /\ text = 1 /\ staged = 0 /\ foreign = FALSE /\ writing = TRUE
    /\ archive = [i \in Intents |-> 0]
    /\ finalizeLock = None /\ repoLock = None
    /\ pc = [p \in Procs |-> "idle"]
    /\ job = [p \in Procs |-> None]
    /\ on = [p \in Procs |-> None]
    /\ held = [p \in Procs |-> None]
    /\ proof = [p \in Procs |-> FALSE]

-----------------------------------------------------------------------------
(* Steps of a process.                                                     *)

At(p, step) == pc[p] = step
Go(p, step) == /\ pc' = [pc EXCEPT ![p] = step]
               /\ UNCHANGED <<job, on, held, proof>>

\* The command returns or dies: its locks are the kernel's to release.
Released(p) ==
    /\ finalizeLock' = IF finalizeLock = p THEN None ELSE finalizeLock
    /\ repoLock' = IF repoLock = p THEN None ELSE repoLock
Forgotten(p) ==
    /\ pc' = [pc EXCEPT ![p] = "idle"]
    /\ job' = [job EXCEPT ![p] = None]
    /\ on' = [on EXCEPT ![p] = None]
    /\ held' = [held EXCEPT ![p] = None]
    /\ proof' = [proof EXCEPT ![p] = FALSE]
Leave(p) == Released(p) /\ Forgotten(p)

Start(p, command, step, i, record, stopped) ==
    /\ At(p, "idle") /\ command \in Jobs
    /\ pc' = [pc EXCEPT ![p] = step]
    /\ job' = [job EXCEPT ![p] = command]
    /\ on' = [on EXCEPT ![p] = i]
    /\ held' = [held EXCEPT ![p] = record]
    /\ proof' = [proof EXCEPT ![p] = stopped]
    /\ UNCHANGED <<intent, git, tree, archive, locks>>

\* Seeded fault: updates are unconditional.
CurrentOrNot(i, record) == TRUE
\* UpdateIfRevision: under the store's lock, nothing unless the record is
\* the one the process holds.
Current(i, record) == intent[i] = record
Write(i, record) == intent' = [intent EXCEPT ![i] = record]

\* A transition of the held record; a stale one ends the command.
Advance(p, record, step) ==
    \/ /\ Current(on[p], held[p])
       /\ Write(on[p], record)
       /\ pc' = [pc EXCEPT ![p] = step]
       /\ held' = [held EXCEPT ![p] = record]
       /\ UNCHANGED <<job, on, proof, locks>>
    \/ /\ ~Current(on[p], held[p])
       /\ Leave(p) /\ UNCHANGED intent

\* The last transition of a command.
Conclude(p, record) ==
    /\ IF Current(on[p], held[p]) THEN Write(on[p], record) ELSE UNCHANGED intent
    /\ Leave(p)

\* Every refusal of the finalizer is recorded as a failure.
Fail(p) == Conclude(p, [held[p] EXCEPT !.status = "failed"])

-----------------------------------------------------------------------------
(* Prepare: arm an intent for the checkout as it is.                       *)

StartPrepare(p, i, r) ==
    /\ present /\ Clean
    /\ Start(p, "prepare", "arming", i,
             [run |-> r, head |-> log, status |-> "armed", ended |-> FALSE,
              commit |-> <<>>, plan |-> 0], FALSE)

TakeRepository(p) ==
    /\ At(p, "arming") /\ repoLock = None
    /\ repoLock' = p
    /\ Go(p, "create")
    /\ UNCHANGED <<intent, git, tree, archive, finalizeLock>>

\* Seeded fault: nothing is read again under the lock.
UnmovedUnread(p) == TRUE
\* What the process saw before it waited for the lock is checked again.
Unmoved(p) == present /\ log = held[p].head /\ Clean
RunTaken(r) == \E i \in Intents : intent[i] # None /\ intent[i].run = r

Create(p) ==
    /\ At(p, "create")
    /\ IF /\ Unmoved(p)
          /\ intent[on[p]] = None
          /\ ~RunTaken(held[p].run)
       THEN Write(on[p], held[p])
       ELSE UNCHANGED intent
    /\ Leave(p)
    /\ UNCHANGED <<git, tree, archive>>

-----------------------------------------------------------------------------
(* ObserveSessionEnd and discard: one read, one conditional write.         *)

StartObserve(p, i) ==
    /\ ~writing
    /\ intent[i] # None /\ intent[i].status \notin {"finalized", "discarded"}
    /\ Start(p, "observe", "observe", i, intent[i], FALSE)
Observe(p) ==
    /\ At(p, "observe")
    /\ Conclude(p, [held[p] EXCEPT !.ended = TRUE])
    /\ UNCHANGED <<git, tree, archive>>

StartDiscard(p, i) ==
    /\ intent[i] # None /\ intent[i].status = "failed"
    /\ Start(p, "discard", "confirm", i, intent[i], FALSE)
Discard(p) ==
    /\ At(p, "confirm")
    /\ \/ Conclude(p, [held[p] EXCEPT !.status = "discarded"])
       \/ Leave(p) /\ UNCHANGED intent      \* the operator declines
    /\ UNCHANGED <<git, tree, archive>>

-----------------------------------------------------------------------------
(* Finalize: commit the transcript on top of the head the intent names.    *)

\* --writer-stopped is given by the wrapper of the agent, which has returned.
StartFinalize(p, i, stopped) ==
    /\ intent[i] # None
    /\ stopped => ~writing
    /\ Start(p, "finalize", "queue", i, intent[i], stopped)

EnterFinalize(p) ==
    /\ At(p, "queue") /\ finalizeLock = None
    /\ IF Current(on[p], held[p]) /\ held[p].status # "discarded"
       THEN /\ finalizeLock' = p /\ UNCHANGED repoLock
            /\ Go(p, IF Destination[on[p]] = "archive" THEN "inspect" ELSE "search")
       ELSE Leave(p)
    /\ UNCHANGED <<intent, git, tree, archive>>

\* Seeded fault: the reviewed head is recorded as the commit.
FinalizedAtHead(p, c) == [held[p] EXCEPT !.status = "finalized", !.commit = held[p].head]
\* markFinalized; a commit found by its trailer repairs a lost record.
Finalized(p, c) == [held[p] EXCEPT !.status = "finalized", !.commit = c]
SearchReceipt(p) ==
    /\ At(p, "search")
    /\ CASE HasReceipt(on[p]) -> Conclude(p, Finalized(p, Receipt(on[p])))
         [] ~HasReceipt(on[p]) /\ held[p].status = "finalized" -> Leave(p) /\ UNCHANGED intent
         [] OTHER -> Go(p, "revalidate") /\ UNCHANGED <<intent, locks>>
    /\ UNCHANGED <<git, tree, archive>>

AsPrepared(p) == present /\ log = held[p].head
WriterProven(p) == held[p].ended \/ proof[p]

BeginFinalizing(p) ==
    /\ At(p, "revalidate")
    /\ AsPrepared(p) /\ WriterProven(p)
    /\ Advance(p, [held[p] EXCEPT !.status = "finalizing"], "stage")
    /\ UNCHANGED <<git, tree, archive>>
Refuse(p) ==
    /\ pc[p] \in {"revalidate", "inspect"} /\ held[p].status # "finalized"
    /\ Fail(p)
    /\ UNCHANGED <<git, tree, archive>>

\* finalizeGuard: the record is still the one held.  The look for a live
\* writer may refuse, and passes where no session runtime is configured.
Guarded(p) == Current(on[p], held[p])

\* Nothing may be staged; a refusal here leaves the index alone.
Stage(p) ==
    /\ At(p, "stage")
    /\ \/ /\ Guarded(p) /\ Clean
          /\ staged' = text
          /\ Go(p, "scan") /\ UNCHANGED <<intent, locks>>
       \/ /\ Fail(p) /\ UNCHANGED staged
    /\ UNCHANGED <<git, text, foreign, writing, archive>>

\* The scanner may redact the file; it stages what it leaves.
Scan(p) ==
    /\ At(p, "scan")
    /\ \/ /\ Guarded(p) /\ ~foreign /\ staged = text
          /\ Go(p, "settle") /\ UNCHANGED <<intent, locks, staged>>
       \/ /\ Fail(p) /\ Unstaged
    /\ UNCHANGED <<git, text, foreign, writing, archive>>

\* After scanning and settling everything is read once more.
Recheck(p) ==
    /\ At(p, "settle")
    /\ \/ /\ Guarded(p) /\ AsPrepared(p) /\ ~foreign /\ staged = text
          /\ Go(p, "commit") /\ UNCHANGED <<intent, locks, staged>>
       \/ /\ Fail(p) /\ Unstaged
    /\ UNCHANGED <<git, text, foreign, writing, archive>>

\* git commit takes the index as it is and goes on top of HEAD as it is.
CommitTranscript(p) ==
    /\ At(p, "commit")
    /\ \/ /\ present /\ ~Clean /\ Len(log) < MaxLog
          /\ log' = Append(log, [of |-> on[p], text |-> staged, edit |-> 0])
          /\ foreign' = FALSE
          /\ Go(p, "record") /\ UNCHANGED <<intent, staged, locks>>
       \/ /\ Fail(p) /\ Unstaged /\ UNCHANGED <<log, foreign>>
    /\ UNCHANGED <<present, text, writing, archive>>

\* Seeded fault: a failed rev-parse repeats the commit.
RecordOrRepeat(p) ==
    /\ At(p, "record")
    /\ \/ Conclude(p, Finalized(p, log))
       \/ Go(p, "commit") /\ UNCHANGED <<intent, locks>>
    /\ UNCHANGED <<git, tree, archive>>
\* rev-parse HEAD names the commit to record; it may fail.
RecordCommit(p) ==
    /\ At(p, "record")
    /\ \/ Conclude(p, Finalized(p, log))
       \/ Fail(p)
    /\ UNCHANGED <<git, tree, archive>>

-----------------------------------------------------------------------------
(* finalizeArchive: an external archive instead of a commit.               *)

\* The plan is the one bound, requested or previewed: once bound it stays.
BindPlan(p, plan) ==
    IF held[p].plan \in {0, plan}
    THEN Advance(p, [held[p] EXCEPT !.plan = plan, !.status = "finalizing"], "apply")
    ELSE Leave(p) /\ UNCHANGED intent
InspectArchive(p) ==
    /\ At(p, "inspect")
    /\ \/ held[p].status = "finalized" /\ Leave(p) /\ UNCHANGED intent
       \/ /\ held[p].status # "finalized"
          /\ AsPrepared(p) /\ WriterProven(p) /\ Guarded(p)
          /\ \E plan \in Plan \ {0} : BindPlan(p, plan)
    /\ UNCHANGED <<git, tree, archive>>

\* ApplyArchive runs the guard before it publishes; it may fail after.
ApplyArchive(p) ==
    /\ At(p, "apply")
    /\ \/ /\ Guarded(p) /\ AsPrepared(p)
          /\ archive' = [archive EXCEPT ![on[p]] = held[p].plan]
          /\ Go(p, "applied") /\ UNCHANGED <<intent, locks>>
       \/ Fail(p) /\ UNCHANGED archive
    /\ UNCHANGED <<git, tree>>

RecordArchive(p) ==
    /\ At(p, "applied")
    /\ \/ Conclude(p, [held[p] EXCEPT !.status = "finalized"])
       \/ Fail(p)
    /\ UNCHANGED <<git, tree, archive>>

-----------------------------------------------------------------------------
(* A life-cycle operation that needs the checkout ready (taskflow apply):  *)
(* it inspects under the repository lock and then acts on the checkout.    *)

IntentReady(i) ==
    LET r == intent[i] IN
    \/ r.status = "discarded"
    \/ /\ r.status = "finalized"
       /\ IF Destination[i] = "archive" THEN archive[i] = r.plan ELSE Holds(log, r.commit)
Ready == \A i \in Intents : intent[i] # None => IntentReady(i)

StartMove(p) == Start(p, "move", "waiting", None, None, FALSE)
InspectReadiness(p) ==
    /\ At(p, "waiting") /\ repoLock = None
    /\ IF present /\ Ready
       THEN repoLock' = p /\ UNCHANGED finalizeLock /\ Go(p, "moving")
       ELSE Leave(p)
    /\ UNCHANGED <<intent, git, tree, archive>>
Move(p) ==
    /\ At(p, "moving")
    /\ present' = FALSE
    /\ Leave(p)
    /\ UNCHANGED <<intent, log, tree, archive>>

Crash(p) ==
    /\ ~At(p, "idle")
    /\ Leave(p)
    /\ UNCHANGED <<intent, git, tree, archive>>

-----------------------------------------------------------------------------
(* The agent and the operator.                                             *)

AgentWrites ==
    /\ writing /\ text < MaxText
    /\ text' = text + 1
    /\ UNCHANGED <<intent, git, staged, foreign, writing, archive, locks, procs>>
AgentExits ==
    /\ writing /\ writing' = FALSE
    /\ UNCHANGED <<intent, git, text, staged, foreign, archive, locks, procs>>

\* The operator commits what is staged.
OperatorCommits ==
    /\ present /\ Len(log) < MaxLog
    /\ log' = Append(log, [of |-> None, text |-> staged, edit |-> 0])
    /\ foreign' = FALSE
    /\ UNCHANGED <<intent, present, text, staged, writing, archive, locks, procs>>

\* Nobody takes anything back in the instants between the finalizer's last
\* look, git commit and rev-parse: this is not something the code can notice.
Closing == \E p \in Procs : pc[p] \in {"commit", "record"}

OperatorStages ==
    /\ present
    /\ \/ foreign' = TRUE /\ UNCHANGED staged
       \/ ~Closing /\ Unstaged /\ foreign' = FALSE           \* git reset
    /\ UNCHANGED <<intent, git, text, writing, archive, locks, procs>>

OperatorRewrites ==
    /\ present /\ ~Closing /\ Len(log) > 1
    /\ \/ log' = Front(log)
       \/ Last(log).of # None /\ log' = [log EXCEPT ![Len(log)].edit = 1]
    /\ UNCHANGED <<intent, present, tree, archive, locks, procs>>

Environment == AgentWrites \/ AgentExits \/ OperatorCommits \/ OperatorStages
               \/ OperatorRewrites

Step(p) ==
    \/ \E i \in Intents : \/ \E r \in Runs : StartPrepare(p, i, r)
                          \/ StartObserve(p, i)
                          \/ StartDiscard(p, i)
                          \/ \E stopped \in BOOLEAN : StartFinalize(p, i, stopped)
    \/ TakeRepository(p) \/ Create(p)
    \/ Observe(p) \/ Discard(p)
    \/ EnterFinalize(p) \/ SearchReceipt(p) \/ BeginFinalizing(p) \/ Refuse(p)
    \/ Stage(p) \/ Scan(p) \/ Recheck(p) \/ CommitTranscript(p) \/ RecordCommit(p)
    \/ InspectArchive(p) \/ ApplyArchive(p) \/ RecordArchive(p)
    \/ StartMove(p) \/ InspectReadiness(p) \/ Move(p)
    \/ Crash(p)

Next == Environment \/ \E p \in Procs : Step(p)
Spec == Init /\ [][Next]_vars

-----------------------------------------------------------------------------
(* Properties.                                                             *)

\* Everything stays in its type.
TypeOK ==
    /\ intent \in [Intents -> Record \cup {None}]
    /\ log \in Log
    /\ <<present, foreign, writing>> \in BOOLEAN \X BOOLEAN \X BOOLEAN
    /\ text \in 0..MaxText /\ staged \in 0..MaxText
    /\ archive \in [Intents -> Plan]
    /\ finalizeLock \in Procs \cup {None} /\ repoLock \in Procs \cup {None}
    /\ job \in [Procs -> Jobs \cup {None}]
    /\ on \in [Procs -> Intents \cup {None}]
    /\ held \in [Procs -> Record \cup {None}]
    /\ proof \in [Procs -> BOOLEAN]

\* A transcript is committed once, however often its finalizer crashes, is
\* run again or loses its record to another process: a later run finds the
\* receipt, or refuses because HEAD has moved.  And it is all the session
\* wrote: without proof that the writer has stopped nothing is committed
\* (finalizeLocked).
CommittedOnce ==
    \A i \in Intents : /\ Cardinality(Receipts(log, i)) <= 1
                       /\ \A k \in Receipts(log, i) : log[k].text = text

\* An intent is finalized only by a commit in whose history its transcript
\* is, whoever committed beside the finalizer (markFinalized, findReceipt).
RecordedHolds ==
    \A i \in Intents :
        intent[i] # None /\ intent[i].status = "finalized" =>
            IF Destination[i] = "archive" THEN archive[i] = intent[i].plan
            ELSE Receipts(intent[i].commit, i) # {}

\* While a life-cycle operation acts on a checkout, and ever after when it is
\* gone, no intent of it is open: its readiness was read under the lock that
\* Prepare arms under, and a finalizer that may still commit shows in the
\* record although it takes another lock (Prepare, InspectReadiness).
Open(i) == intent[i] # None /\ intent[i].status \in {"armed", "finalizing", "failed"}
MovedWithNothingOpen ==
    (~present \/ \E p \in Procs : At(p, "moving")) => \A i \in Intents : ~Open(i)

\* One run owns one intent, although Create is called by racing processes
\* (Create): otherwise its session's end could not be attributed.
RunOwnsOne ==
    \A i, j \in Intents :
        /\ i # j /\ intent[i] # None /\ intent[j] # None
        => intent[i].run # intent[j].run

\* No process undoes what another recorded after it had read: a discard, a
\* finalization, the end of the session and the bound plan stay
\* (UpdateIfRevision in updateIntent).
KeepsWord(r, s) ==
    /\ r.status = "discarded" => s = r
    /\ r.status = "finalized" => s.status = "finalized"
    /\ r.ended => s.ended
    /\ r.plan # 0 => s.plan = r.plan
Keeping == \A i \in Intents : intent[i] # None => KeepsWord(intent[i], intent'[i])
NothingUndone == [][Keeping]_vars

\* artifact discard "Record[s] that an armed handoff will never produce a
\* commit" (internal/cli/artifact.go): a discarded intent has none.
\* The code breaks this when the commit was made and its name could not be read.
DiscardedHasNoCommit ==
    \A i \in Intents :
        intent[i] # None /\ intent[i].status = "discarded" => ~HasReceipt(i)
=============================================================================
