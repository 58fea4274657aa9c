----------------------------- MODULE ConfigEdit -----------------------------
(***************************************************************************)
(* Edits of several configuration files as one transaction with a recovery *)
(* receipt, and their undo.  The domain is the organizer of ~/.ssh: it     *)
(* creates a fragment with the blocks of a source file, switches the root  *)
(* file to include the fragment, and removes the source.  Files change one *)
(* after the other.  A receipt is written before the first change and once *)
(* more at the end; what is learnt in between is lost with the process.    *)
(* The user's editor writes whenever it likes.                             *)
(*                                                                         *)
(* The last comparison of a file and its replacement are one step: an      *)
(* editor that saves between these two calls is outside the program's      *)
(* promise (safefile.AtomicReplace).                                       *)
(***************************************************************************)
EXTENDS Naturals, Sequences, SequencesExt, FiniteSets

CONSTANTS Processes,    \* dev commands, one transaction each
          None,         \* no text, no writer, nobody, not known
          Fragment, Root, Source,
          MaxEdits,     \* bound: saves of the user's editor
          ReadsApart    \* whether anything happens between the two readings of a restore plan

ConfigAssumption ==
    /\ None \notin Processes
    /\ Fragment # Root /\ Fragment # Source /\ Root # Source
    /\ MaxEdits \in Nat

Paths == {Fragment, Root, Source}

(* A file as its text and the write it comes from, which stands for inode, *)
(* times and metadata: one before dev runs, one per save of the user, one  *)
(* per change of a transaction.                                             *)
File(text, by) == [text |-> text, by |-> by]
Absent == File(None, None)

Texts == {"blocks", "edited", "includesSource", "includesFragment"}
Writes == Processes \cup (0..MaxEdits)
Files == [text : Texts, by : Writes] \cup {Absent}

(* One change of a plan, in publication order: a text None removes.        *)
Change(path, before, text) == [path |-> path, before |-> before, text |-> text]

(* The elements of a sequence at some of its positions, in their order.    *)
InOrder(S) == CHOOSE f \in Bijection(1..Cardinality(S), S) : \A i, j \in DOMAIN f : i < j => f[i] < f[j]
Those(s, S) == [i \in 1..Cardinality(S) |-> s[InOrder(S)[i]]]

VARIABLES files,      \* the file system
          edits,      \* saves of the user so far
          lock,       \* who holds the leases of the owner and of the recovery directory
          pc,         \* per process
          undoes,     \* the receipt a restore works on, None for the organizer
          plan,       \* the changes, with the state each was planned from
          guards,     \* further files the plan depends on, with their state
          next,       \* the change to publish next
          known,      \* the observed states after the publications so far
          receipts    \* on disk, by transaction

vars == <<files, edits, lock, pc, undoes, plan, guards, next, known, receipts>>

-----------------------------------------------------------------------------
Current(path, state) == files[path] = state

GuardsCurrent(p, published) ==
    \A g \in DOMAIN guards[p] \ published : Current(g, guards[p][g])

AllCurrent(p) ==
    /\ GuardsCurrent(p, {})
    /\ \A i \in 1..Len(plan[p]) : Current(plan[p][i].path, plan[p][i].before)

Published(p) == {plan[p][i].path : i \in 1..(next[p] - 1)}

(* The image of a change: what was there, what is wanted, and the state    *)
(* observed behind it, if it was.                                           *)
Image(change, after) ==
    [path |-> change.path, before |-> change.before, text |-> change.text, known |-> after]

Receipt(p, status, after) ==
    [status |-> status,
     images |-> [i \in 1..Len(plan[p]) |->
                    Image(plan[p][i], IF i <= Len(after) THEN after[i] ELSE None)]]

Init ==
    /\ files = [path \in Paths |->
                   CASE path = Fragment -> Absent
                     [] path = Root -> File("includesSource", 0)
                     [] path = Source -> File("blocks", 0)]
    /\ edits = 0
    /\ lock = None
    /\ pc = [p \in Processes |-> "idle"]
    /\ undoes = [p \in Processes |-> None]
    /\ plan = [p \in Processes |-> <<>>]
    /\ guards = [p \in Processes |-> <<>>]
    /\ next = [p \in Processes |-> 1]
    /\ known = [p \in Processes |-> <<>>]
    /\ receipts = [p \in Processes |-> None]

-----------------------------------------------------------------------------
(* PlanOrganize: the destination must be new, everything read is guarded,  *)
(* and the inventory is read again behind the capture.                     *)
PlanOrganize(p) ==
    /\ pc[p] = "idle"
    /\ files[Root].text = "includesSource"
    /\ files[Source].text # None
    /\ files[Fragment] = Absent
    /\ pc' = [pc EXCEPT ![p] = "planned"]
    /\ plan' = [plan EXCEPT ![p] =
                  <<Change(Fragment, Absent, files[Source].text),
                    Change(Root, files[Root], "includesFragment"),
                    Change(Source, files[Source], None)>>]
    /\ guards' = [guards EXCEPT ![p] = [g \in {Root, Source} |-> files[g]]]
    /\ UNCHANGED <<files, edits, lock, undoes, next, known, receipts>>

\* Seeded fault: files that the transaction created are left in place.
SkippedCreated(image) ==
    image.before = Absent \/ files[image.path].text = image.before.text

\* Seeded fault: the bytes are compared and not the identity of the file.
RecordedBytes(image) ==
    image.known # None /\ files[image.path].text = image.known.text

(* A published file is put back only from the state the receipt knows; a   *)
(* file that has its former text already is skipped.                       *)
Skipped(image) == files[image.path].text = image.before.text

Recorded(image) == image.known # None /\ Current(image.path, image.known)

RestoreOrder(images) == Reverse(images)

RestoreLook(p, q) ==
    /\ pc[p] = "idle"
    /\ receipts[q] # None
    /\ \A i \in 1..Len(receipts[q].images) :
          Skipped(receipts[q].images[i]) \/ Recorded(receipts[q].images[i])
    /\ pc' = [pc EXCEPT ![p] = "looked"]
    /\ undoes' = [undoes EXCEPT ![p] = q]
    /\ plan' = [plan EXCEPT ![p] =
                  LET all == RestoreOrder(receipts[q].images)
                      left == Those(all, {i \in DOMAIN all : ~Skipped(all[i])})
                  IN  [i \in 1..Len(left) |->
                          Change(left[i].path, left[i].known, left[i].before.text)]]
    /\ UNCHANGED <<files, edits, lock, guards, next, known, receipts>>

(* New captures the same files again and drops those that need no change.  *)
RestoreCapture(p) ==
    LET fresh == Those(plan[p], {i \in DOMAIN plan[p] : files[plan[p][i].path].text # plan[p][i].text})
    IN  /\ pc[p] = "looked"
        /\ plan' = [plan EXCEPT ![p] =
                      [i \in 1..Len(fresh) |->
                          Change(fresh[i].path, files[fresh[i].path], fresh[i].text)]]
        /\ pc' = [pc EXCEPT ![p] = IF fresh = <<>> THEN "done" ELSE "planned"]
        /\ UNCHANGED <<files, edits, lock, undoes, guards, next, known, receipts>>

(* ApplyChecked compares everything before it takes the leases ...         *)
Refuse(p) ==
    /\ pc[p] = "planned"
    /\ ~AllCurrent(p)
    /\ pc' = [pc EXCEPT ![p] = "done"]
    /\ UNCHANGED <<files, edits, lock, undoes, plan, guards, next, known, receipts>>

Enter(p) ==
    /\ pc[p] = "planned"
    /\ lock = None
    /\ lock' = p
    /\ pc' = [pc EXCEPT ![p] = "locked"]
    /\ UNCHANGED <<files, edits, undoes, plan, guards, next, known, receipts>>

(* ... and once more under them.                                            *)
Begin(p) ==
    /\ pc[p] = "locked"
    /\ AllCurrent(p)
    /\ receipts' = [receipts EXCEPT ![p] = Receipt(p, "pending", <<>>)]
    /\ pc' = [pc EXCEPT ![p] = "open"]
    /\ UNCHANGED <<files, edits, lock, undoes, plan, guards, next, known>>

Leave(p) ==
    /\ pc[p] = "locked"
    /\ ~AllCurrent(p)
    /\ lock' = None
    /\ pc' = [pc EXCEPT ![p] = "done"]
    /\ UNCHANGED <<files, edits, undoes, plan, guards, next, known, receipts>>

(* The guards that this transaction has not replaced itself, and the file, *)
(* are as planned.                                                          *)
Publishable(p) ==
    /\ GuardsCurrent(p, Published(p))
    /\ Current(plan[p][next[p]].path, plan[p][next[p]].before)

Publish(p) ==
    /\ pc[p] = "open"
    /\ next[p] <= Len(plan[p])
    /\ Publishable(p)
    /\ LET c == plan[p][next[p]]
       IN  files' = [files EXCEPT ![c.path] = IF c.text = None THEN Absent ELSE File(c.text, p)]
    /\ pc' = [pc EXCEPT ![p] = "written"]
    /\ UNCHANGED <<edits, lock, undoes, plan, guards, next, known, receipts>>

(* The published file is read back: its state is the one an undo accepts.  *)
Verified(p) == files[plan[p][next[p]].path].text = plan[p][next[p]].text

Observe(p) ==
    /\ pc[p] = "written"
    /\ Verified(p)
    /\ known' = [known EXCEPT ![p] = Append(@, files[plan[p][next[p]].path])]
    /\ next' = [next EXCEPT ![p] = @ + 1]
    /\ pc' = [pc EXCEPT ![p] = "open"]
    /\ UNCHANGED <<files, edits, lock, undoes, plan, guards, receipts>>

Finish(p) ==
    /\ pc[p] = "open"
    /\ next[p] > Len(plan[p])
    /\ receipts' = [receipts EXCEPT ![p] = Receipt(p, "applied", known[p])]
    /\ lock' = None
    /\ pc' = [pc EXCEPT ![p] = "done"]
    /\ UNCHANGED <<files, edits, undoes, plan, guards, next, known>>

(* The deferred save of a transaction that stops: a stale file or guard, a *)
(* failed read, or the user's interrupt.                                   *)
SavePartial(p) == receipts' = [receipts EXCEPT ![p] = Receipt(p, "partial", known[p])]

Stop(p) ==
    /\ pc[p] \in {"open", "written"}
    /\ SavePartial(p)
    /\ lock' = None
    /\ pc' = [pc EXCEPT ![p] = "done"]
    /\ UNCHANGED <<files, edits, undoes, plan, guards, next, known>>

(* A crash: the flocks go, the receipt stays as it was last written.       *)
Kill(p) ==
    /\ pc[p] \in {"locked", "open", "written"}
    /\ lock' = None
    /\ pc' = [pc EXCEPT ![p] = "done"]
    /\ UNCHANGED <<files, edits, undoes, plan, guards, next, known, receipts>>

(* The user's editor saves a file, with the same text or another one.      *)
Edit(path) ==
    /\ edits < MaxEdits
    /\ files[path] # Absent
    /\ edits' = edits + 1
    /\ \E text \in {files[path].text, "edited"} :
          files' = [files EXCEPT ![path] = File(text, edits')]
    /\ UNCHANGED <<lock, pc, undoes, plan, guards, next, known, receipts>>

Quiet == ReadsApart \/ \A p \in Processes : pc[p] # "looked"

Next ==
    \/ \E p \in Processes : RestoreCapture(p)
    \/ /\ Quiet
       /\ \/ \E p \in Processes :
                \/ PlanOrganize(p)
                \/ \E q \in Processes : RestoreLook(p, q)
                \/ Refuse(p) \/ Enter(p) \/ Begin(p) \/ Leave(p)
                \/ Publish(p) \/ Observe(p) \/ Finish(p) \/ Stop(p) \/ Kill(p)
          \/ \E path \in Paths : Edit(path)

Spec == Init /\ [][Next]_vars

-----------------------------------------------------------------------------
(* Types; a process past its plan and before its end holds the leases.     *)
TypeOK ==
    /\ files \in [Paths -> Files]
    /\ edits \in 0..MaxEdits
    /\ lock \in Processes \cup {None}
    /\ pc \in [Processes -> {"idle", "looked", "planned", "locked", "open", "written", "done"}]
    /\ undoes \in [Processes -> Processes \cup {None}]
    /\ \A p \in Processes :
          /\ Len(known[p]) = next[p] - 1
          /\ (pc[p] \in {"locked", "open", "written"}) <=> (lock = p)
          /\ pc[p] \in {"open", "written"} => receipts[p] # None

(* Whatever is interrupted or undone, the root file includes a file that   *)
(* is there (PlanOrganize publishes fragments, root, removals in this      *)
(* order, RestorePlan in the reverse one).                                  *)
Referenced ==
    /\ files[Root].text = "includesSource" => files[Source] # Absent
    /\ files[Root].text = "includesFragment" => files[Fragment] # Absent

(* When the organizer switches the root file, the fragment has the text    *)
(* the source has at this moment, or the user has saved the fragment       *)
(* since: no edit of the source is left behind unread (ApplyChecked's      *)
(* guards).                                                                 *)
SwitchedCurrent ==
    [][(\E p \in Processes : Publish(p) /\ undoes[p] = None /\ files'[Root] # files[Root])
          => (files[Fragment].text = files[Source].text \/ files[Fragment].by \in 1..MaxEdits)]_vars

(* A restore plans to put back every text of its transaction that is not   *)
(* there, and when it is reported as applied those are, except where the   *)
(* user has saved the file since (RestorePlan, ApplyChecked).              *)
Covers(p) ==
    \A i \in 1..Len(receipts[undoes[p]].images) :
        LET x == receipts[undoes[p]].images[i]
        IN  \/ files[x.path].text = x.before.text
            \/ \E k \in 1..Len(plan'[p]) : plan'[p][k] = Change(x.path, files[x.path], x.before.text)

PutBack(p) ==
    \A i \in 1..Len(plan[p]) :
        LET c == plan[p][i]
        IN  files[c.path].text = c.text \/ files[c.path].by \in 1..MaxEdits

PutsBack ==
    \A p \in Processes :
        /\ RestoreCapture(p) => Covers(p)
        /\ Finish(p) /\ undoes[p] # None => PutBack(p)
Undone == [][PutsBack]_vars

(* The receipt of a transaction that was not killed knows the state of all *)
(* files it left behind but the one it stopped at: they can be put back.   *)
Traceable ==
    \A p \in Processes :
        (pc[p] = "done" /\ receipts[p] # None /\ receipts[p].status # "pending") =>
            \A i \in (1..Len(plan[p])) \ {next[p]} :
                files[plan[p][i].path].by = p =>
                    receipts[p].images[i].known = files[plan[p][i].path]

(* A restore replaces or removes a file only in the state its receipt      *)
(* recorded: not after an edit, nor after a replacement with the same      *)
(* bytes (RestorePlan, fileState).                                          *)
RestoresRecorded ==
    \A p \in Processes :
        (Publish(p) /\ undoes[p] # None) =>
            \E i \in 1..Len(receipts[undoes[p]].images) :
                LET x == receipts[undoes[p]].images[i]
                IN  x.path = plan[p][next[p]].path /\ x.known = files[x.path]
EditsKept == [][RestoresRecorded]_vars
=============================================================================
