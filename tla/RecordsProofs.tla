---------------------------- MODULE RecordsProofs ----------------------------
(***************************************************************************)
(* Proofs about the archive intents and the registry of machines, for all  *)
(* sets of processes, intents, runs, machines and provider records.        *)
(*                                                                         *)
(* Intents: a command knows little of the checkout but what its record and *)
(* its locks say.  The invariant says of each place in a command what that *)
(* is (Locking, Holding, Proving, Closed), and of the records and the      *)
(* history that the head an intent was armed at is of before its commit    *)
(* (Armed).  A step is then known by what it does to one intent            *)
(* (IntentEffects), to the commits of one (HistoryEffects) and to the      *)
(* checkout (CheckoutEffects), and the properties follow from these.       *)
(*                                                                         *)
(* The registry: every plan a command holds turns a readable snapshot into *)
(* a readable one that takes nothing away (Carries); a commit writes the   *)
(* plan's result over the very snapshot it was made from, so the database  *)
(* inherits both.                                                          *)
(***************************************************************************)
EXTENDS MCRecords, TLAPS, SequenceTheorems, FiniteSetTheorems

-----------------------------------------------------------------------------
(* Archive intents.                                                        *)

(* Where a process is.                                                       *)
Committers == {"search", "revalidate", "stage", "scan", "settle", "commit", "record"}
Archivers == {"inspect", "apply", "applied"}
Finalizers == Committers \cup Archivers
Begun == {"stage", "scan", "settle", "commit", "record", "apply", "applied"}
Preparing == {"arming", "create"}
Followers == {"observe", "confirm", "queue"} \cup Finalizers
Idlers == {"idle", "waiting", "moving"}

Types ==
    /\ intent \in [Intents -> Record \cup {None}]
    /\ log \in Log /\ log # <<>>
    /\ present \in BOOLEAN /\ foreign \in BOOLEAN /\ writing \in BOOLEAN
    /\ text \in 0..MaxText /\ staged \in 0..MaxText
    /\ archive \in [Intents -> Plan]
    /\ finalizeLock \in Procs \cup {None} /\ repoLock \in Procs \cup {None}
    /\ pc \in [Procs -> Idlers \cup Preparing \cup Followers]
    /\ job \in [Procs -> Jobs \cup {None}]
    /\ on \in [Procs -> Intents \cup {None}]
    /\ held \in [Procs -> Record \cup {None}]
    /\ proof \in [Procs -> BOOLEAN]
    /\ \A p \in Procs : pc[p] \notin Idlers => held[p] \in Record /\ on[p] \in Intents

(* A command holds the locks it needs where it is.                           *)
Locking(p) ==
    /\ pc[p] \in Finalizers => finalizeLock = p
    /\ pc[p] \in {"create", "moving"} => repoLock = p

(* What a command knows of the record it holds.                              *)
Holding(p) ==
    /\ pc[p] \in Preparing => held[p].status = "armed" /\ ~held[p].ended /\ held[p].plan = 0
    /\ pc[p] \in Followers => /\ intent[on[p]] # None
                              /\ Receipts(held[p].head, on[p]) = {}
    /\ pc[p] = "observe" => held[p].status \notin {"finalized", "discarded"}
    /\ pc[p] = "confirm" => held[p].status = "failed"
    /\ pc[p] \in Finalizers => held[p].status # "discarded"
    /\ pc[p] \in Begun => held[p].status = "finalizing"
    /\ pc[p] = "revalidate" => held[p].status # "finalized"
    /\ pc[p] \in Committers => Destination[on[p]] # "archive"
    /\ pc[p] \in Archivers => Destination[on[p]] = "archive"

(* A command that takes the writer for stopped is right.                     *)
Proving(p) ==
    /\ pc[p] \in Followers /\ held[p].ended => ~writing
    /\ proof[p] \/ pc[p] \in Begun \cup {"observe"} => ~writing

(* Around the commit, and around the archive's publication.                  *)
Closed(p) ==
    /\ pc[p] = "commit" => staged = text /\ ~HasReceipt(on[p])
    /\ pc[p] = "record" => HasReceipt(on[p])
    /\ pc[p] = "applied" => archive[on[p]] = held[p].plan

AllKept == \A p \in Procs : Locking(p) /\ Holding(p) /\ Proving(p) /\ Closed(p)

(* Sessions recorded as ended have; the head an intent was armed at is of    *)
(* before its commit.                                                        *)
Armed == \A i \in Intents :
    /\ intent[i] = None => Receipts(log, i) = {}
    /\ intent[i] # None => /\ Receipts(intent[i].head, i) = {}
                           /\ intent[i].ended => ~writing

(* There is one commit of an intent at most, made when all was written.      *)
Once == \A i \in Intents :
    /\ \A k, l \in Receipts(log, i) : k = l
    /\ \A k \in Receipts(log, i) : ~writing /\ log[k].text = text

ArtifactInv == /\ Types /\ AllKept /\ Armed /\ Once
               /\ RecordedHolds /\ MovedWithNothingOpen /\ RunOwnsOne

-----------------------------------------------------------------------------
(* A history with one more commit.                                           *)
LEMMA AppendedHistory ==
  ASSUME NEW h \in Log, NEW c \in Commit
  PROVE  /\ Append(h, c) \in Log /\ Append(h, c) # <<>>
         /\ \A i : Receipts(Append(h, c), i) =
                     Receipts(h, i) \cup (IF c.of = i THEN {Len(h) + 1} ELSE {})
         /\ \A i : \A k \in Receipts(h, i) : Append(h, c)[k] = h[k] /\ k # Len(h) + 1
         /\ Append(h, c)[Len(h) + 1] = c
<1> DEFINE g == Append(h, c)
<1>1. /\ g \in Log /\ Len(g) = Len(h) + 1 /\ Len(h) \in Nat
      /\ DOMAIN g = 1..Len(g) /\ DOMAIN h = 1..Len(h)
  BY DEF Log
<1>2. \A k \in 1..Len(h) : g[k] = h[k]
  BY DEF Log
<1>3. g[Len(h) + 1] = c
  BY DEF Log
<1> HIDE DEF g
<1>4. g # <<>>
  BY <1>1, EmptySeq
<1>5. \A i : Receipts(g, i) = Receipts(h, i) \cup (IF c.of = i THEN {Len(h) + 1} ELSE {})
  BY <1>1, <1>2, <1>3 DEF Receipts
<1> QED
  BY <1>1, <1>2, <1>3, <1>4, <1>5 DEF g, Receipts

(* A history without its last commit, or with another last commit.           *)
LEMMA RewrittenHistory ==
  ASSUME NEW h \in Log, Len(h) > 1, NEW g,
         g = Front(h) \/ g = [h EXCEPT ![Len(h)].edit = 1]
  PROVE  /\ g \in Log /\ g # <<>>
         /\ \A i : /\ Receipts(g, i) \subseteq Receipts(h, i)
                    /\ \A k \in Receipts(g, i) : g[k].text = h[k].text
<1>1. CASE g = Front(h)
  <2>1. g \in Log /\ Len(g) = Len(h) - 1 /\ Len(h) \in Nat
    BY <1>1, SubSeqProperties DEF Front, Log
  <2>2. \A k \in 1..Len(g) : g[k] = h[k]
    BY <1>1, <2>1, SubSeqProperties DEF Front, Log
  <2>3. DOMAIN g = 1..Len(g) /\ DOMAIN h = 1..Len(h) /\ g # <<>>
    BY <2>1 DEF Log
  <2> QED
    BY <2>1, <2>2, <2>3 DEF Receipts
<1>2. CASE g = [h EXCEPT ![Len(h)].edit = 1]
  <2>1. Len(h) \in 1..Len(h) /\ DOMAIN h = 1..Len(h)
    BY DEF Log
  <2> DEFINE c == [h[Len(h)] EXCEPT !.edit = 1]
  <2>2. h[Len(h)] \in Commit
    BY <2>1 DEF Log
  <2>3. c \in Commit /\ c.of = h[Len(h)].of /\ c.text = h[Len(h)].text
    BY <2>2 DEF Commit
  <2>4. g = [h EXCEPT ![Len(h)] = c]
    BY <1>2
  <2> HIDE DEF c
  <2>5. g \in Log /\ Len(g) = Len(h)
    BY <2>1, <2>3, <2>4, ExceptSeq DEF Log
  <2>6. \A k \in 1..Len(h) : g[k] = IF k = Len(h) THEN c ELSE h[k]
    BY <2>1, <2>4 DEF Log
  <2>7. DOMAIN g = 1..Len(g) /\ g # <<>>
    BY <2>5 DEF Log
  <2> QED
    BY <2>1, <2>3, <2>5, <2>6, <2>7 DEF Receipts
<1> QED
  BY <1>1, <1>2

(* The history a receipt names holds the receipt (findReceipt).              *)
LEMMA FoundReceipt ==
  ASSUME NEW i, log \in Log, HasReceipt(i), \A k, l \in Receipts(log, i) : k = l
  PROVE  Receipt(i) \in Log /\ Receipts(Receipt(i), i) # {}
<1> DEFINE Newest(k) == \A other \in Receipts(log, i) : other <= k
<1> DEFINE n == CHOOSE k \in Receipts(log, i) : Newest(k)
<1>1. PICK k \in Receipts(log, i) : TRUE
  BY DEF HasReceipt
<1>2. k \in 1..Len(log) /\ log[k].of = i /\ Len(log) \in Nat
  BY DEF Receipts, Log
<1>3. Newest(k)
  BY <1>1, <1>2
<1>4. n = k
  BY <1>1, <1>3
<1>5. Receipt(i) = SubSeq(log, 1, k)
  BY <1>4 DEF Receipt
<1>6. SubSeq(log, 1, k) \in Log /\ Len(SubSeq(log, 1, k)) = k /\ SubSeq(log, 1, k)[k] = log[k]
  BY <1>2, SubSeqProperties DEF Log
<1>7. k \in DOMAIN SubSeq(log, 1, k)
  BY <1>2, <1>6 DEF Log
<1> QED
  BY <1>2, <1>5, <1>6, <1>7 DEF Receipts

(* What a step of p leaves alone.                                            *)
OthersStay(p) == \A q \in Procs \ {p} :
    /\ pc'[q] = pc[q] /\ on'[q] = on[q] /\ held'[q] = held[q] /\ proof'[q] = proof[q]
    /\ finalizeLock = q => finalizeLock' = q
    /\ repoLock = q => repoLock' = q

(* Only p's own state and locks change.                                      *)
LEMMA OthersStayed ==
  ASSUME Types, NEW p \in Procs, Step(p)
  PROVE  OthersStay(p)
<1> USE NoneAssumption DEF Types, OthersStay
<1>1. ASSUME NEW command, NEW step, NEW i, NEW record, NEW stopped,
             Start(p, command, step, i, record, stopped)
      PROVE  OthersStay(p)
  BY <1>1 DEF Start, locks
<1>2. ASSUME Leave(p)
      PROVE  OthersStay(p)
  BY <1>2 DEF Leave, Released, Forgotten
<1>3. ASSUME NEW step, Go(p, step), UNCHANGED locks
      PROVE  OthersStay(p)
  BY <1>3 DEF Go, locks
<1>4. ASSUME NEW r, NEW step, Advance(p, r, step)
      PROVE  OthersStay(p)
  BY <1>4, <1>2 DEF Advance, locks
<1>5. ASSUME NEW r, Conclude(p, r)
      PROVE  OthersStay(p)
  BY <1>5, <1>2 DEF Conclude
<1>6. ASSUME TakeRepository(p) \/ EnterFinalize(p) \/ InspectReadiness(p)
      PROVE  OthersStay(p)
  BY <1>6, <1>2 DEF TakeRepository, EnterFinalize, InspectReadiness, Go, At
<1> HIDE DEF OthersStay, Types
<1>7. CASE \E i \in Intents : \/ \E r \in Runs : StartPrepare(p, i, r)
                              \/ StartObserve(p, i) \/ StartDiscard(p, i)
                              \/ \E stopped \in BOOLEAN : StartFinalize(p, i, stopped)
  BY <1>1, <1>7 DEF StartPrepare, StartObserve, StartDiscard, StartFinalize
<1>8. CASE Create(p) \/ Observe(p) \/ Discard(p) \/ Move(p) \/ Crash(p)
  BY <1>2, <1>5, <1>8 DEF Create, Observe, Discard, Move, Crash
<1>9. CASE SearchReceipt(p) \/ BeginFinalizing(p) \/ Refuse(p)
  BY <1>2, <1>3, <1>4, <1>5, <1>9 DEF SearchReceipt, BeginFinalizing, Refuse, Fail
<1>10. CASE Stage(p) \/ Scan(p) \/ Recheck(p) \/ CommitTranscript(p) \/ RecordCommit(p)
  BY <1>3, <1>5, <1>10 DEF Stage, Scan, Recheck, CommitTranscript, RecordCommit, Fail
<1>11. CASE InspectArchive(p) \/ ApplyArchive(p) \/ RecordArchive(p) \/ StartMove(p)
  BY <1>1, <1>2, <1>3, <1>4, <1>5, <1>11
     DEF InspectArchive, BindPlan, ApplyArchive, RecordArchive, StartMove, Fail
<1> QED
  BY <1>6, <1>7, <1>8, <1>9, <1>10, <1>11 DEF Step

-----------------------------------------------------------------------------
(* What a step of p may do to the checkout.                                  *)
CheckoutSteps(p) ==
    /\ text' = text /\ writing' = writing
    /\ pc[p] \notin Finalizers => staged' = staged
    /\ \/ log' = log
       \/ pc[p] = "commit" /\ log' = Append(log, [of |-> on[p], text |-> staged, edit |-> 0])
    /\ \/ archive' = archive
       \/ /\ pc[p] = "apply" /\ Current(on[p], held[p])
          /\ archive' = [archive EXCEPT ![on[p]] = held[p].plan] /\ intent' = intent
    /\ \/ present' = present
       \/ pc[p] = "moving" /\ present' = FALSE

(* No step does more.                                                        *)
LEMMA CheckoutStepped ==
  ASSUME NEW p \in Procs, Step(p)
  PROVE  CheckoutSteps(p)
<1> USE DEF git, tree
<1>1. CASE \E i \in Intents : \/ \E r \in Runs : StartPrepare(p, i, r)
                              \/ StartObserve(p, i) \/ StartDiscard(p, i)
                              \/ \E stopped \in BOOLEAN : StartFinalize(p, i, stopped)
  BY <1>1 DEF StartPrepare, StartObserve, StartDiscard, StartFinalize, Start, CheckoutSteps
<1>2. CASE TakeRepository(p) \/ Create(p) \/ Observe(p) \/ Discard(p) \/ Crash(p)
           \/ StartMove(p) \/ InspectReadiness(p)
  BY <1>2
     DEF TakeRepository, Create, Observe, Discard, Crash, StartMove, Start,
         InspectReadiness, CheckoutSteps
<1>3. CASE EnterFinalize(p) \/ SearchReceipt(p) \/ BeginFinalizing(p) \/ Refuse(p)
           \/ RecordCommit(p) \/ InspectArchive(p) \/ RecordArchive(p)
  BY <1>3
     DEF EnterFinalize, SearchReceipt, BeginFinalizing, Refuse, RecordCommit,
         InspectArchive, RecordArchive, CheckoutSteps
<1>4. CASE Stage(p) \/ Scan(p) \/ Recheck(p) \/ CommitTranscript(p)
  BY <1>4
     DEF Stage, Scan, Recheck, CommitTranscript, At, Finalizers, Committers, CheckoutSteps
<1>5. CASE ApplyArchive(p) \/ Move(p)
  BY <1>5 DEF ApplyArchive, Move, Guarded, At, CheckoutSteps
<1> QED
  BY <1>1, <1>2, <1>3, <1>4, <1>5 DEF Step

(* What a command may record over the record it holds.                       *)
Rewritten(p, r) ==
    /\ r \in Record /\ r.run = held[p].run /\ r.head = held[p].head
    /\ held[p].status # "discarded"
    /\ held[p].status = "finalized" => r.status = "finalized"
    /\ held[p].ended => r.ended
    /\ r.ended => held[p].ended \/ ~writing
    /\ held[p].plan # 0 => r.plan = held[p].plan
    /\ r.status = "finalized" =>
          IF Destination[on[p]] = "archive" THEN archive[on[p]] = r.plan
          ELSE Receipts(r.commit, on[p]) # {}

Rewrites(p) ==
    /\ pc[p] \in Followers /\ Current(on[p], held[p])
    /\ \E r : Rewritten(p, r) /\ Write(on[p], r)

Creates(p) ==
    /\ At(p, "create") /\ Unmoved(p) /\ intent[on[p]] = None /\ ~RunTaken(held[p].run)
    /\ Write(on[p], held[p])

(* The last transition of a command.                                         *)
LEMMA ConcludedRewrites ==
  ASSUME NEW p \in Procs, pc[p] \in Followers, NEW r, Rewritten(p, r), Conclude(p, r)
  PROVE  UNCHANGED intent \/ Rewrites(p)
BY DEF Conclude, Rewrites

(* The finalizer's failures rewrite no record that has come to its end.      *)
LEMMA FailedRewrites ==
  ASSUME Types, AllKept, NEW p \in Procs, pc[p] \in Followers, Fail(p),
         held[p].status \notin {"finalized", "discarded"}
  PROVE  UNCHANGED intent \/ Rewrites(p)
<1> DEFINE w == [held[p] EXCEPT !.status = "failed"]
<1>1. held[p] \in Record
  BY DEF Types, Followers, Idlers, Finalizers, Committers, Archivers
<1>2. w \in Record /\ w.status = "failed" /\ w.run = held[p].run /\ w.head = held[p].head
      /\ w.ended = held[p].ended /\ w.plan = held[p].plan
  BY <1>1 DEF Record, Status
<1>3. Conclude(p, w)
  BY DEF Fail
<1> HIDE DEF w
<1>4. Rewritten(p, w)
  BY <1>2 DEF Rewritten
<1> QED
  BY <1>3, <1>4, ConcludedRewrites

(* A step creates an intent, rewrites one as it may, or leaves all alone.    *)
LEMMA IntentSteps ==
  ASSUME Types, AllKept, Once, NEW p \in Procs, Step(p)
  PROVE  UNCHANGED intent \/ Creates(p) \/ Rewrites(p)
<1> DEFINE Goal == UNCHANGED intent \/ Creates(p) \/ Rewrites(p)
<1> SUFFICES Goal
  OBVIOUS
<1> USE DEF At
<1>a. pc[p] \in Followers \cup Preparing => held[p] \in Record /\ on[p] \in Intents
  BY DEF Types, Followers, Idlers, Finalizers, Committers, Archivers, Preparing
<1>b. Holding(p) /\ Proving(p) /\ Closed(p)
  BY DEF AllKept
<1>1. CASE \E i \in Intents : \/ \E r \in Runs : StartPrepare(p, i, r)
                              \/ StartObserve(p, i) \/ StartDiscard(p, i)
                              \/ \E stopped \in BOOLEAN : StartFinalize(p, i, stopped)
  BY <1>1 DEF StartPrepare, StartObserve, StartDiscard, StartFinalize, Start
<1>2. CASE TakeRepository(p) \/ EnterFinalize(p) \/ StartMove(p) \/ InspectReadiness(p)
           \/ Move(p) \/ Crash(p)
  BY <1>2 DEF TakeRepository, EnterFinalize, StartMove, Start, InspectReadiness, Move, Crash
<1>3. CASE Create(p)
  BY <1>3 DEF Create, Creates
<1>4. CASE Observe(p)
  <2> DEFINE w == [held[p] EXCEPT !.ended = TRUE]
  <2>1. pc[p] = "observe" /\ pc[p] \in Followers /\ Conclude(p, w)
    BY <1>4 DEF Observe, Followers
  <2>2. w \in Record /\ w.status = held[p].status /\ w.run = held[p].run
        /\ w.head = held[p].head /\ w.ended /\ w.plan = held[p].plan
    BY <1>a, <2>1 DEF Record, Status, Plan
  <2> HIDE DEF w
  <2>3. Rewritten(p, w)
    BY <1>b, <2>1, <2>2 DEF Rewritten, Holding, Proving
  <2> QED
    BY <2>1, <2>3, ConcludedRewrites
<1>5. CASE Discard(p)
  <2> DEFINE w == [held[p] EXCEPT !.status = "discarded"]
  <2>1. pc[p] = "confirm" /\ pc[p] \in Followers /\ (Conclude(p, w) \/ UNCHANGED intent)
    BY <1>5 DEF Discard, Followers
  <2>2. w \in Record /\ w.status = "discarded" /\ w.run = held[p].run
        /\ w.head = held[p].head /\ w.ended = held[p].ended /\ w.plan = held[p].plan
    BY <1>a, <2>1 DEF Record, Status
  <2> HIDE DEF w
  <2>3. Rewritten(p, w)
    BY <1>b, <2>1, <2>2 DEF Rewritten, Holding
  <2> QED
    BY <2>1, <2>3, ConcludedRewrites
<1>6. CASE SearchReceipt(p)
  <2>1. pc[p] = "search" /\ pc[p] \in Followers
    BY <1>6 DEF SearchReceipt, Followers, Finalizers, Committers
  <2>2. CASE HasReceipt(on[p]) /\ Conclude(p, Finalized(p, Receipt(on[p])))
    <3> DEFINE w == Finalized(p, Receipt(on[p]))
    <3>1. Receipt(on[p]) \in Log /\ Receipts(Receipt(on[p]), on[p]) # {}
      BY <1>a, <2>1, <2>2, FoundReceipt DEF Types, Once
    <3>2. w \in Record /\ w.status = "finalized" /\ w.run = held[p].run /\ w.head = held[p].head
          /\ w.ended = held[p].ended /\ w.plan = held[p].plan /\ w.commit = Receipt(on[p])
      BY <1>a, <2>1, <3>1 DEF Finalized, Record, Status
    <3> HIDE DEF w
    <3>3. Rewritten(p, w)
      BY <1>b, <2>1, <3>1, <3>2 DEF Rewritten, Holding, Finalizers, Committers
    <3> QED
      BY <2>1, <2>2, <3>3, ConcludedRewrites DEF w
  <2> QED
    BY <1>6, <2>2 DEF SearchReceipt
<1>7. CASE BeginFinalizing(p)
  <2> DEFINE w == [held[p] EXCEPT !.status = "finalizing"]
  <2>1. pc[p] = "revalidate" /\ pc[p] \in Followers /\ pc[p] \in Finalizers
        /\ Advance(p, w, "stage")
    BY <1>7 DEF BeginFinalizing, Followers, Finalizers, Committers
  <2>2. w \in Record /\ w.status = "finalizing" /\ w.run = held[p].run
        /\ w.head = held[p].head /\ w.ended = held[p].ended /\ w.plan = held[p].plan
    BY <1>a, <2>1 DEF Record, Status
  <2> HIDE DEF w
  <2>3. Rewritten(p, w)
    BY <1>b, <2>1, <2>2 DEF Rewritten, Holding
  <2> QED
    BY <2>1, <2>3 DEF Advance, Rewrites
<1>8. CASE Refuse(p)
  <2>1. pc[p] \in Finalizers /\ pc[p] \in Followers /\ held[p].status # "finalized" /\ Fail(p)
    BY <1>8 DEF Refuse, Followers, Finalizers, Committers, Archivers
  <2> QED
    BY <1>b, <2>1, FailedRewrites DEF Holding
<1>9. CASE Stage(p) \/ Scan(p) \/ Recheck(p) \/ CommitTranscript(p) \/ ApplyArchive(p)
  <2>1. pc[p] \in Begun /\ pc[p] \in Followers /\ (Fail(p) \/ UNCHANGED intent)
    BY <1>9
       DEF Stage, Scan, Recheck, CommitTranscript, ApplyArchive, Followers, Finalizers,
           Committers, Archivers, Begun
  <2> QED
    BY <1>b, <2>1, FailedRewrites DEF Holding
<1>10. CASE RecordCommit(p)
  <2>1. pc[p] = "record" /\ pc[p] \in Followers /\ pc[p] \in Begun
    BY <1>10 DEF RecordCommit, Followers, Finalizers, Committers, Begun
  <2>2. CASE Fail(p)
    BY <1>b, <2>1, <2>2, FailedRewrites DEF Holding
  <2>3. CASE Conclude(p, Finalized(p, log))
    <3> DEFINE w == Finalized(p, log)
    <3>1. w \in Record /\ w.status = "finalized" /\ w.run = held[p].run /\ w.head = held[p].head
          /\ w.ended = held[p].ended /\ w.plan = held[p].plan /\ w.commit = log
      BY <1>a, <2>1 DEF Finalized, Types, Record, Status
    <3> HIDE DEF w
    <3>2. Rewritten(p, w)
      BY <1>b, <2>1, <3>1 DEF Rewritten, Holding, Closed, HasReceipt, Committers
    <3> QED
      BY <2>1, <2>3, <3>2, ConcludedRewrites DEF w
  <2> QED
    BY <1>10, <2>2, <2>3 DEF RecordCommit
<1>11. CASE InspectArchive(p)
  <2> DEFINE w(n) == [held[p] EXCEPT !.plan = n, !.status = "finalizing"]
  <2>1. pc[p] = "inspect" /\ pc[p] \in Followers /\ pc[p] \in Finalizers
    BY <1>11 DEF InspectArchive, Followers, Finalizers, Archivers
  <2>2. SUFFICES ASSUME held[p].status # "finalized", NEW n \in Plan \ {0},
                        held[p].plan \in {0, n}, Advance(p, w(n), "apply")
                 PROVE  Goal
    BY <1>11 DEF InspectArchive, BindPlan
  <2>3. w(n) \in Record /\ w(n).status = "finalizing" /\ w(n).run = held[p].run
        /\ w(n).head = held[p].head /\ w(n).ended = held[p].ended /\ w(n).plan = n
    BY <1>a, <2>1 DEF Record, Status, Plan
  <2> HIDE DEF w
  <2>4. Rewritten(p, w(n))
    BY <1>b, <2>1, <2>2, <2>3 DEF Rewritten, Holding
  <2> QED
    BY <2>1, <2>2, <2>4 DEF Advance, Rewrites
<1>12. CASE RecordArchive(p)
  <2> DEFINE w == [held[p] EXCEPT !.status = "finalized"]
  <2>1. pc[p] = "applied" /\ pc[p] \in Followers /\ pc[p] \in Begun /\ pc[p] \in Archivers
        /\ (Fail(p) \/ Conclude(p, w))
    BY <1>12 DEF RecordArchive, Followers, Finalizers, Archivers, Begun
  <2>2. w \in Record /\ w.status = "finalized" /\ w.run = held[p].run
        /\ w.head = held[p].head /\ w.ended = held[p].ended /\ w.plan = held[p].plan
    BY <1>a, <2>1 DEF Record, Status
  <2> HIDE DEF w
  <2>3. Rewritten(p, w)
    BY <1>b, <2>1, <2>2 DEF Rewritten, Holding, Closed
  <2> QED
    BY <1>b, <2>1, <2>3, ConcludedRewrites, FailedRewrites DEF Holding
<1> QED
  BY <1>1, <1>2, <1>3, <1>4, <1>5, <1>6, <1>7, <1>8, <1>9, <1>10, <1>11, <1>12 DEF Step

-----------------------------------------------------------------------------
(* Types.                                                                    *)
Working == Preparing \cup Followers
WorkTypes ==
    /\ finalizeLock \in Procs \cup {None} /\ repoLock \in Procs \cup {None}
    /\ pc \in [Procs -> Idlers \cup Working]
    /\ job \in [Procs -> Jobs \cup {None}]
    /\ on \in [Procs -> Intents \cup {None}]
    /\ held \in [Procs -> Record \cup {None}]
    /\ proof \in [Procs -> BOOLEAN]
    /\ \A p \in Procs : pc[p] \notin Idlers => held[p] \in Record /\ on[p] \in Intents

(* Locks and processes stay in their types.                                  *)
LEMMA WorkTyped ==
  ASSUME Types, NEW p \in Procs, Step(p)
  PROVE  WorkTypes'
<1> USE NoneAssumption DEF WorkTypes, Types
<1>0. WorkTypes
  BY DEF Working
<1>p. pc[p] \in Working => held[p] \in Record /\ on[p] \in Intents
  BY DEF Working, Preparing, Followers, Finalizers, Committers, Archivers, Idlers
<1> HIDE DEF Types
<1>1. ASSUME NEW command, NEW step \in Idlers \cup Working, NEW i \in Intents \cup {None},
             NEW record \in Record \cup {None}, NEW stopped \in BOOLEAN,
             Start(p, command, step, i, record, stopped),
             step \notin Idlers => record \in Record /\ i \in Intents
      PROVE  WorkTypes'
  BY <1>0, <1>1 DEF Start, locks
<1>2. ASSUME Leave(p)
      PROVE  WorkTypes'
  BY <1>0, <1>2 DEF Leave, Released, Forgotten, Idlers
<1>3. ASSUME NEW step \in Working, pc[p] \in Working, Go(p, step), UNCHANGED locks
      PROVE  WorkTypes'
  BY <1>0, <1>3, <1>p DEF Go, locks
<1>4. ASSUME NEW r \in Record, NEW step \in Working, pc[p] \in Working, Advance(p, r, step)
      PROVE  WorkTypes'
  BY <1>0, <1>2, <1>4, <1>p DEF Advance, locks
<1>5. ASSUME NEW r, Conclude(p, r)
      PROVE  WorkTypes'
  BY <1>2, <1>5 DEF Conclude
<1> USE DEF At
<1>6. CASE \E i \in Intents : \/ \E r \in Runs : StartPrepare(p, i, r)
                              \/ StartObserve(p, i) \/ StartDiscard(p, i)
                              \/ \E stopped \in BOOLEAN : StartFinalize(p, i, stopped)
  <2>1. PICK i \in Intents : \/ \E r \in Runs : StartPrepare(p, i, r)
                             \/ StartObserve(p, i) \/ StartDiscard(p, i)
                             \/ \E stopped \in BOOLEAN : StartFinalize(p, i, stopped)
    BY <1>6
  <2>2. intent[i] # None => intent[i] \in Record
    BY DEF Types
  <2>3. <<>> \in Log
    BY DEF Log
  <2>4. ASSUME NEW r \in Runs, StartPrepare(p, i, r)
        PROVE  WorkTypes'
    <3> DEFINE w == [run |-> r, head |-> log, status |-> "armed", ended |-> FALSE,
                     commit |-> <<>>, plan |-> 0]
    <3>1. w \in Record
      BY <2>3 DEF Record, Status, Plan, Types
    <3>2. Start(p, "prepare", "arming", i, w, FALSE)
      BY <2>4 DEF StartPrepare
    <3> HIDE DEF w
    <3> QED
      BY <1>1, <3>1, <3>2 DEF Working, Preparing, Idlers
  <2>5. CASE StartObserve(p, i)
    BY <1>1, <2>2, <2>5 DEF StartObserve, Working, Followers, Idlers
  <2>6. CASE StartDiscard(p, i)
    BY <1>1, <2>2, <2>6 DEF StartDiscard, Working, Followers, Idlers
  <2>7. ASSUME NEW stopped \in BOOLEAN, StartFinalize(p, i, stopped)
        PROVE  WorkTypes'
    BY <1>1, <2>2, <2>7 DEF StartFinalize, Working, Followers, Idlers
  <2> QED
    BY <2>1, <2>4, <2>5, <2>6, <2>7
<1>7. CASE TakeRepository(p)
  BY <1>0, <1>7, <1>p DEF TakeRepository, Go, Working, Preparing, Idlers
<1>8. CASE EnterFinalize(p)
  BY <1>0, <1>2, <1>8, <1>p
     DEF EnterFinalize, Go, Working, Followers, Finalizers, Committers, Archivers, Idlers
<1>9. CASE StartMove(p)
  BY <1>1, <1>9 DEF StartMove, Idlers
<1>10. CASE InspectReadiness(p)
  BY <1>0, <1>2, <1>10 DEF InspectReadiness, Go, Idlers
<1>11. CASE Create(p) \/ Observe(p) \/ Discard(p) \/ Refuse(p) \/ RecordCommit(p)
            \/ RecordArchive(p) \/ Move(p) \/ Crash(p)
  BY <1>2, <1>5, <1>11
     DEF Create, Observe, Discard, Refuse, RecordCommit, RecordArchive, Move, Crash, Fail
<1>12. CASE SearchReceipt(p) \/ Stage(p) \/ Scan(p) \/ Recheck(p) \/ CommitTranscript(p)
            \/ ApplyArchive(p)
  BY <1>2, <1>3, <1>5, <1>12
     DEF SearchReceipt, Stage, Scan, Recheck, CommitTranscript, ApplyArchive, Fail, Working,
         Followers, Finalizers, Committers, Archivers
<1>13. CASE BeginFinalizing(p)
  <2>1. pc[p] \in Working /\ "stage" \in Working
    BY <1>13 DEF BeginFinalizing, Working, Followers, Finalizers, Committers
  <2>2. [held[p] EXCEPT !.status = "finalizing"] \in Record
    BY <1>p, <2>1 DEF Record, Status
  <2> QED
    BY <1>4, <1>13, <2>1, <2>2 DEF BeginFinalizing
<1>14. CASE InspectArchive(p)
  <2>1. pc[p] \in Working /\ "apply" \in Working
    BY <1>14 DEF InspectArchive, Working, Followers, Finalizers, Archivers
  <2>2. \A n \in Plan : [held[p] EXCEPT !.plan = n, !.status = "finalizing"] \in Record
    BY <1>p, <2>1 DEF Record, Status
  <2> QED
    BY <1>2, <1>4, <1>14, <2>1, <2>2 DEF InspectArchive, BindPlan
<1> QED
  BY <1>6, <1>7, <1>8, <1>9, <1>10, <1>11, <1>12, <1>13, <1>14 DEF Step

(* The texts and the index.                                                  *)
LEMMA IndexTyped ==
  ASSUME Types, NEW p \in Procs, Step(p)
  PROVE  staged' \in 0..MaxText /\ foreign' \in BOOLEAN
<1>1. Last(log).text \in 0..MaxText
  <2>1. Len(log) \in 1..Len(log)
    BY EmptySeq, LenProperties DEF Types, Log
  <2>2. log[Len(log)] \in Commit
    BY <2>1 DEF Types, Log
  <2> QED
    BY <2>2 DEF Commit, Last
<1> USE DEF tree, Types
<1>2. CASE Stage(p) \/ Scan(p) \/ Recheck(p) \/ CommitTranscript(p)
  BY <1>1, <1>2 DEF Stage, Scan, Recheck, CommitTranscript, Unstaged
<1>3. CASE UNCHANGED tree
  BY <1>3
<1> QED
  BY <1>2, <1>3
     DEF Step, StartPrepare, StartObserve, StartDiscard, StartFinalize, Start,
         TakeRepository, Create, Observe, Discard, EnterFinalize, SearchReceipt,
         BeginFinalizing, Refuse, RecordCommit, InspectArchive, ApplyArchive, RecordArchive,
         StartMove, InspectReadiness, Move, Crash

(* Everything stays in its type when a process moves.                        *)
LEMMA StepTyped ==
  ASSUME Types, AllKept, Once, NEW p \in Procs, Step(p)
  PROVE  Types'
<1> USE DEF Types
<1>1. intent' \in [Intents -> Record \cup {None}]
  BY IntentSteps
     DEF Creates, Rewrites, Rewritten, Write, At, Preparing, Followers, Finalizers,
         Committers, Archivers, Idlers
<1>2. log' \in Log /\ log' # <<>>
  <2>1. CASE log' = log
    BY <2>1
  <2>2. CASE pc[p] = "commit" /\ log' = Append(log, [of |-> on[p], text |-> staged, edit |-> 0])
    <3>1. [of |-> on[p], text |-> staged, edit |-> 0] \in Commit
      BY <2>2 DEF Commit, Idlers
    <3> QED
      BY <2>2, <3>1, AppendedHistory
  <2> QED
    BY <2>1, <2>2, CheckoutStepped DEF CheckoutSteps
<1>3. present' \in BOOLEAN /\ writing' \in BOOLEAN /\ text' \in 0..MaxText
      /\ archive' \in [Intents -> Plan]
  BY CheckoutStepped DEF CheckoutSteps, Idlers, Record
<1>4. WorkTypes'
  BY WorkTyped
<1> QED
  BY <1>1, <1>2, <1>3, <1>4, IndexTyped DEF WorkTypes, Working

-----------------------------------------------------------------------------
(* The process that moves.                                                   *)
Kept(p) == Locking(p) /\ Holding(p) /\ Proving(p) /\ Closed(p)

(* Who has left knows nothing.                                               *)
LEMMA LeftGood ==
  ASSUME Types, NEW p \in Procs, Leave(p)
  PROVE  Kept(p)'
BY
   DEF Types, Leave, Forgotten, Kept, Locking, Holding, Proving, Closed, Begun, Preparing,
       Followers, Finalizers, Committers, Archivers

(* Each command knows what its place says.                                   *)
LEMMA OwnKept ==
  ASSUME Types, AllKept, Armed, Once, NEW p \in Procs, Step(p)
  PROVE  Kept(p)'
<1> USE NoneAssumption DEF At
<1>a. pc[p] \in Followers \cup Preparing => held[p] \in Record /\ on[p] \in Intents
  BY DEF Types, Followers, Idlers, Finalizers, Committers, Archivers, Preparing
<1>b. Kept(p)
  BY DEF AllKept, Kept
<1>c. writing' = writing /\ text' = text
  BY CheckoutStepped DEF CheckoutSteps
<1>1. CASE \E i \in Intents : \/ \E r \in Runs : StartPrepare(p, i, r)
                              \/ StartObserve(p, i) \/ StartDiscard(p, i)
                              \/ \E stopped \in BOOLEAN : StartFinalize(p, i, stopped)
  <2>1. PICK i \in Intents : \/ \E r \in Runs : StartPrepare(p, i, r)
                             \/ StartObserve(p, i) \/ StartDiscard(p, i)
                             \/ \E stopped \in BOOLEAN : StartFinalize(p, i, stopped)
    BY <1>1
  <2>2. intent[i] # None => /\ Receipts(intent[i].head, i) = {}
                            /\ intent[i].ended => ~writing
    BY DEF Armed
  <2>3. ASSUME NEW r \in Runs, StartPrepare(p, i, r)
        PROVE  Kept(p)'
    BY <2>3
       DEF StartPrepare, Start, Types, Kept, Locking, Holding, Proving, Closed, Begun,
           Preparing, Followers, Finalizers, Committers, Archivers
  <2>4. CASE StartObserve(p, i)
    BY <1>c, <2>2, <2>4
       DEF StartObserve, Start, Types, Kept, Locking, Holding, Proving, Closed, Begun,
           Preparing, Followers, Finalizers, Committers, Archivers
  <2>5. CASE StartDiscard(p, i)
    BY <1>c, <2>2, <2>5
       DEF StartDiscard, Start, Types, Kept, Locking, Holding, Proving, Closed, Begun,
           Preparing, Followers, Finalizers, Committers, Archivers
  <2>6. ASSUME NEW stopped \in BOOLEAN, StartFinalize(p, i, stopped)
        PROVE  Kept(p)'
    BY <1>c, <2>2, <2>6
       DEF StartFinalize, Start, Types, Kept, Locking, Holding, Proving, Closed, Begun,
           Preparing, Followers, Finalizers, Committers, Archivers
  <2> QED
    BY <2>1, <2>3, <2>4, <2>5, <2>6
<1>2. CASE StartMove(p)
  BY <1>2
     DEF StartMove, Start, Types, Kept, Locking, Holding, Proving, Closed, Begun, Preparing,
         Followers, Finalizers, Committers, Archivers
<1>3. CASE TakeRepository(p)
  BY <1>b, <1>c, <1>3
     DEF TakeRepository, Go, Types, Kept, Locking, Holding, Proving, Closed, Begun,
         Preparing, Followers, Finalizers, Committers, Archivers
<1>4. CASE InspectReadiness(p)
  <2>1. CASE Leave(p)
    BY <2>1, LeftGood
  <2>2. CASE ~Leave(p)
    BY <1>b, <1>c, <1>4, <2>2
       DEF InspectReadiness, Go, Types, Kept, Locking, Holding, Proving, Closed, Begun,
           Preparing, Followers, Finalizers, Committers, Archivers
  <2> QED
    BY <2>1, <2>2
<1>5. CASE EnterFinalize(p)
  <2>1. CASE Leave(p)
    BY <2>1, LeftGood
  <2>2. CASE ~Leave(p)
    BY <1>b, <1>c, <1>5, <2>2
       DEF EnterFinalize, Go, Types, Kept, Locking, Holding, Proving, Closed, Begun,
           Preparing, Followers, Finalizers, Committers, Archivers
  <2> QED
    BY <2>1, <2>2
<1>6. CASE Create(p) \/ Observe(p) \/ Discard(p) \/ Refuse(p) \/ RecordCommit(p)
           \/ RecordArchive(p) \/ Move(p) \/ Crash(p)
  BY <1>6, LeftGood
     DEF Create, Observe, Discard, Refuse, RecordCommit, RecordArchive, Move, Crash, Fail,
         Conclude
<1>7. CASE SearchReceipt(p)
  <2>1. CASE Leave(p)
    BY <2>1, LeftGood
  <2>2. CASE ~Leave(p)
    BY <1>b, <1>c, <1>7, <2>2
       DEF SearchReceipt, Conclude, Go, locks, Types, Kept, Locking, Holding, Proving,
           Closed, Begun, Preparing, Followers, Finalizers, Committers, Archivers
  <2> QED
    BY <2>1, <2>2
<1>8. CASE Stage(p) \/ Scan(p) \/ Recheck(p)
  <2>1. CASE Fail(p)
    BY <2>1, LeftGood DEF Fail, Conclude
  <2>2. CASE Stage(p) /\ ~Fail(p)
    BY <1>b, <1>c, <2>2
       DEF Stage, Go, locks, Types, Kept, Locking, Holding, Proving, Closed, Begun,
           Preparing, Followers, Finalizers, Committers, Archivers
  <2>3. CASE Scan(p) /\ ~Fail(p)
    BY <1>b, <1>c, <2>3
       DEF Scan, Go, locks, Types, Kept, Locking, Holding, Proving, Closed, Begun,
           Preparing, Followers, Finalizers, Committers, Archivers
  <2>4. CASE Recheck(p) /\ ~Fail(p)
    <3>1. pc[p] = "settle" /\ pc'[p] = "commit" /\ UNCHANGED <<intent, locks, staged, log>>
          /\ held' = held /\ on' = on /\ proof' = proof /\ log = held[p].head /\ staged = text
      BY <2>4 DEF Recheck, Go, AsPrepared, Types, git
    <3>2. ~HasReceipt(on[p])
      BY <1>b, <3>1 DEF Kept, Holding, HasReceipt, Followers, Finalizers, Committers
    <3> QED
      BY <1>b, <1>c, <3>1, <3>2
         DEF locks, Kept, Locking, Holding, Proving, HasReceipt, Closed, Begun, Preparing,
             Followers, Finalizers, Committers, Archivers
  <2> QED
    BY <1>8, <2>1, <2>2, <2>3, <2>4
<1>9. CASE CommitTranscript(p)
  <2>1. CASE Fail(p)
    BY <2>1, LeftGood DEF Fail, Conclude
  <2>2. CASE ~Fail(p)
    <3> DEFINE c == [of |-> on[p], text |-> staged, edit |-> 0]
    <3>1. pc[p] = "commit" /\ pc'[p] = "record" /\ UNCHANGED <<intent, locks, staged>>
          /\ held' = held /\ on' = on /\ proof' = proof /\ log' = Append(log, c)
      BY <1>9, <2>2 DEF CommitTranscript, Go, Types
    <3>2. c \in Commit /\ c.of = on[p]
      BY <1>a, <3>1 DEF Commit, Types, Followers, Finalizers, Committers
    <3> HIDE DEF c
    <3>3. HasReceipt(on[p])'
      <4>1. Receipts(Append(log, c), on[p]) # {}
        <5>1. log \in Log
          BY DEF Types
        <5>2. \A i : Receipts(Append(log, c), i) =
                       Receipts(log, i) \cup (IF c.of = i THEN {Len(log) + 1} ELSE {})
          BY <3>2, <5>1, AppendedHistory
        <5> QED
          BY <3>2, <5>2
      <4> QED
        BY <3>1, <4>1 DEF HasReceipt
    <3> QED
      BY <1>b, <1>c, <3>1, <3>3
         DEF locks, Kept, Locking, Holding, Proving, HasReceipt, Closed, Begun, Preparing,
             Followers, Finalizers, Committers, Archivers
  <2> QED
    BY <2>1, <2>2
<1>10. CASE BeginFinalizing(p)
  <2> DEFINE w == [held[p] EXCEPT !.status = "finalizing"]
  <2>1. pc[p] = "revalidate" /\ WriterProven(p) /\ Advance(p, w, "stage")
    BY <1>10 DEF BeginFinalizing
  <2>2. w \in Record /\ w.status = "finalizing" /\ w.head = held[p].head /\ w.ended = held[p].ended
    BY <1>a, <2>1 DEF Record, Status, Followers, Finalizers, Committers
  <2> HIDE DEF w
  <2>3. CASE Leave(p)
    BY <2>3, LeftGood
  <2>4. CASE ~Leave(p)
    <3>1. pc'[p] = "stage" /\ held'[p] = w /\ on' = on /\ proof' = proof
          /\ UNCHANGED locks /\ intent'[on[p]] # None
      BY <1>a, <2>1, <2>2, <2>4 DEF Advance, Write, Types, Followers, Finalizers, Committers
    <3>2. ~writing
      BY <1>b, <2>1 DEF WriterProven, Kept, Proving, Followers, Finalizers, Committers
    <3> QED
      BY <1>b, <1>c, <2>1, <2>2, <3>1, <3>2
         DEF locks, Kept, Locking, Holding, Proving, Closed, Begun, Preparing, Followers,
             Finalizers, Committers, Archivers
  <2> QED
    BY <2>3, <2>4
<1>11. CASE InspectArchive(p)
  <2>1. CASE Leave(p)
    BY <2>1, LeftGood
  <2>2. CASE ~Leave(p)
    <3> DEFINE w(n) == [held[p] EXCEPT !.plan = n, !.status = "finalizing"]
    <3>1. PICK n \in Plan : pc[p] = "inspect" /\ WriterProven(p) /\ Advance(p, w(n), "apply")
      BY <1>11, <2>2 DEF InspectArchive, BindPlan
    <3>2. w(n) \in Record /\ w(n).status = "finalizing" /\ w(n).head = held[p].head
          /\ w(n).ended = held[p].ended
      BY <1>a, <3>1 DEF Record, Status, Followers, Finalizers, Archivers
    <3> HIDE DEF w
    <3>3. pc'[p] = "apply" /\ held'[p] = w(n) /\ on' = on /\ proof' = proof
          /\ UNCHANGED locks /\ intent'[on[p]] # None
      BY <1>a, <2>2, <3>1, <3>2 DEF Advance, Write, Types, Followers, Finalizers, Archivers
    <3>4. ~writing
      BY <1>b, <3>1 DEF WriterProven, Kept, Proving, Followers, Finalizers, Archivers
    <3> QED
      BY <1>b, <1>c, <3>1, <3>2, <3>3, <3>4
         DEF locks, Kept, Locking, Holding, Proving, Closed, Begun, Preparing, Followers,
             Finalizers, Committers, Archivers
  <2> QED
    BY <2>1, <2>2
<1>12. CASE ApplyArchive(p)
  <2>1. CASE Fail(p)
    BY <2>1, LeftGood DEF Fail, Conclude
  <2>2. CASE ~Fail(p)
    <3>1. pc[p] = "apply" /\ pc'[p] = "applied" /\ UNCHANGED <<intent, locks>>
          /\ held' = held /\ on' = on /\ proof' = proof
          /\ archive'[on[p]] = held[p].plan
      BY <1>a, <1>12, <2>2 DEF ApplyArchive, Go, Types, Followers, Finalizers, Archivers
    <3> QED
      BY <1>b, <1>c, <3>1
         DEF locks, Kept, Locking, Holding, Proving, Closed, Begun, Preparing, Followers,
             Finalizers, Committers, Archivers
  <2> QED
    BY <2>1, <2>2
<1> QED
  BY <1>1, <1>2, <1>3, <1>4, <1>5, <1>6, <1>7, <1>8, <1>9, <1>10, <1>11, <1>12 DEF Step

-----------------------------------------------------------------------------
(* The other processes: the locks keep them apart.                           *)
LEMMA OthersKept ==
  ASSUME Types, AllKept, Once, NEW p \in Procs, Step(p), NEW q \in Procs, q # p
  PROVE  Kept(q)'
<1>a. pc[q] \in Followers \cup Preparing => held[q] \in Record /\ on[q] \in Intents
  BY DEF Types, Followers, Idlers, Finalizers, Committers, Archivers, Preparing
<1>b. Kept(q) /\ Kept(p)
  BY DEF AllKept, Kept
<1>1. /\ pc'[q] = pc[q] /\ on'[q] = on[q] /\ held'[q] = held[q] /\ proof'[q] = proof[q]
      /\ finalizeLock = q => finalizeLock' = q
      /\ repoLock = q => repoLock' = q
  BY OthersStayed DEF OthersStay
<1>2. \A i \in Intents : intent[i] # None => intent'[i] # None
  BY IntentSteps, NoneAssumption DEF Creates, Rewrites, Rewritten, Write, Types
<1>3. text' = text /\ writing' = writing
  BY CheckoutStepped DEF CheckoutSteps
<1>4. pc[q] \in Finalizers => log' = log /\ staged' = staged /\ archive' = archive
  BY <1>b, CheckoutStepped
     DEF CheckoutSteps, Kept, Locking, Finalizers, Committers, Archivers
<1>5. Locking(q)'
  BY <1>b, <1>1 DEF Kept, Locking
<1>6. Holding(q)'
  BY <1>a, <1>b, <1>1, <1>2 DEF Kept, Holding
<1>7. Proving(q)'
  BY <1>b, <1>1, <1>3 DEF Kept, Proving
<1>8. Closed(q)'
  BY <1>b, <1>1, <1>3, <1>4 DEF Kept, Closed, HasReceipt, Finalizers, Committers, Archivers
<1> QED
  BY <1>5, <1>6, <1>7, <1>8 DEF Kept

-----------------------------------------------------------------------------
(* The agent and the operator.                                               *)
EnvironmentSteps ==
    /\ UNCHANGED <<intent, archive, locks, procs, present>>
    /\ text' = text \/ writing
    /\ writing' => writing
    /\ (\E p \in Procs : pc[p] \in {"commit", "record"}) => staged' = staged
    /\ \/ log' = log
       \/ log' = Append(log, [of |-> None, text |-> staged, edit |-> 0])
       \/ /\ Len(log) > 1 /\ ~Closing
          /\ log' = Front(log) \/ log' = [log EXCEPT ![Len(log)].edit = 1]

(* The agent and the operator do no more.                                    *)
LEMMA EnvironmentStepped ==
  ASSUME Environment
  PROVE  EnvironmentSteps
BY
   DEF Environment, EnvironmentSteps, AgentWrites, AgentExits, OperatorCommits,
       OperatorStages, OperatorRewrites, Closing, Unstaged, git, tree

(* Everything stays in its type when the agent or the operator moves.        *)
LEMMA EnvironmentTyped ==
  ASSUME Types, Environment
  PROVE  Types'
<1>1. UNCHANGED <<intent, archive, locks, procs, present>>
  BY EnvironmentStepped DEF EnvironmentSteps
<1>2. log' \in Log /\ log' # <<>>
  <2> DEFINE c == [of |-> None, text |-> staged, edit |-> 0]
  <2>1. c \in Commit /\ log \in Log /\ log # <<>>
    BY DEF Types, Commit
  <2>2. \/ log' = log
        \/ log' = Append(log, c)
        \/ Len(log) > 1 /\ (log' = Front(log) \/ log' = [log EXCEPT ![Len(log)].edit = 1])
    BY EnvironmentStepped DEF EnvironmentSteps
  <2> HIDE DEF c
  <2>3. CASE log' = log
    BY <2>1, <2>3
  <2>4. CASE log' = Append(log, c)
    BY <2>1, <2>4, AppendedHistory
  <2>5. CASE Len(log) > 1 /\ (log' = Front(log) \/ log' = [log EXCEPT ![Len(log)].edit = 1])
    BY <2>1, <2>5, RewrittenHistory
  <2> QED
    BY <2>2, <2>3, <2>4, <2>5
<1>3. Last(log).text \in 0..MaxText
  <2>1. Len(log) \in 1..Len(log)
    BY EmptySeq, LenProperties DEF Types, Log
  <2>2. log[Len(log)] \in Commit
    BY <2>1 DEF Types, Log
  <2> QED
    BY <2>2 DEF Commit, Last
<1>4. text' \in 0..MaxText /\ staged' \in 0..MaxText /\ foreign' \in BOOLEAN /\ writing' \in BOOLEAN
  <2>1. CASE AgentWrites
    BY <2>1, TextAssumption DEF AgentWrites, Types
  <2>2. CASE AgentExits \/ OperatorCommits \/ OperatorRewrites
    BY <2>2 DEF AgentExits, OperatorCommits, OperatorRewrites, tree, Types
  <2>3. CASE OperatorStages
    BY <1>3, <2>3 DEF OperatorStages, Unstaged, Types
  <2> QED
    BY <2>1, <2>2, <2>3 DEF Environment
<1> QED
  BY <1>1, <1>2, <1>4 DEF Types, locks, procs

(* What the history was before and after a step.                             *)
Grown(g, h, i) ==
    \A k \in Receipts(g, i) : k \in Receipts(h, i) /\ g[k].text = h[k].text
(* They add no commit of an intent, and take none away when one is made.     *)
LEMMA EnvironmentHistory ==
  ASSUME Types, Environment, NEW i \in Intents
  PROVE  Grown(log', log, i) /\ (Closing => Receipts(log', i) = Receipts(log, i))
<1>1. log \in Log /\ None # i
  BY NoneAssumption DEF Types
<1>2. CASE log' = log
  BY <1>2 DEF Grown
<1>3. CASE log' = Append(log, [of |-> None, text |-> staged, edit |-> 0])
  <2> DEFINE c == [of |-> None, text |-> staged, edit |-> 0]
  <2>1. c \in Commit /\ c.of # i
    BY <1>1 DEF Types, Commit
  <2> HIDE DEF c
  <2>2. \A j : Receipts(Append(log, c), j) =
                  Receipts(log, j) \cup (IF c.of = j THEN {Len(log) + 1} ELSE {})
    BY <1>1, <2>1, AppendedHistory
  <2>3. \A j : \A k \in Receipts(log, j) : Append(log, c)[k] = log[k] /\ k # Len(log) + 1
    BY <1>1, <2>1, AppendedHistory
  <2>4. log' = Append(log, c)
    BY <1>3 DEF c
  <2>5. Receipts(log', i) = Receipts(log, i) /\ \A k \in Receipts(log, i) : log'[k] = log[k]
    BY <2>1, <2>2, <2>3, <2>4
  <2> QED
    BY <2>5 DEF Grown
<1>4. CASE /\ Len(log) > 1 /\ ~Closing
           /\ log' = Front(log) \/ log' = [log EXCEPT ![Len(log)].edit = 1]
  BY <1>1, <1>4, RewrittenHistory DEF Grown
<1> QED
  BY <1>2, <1>3, <1>4, EnvironmentStepped DEF EnvironmentSteps

(* What the agent and the operator do disturbs no command.                   *)
LEMMA EnvironmentGood ==
  ASSUME Types, AllKept, Once, Environment, NEW q \in Procs
  PROVE  Kept(q)'
<1>a. pc[q] \in Followers \cup Preparing => held[q] \in Record /\ on[q] \in Intents
  BY DEF Types, Followers, Idlers, Finalizers, Committers, Archivers, Preparing
<1>b. Kept(q)
  BY DEF AllKept, Kept
<1>1. /\ UNCHANGED <<intent, archive, finalizeLock, repoLock, pc, on, held, proof>>
      /\ text' = text \/ writing
      /\ writing' => writing
  BY EnvironmentStepped DEF EnvironmentSteps, locks, procs
<1>2. pc[q] \in {"commit", "record"} =>
          staged' = staged /\ Receipts(log', on[q]) = Receipts(log, on[q])
  BY <1>a, EnvironmentStepped, EnvironmentHistory
     DEF EnvironmentSteps, Closing, Followers, Finalizers, Committers
<1>3. Locking(q)' /\ Holding(q)'
  BY <1>b, <1>1 DEF Kept, Locking, Holding
<1>4. Proving(q)'
  BY <1>b, <1>1 DEF Kept, Proving
<1>5. Closed(q)'
  <2>1. pc[q] = "commit" => ~writing
    BY <1>b DEF Kept, Proving, Begun
  <2> QED
    BY <1>b, <1>1, <1>2, <2>1 DEF Kept, Closed, HasReceipt
<1> QED
  BY <1>3, <1>4, <1>5 DEF Kept

-----------------------------------------------------------------------------
(* The records and the history.                                              *)

(* A step's effect on one intent: none, its creation, or a rewrite by a      *)
(* command that holds it as it is.                                           *)
Created(i) ==
    /\ intent[i] = None /\ intent'[i] \in Record
    /\ present /\ intent'[i].status = "armed" /\ ~intent'[i].ended /\ intent'[i].head = log
    /\ \A j \in Intents : intent[j] # None => intent[j].run # intent'[i].run
    /\ \A j \in Intents \ {i} : intent'[j] = intent[j]
    /\ repoLock # None /\ pc[repoLock] = "create"
Changed(i) ==
    /\ intent[i] # None
    /\ \A j \in Intents \ {i} : intent'[j] = intent[j]
    /\ \E p \in Procs : on[p] = i /\ intent[i] = held[p] /\ Rewritten(p, intent'[i])

(* No step does anything else to an intent.                                  *)
LEMMA IntentEffects ==
  ASSUME Types, AllKept, Once, [Next]_vars, NEW i \in Intents
  PROVE  \/ intent'[i] = intent[i]
         \/ Created(i)
         \/ Changed(i)
<1> USE NoneAssumption DEF At
<1>1. CASE Environment
  BY <1>1, EnvironmentStepped DEF EnvironmentSteps
<1>2. CASE UNCHANGED vars
  BY <1>2 DEF vars
<1>3. ASSUME NEW p \in Procs, Step(p), intent'[i] # intent[i]
      PROVE  Created(i) \/ Changed(i)
  <2>1. CASE Creates(p)
    <3>1. pc[p] = "create" /\ held[p] \in Record /\ on[p] \in Intents
      BY <2>1 DEF Creates, Types, Idlers
    <3>2. on[p] = i /\ intent'[i] = held[p] /\ \A j \in Intents \ {i} : intent'[j] = intent[j]
      BY <1>3, <2>1, <3>1 DEF Creates, Write, Types
    <3>3. held[p].status = "armed" /\ ~held[p].ended /\ repoLock = p /\ p # None
      BY <3>1 DEF AllKept, Holding, Locking, Preparing
    <3> QED
      BY <2>1, <3>1, <3>2, <3>3 DEF Creates, Created, Unmoved, RunTaken
  <2>2. CASE Rewrites(p)
    <3>1. held[p] \in Record /\ on[p] \in Intents
      BY <2>2 DEF Rewrites, Types, Followers, Idlers, Finalizers, Committers, Archivers
    <3>2. PICK r : Rewritten(p, r) /\ Write(on[p], r)
      BY <2>2 DEF Rewrites
    <3>3. on[p] = i /\ intent'[i] = r /\ \A j \in Intents \ {i} : intent'[j] = intent[j]
      BY <1>3, <3>1, <3>2 DEF Write, Types
    <3> QED
      BY <2>2, <3>1, <3>2, <3>3 DEF Rewrites, Changed, Current
  <2> QED
    BY <1>3, <2>1, <2>2, IntentSteps
<1> QED
  BY <1>1, <1>2, <1>3 DEF Next

(* A step's effect on the commits of one intent.                             *)
LEMMA HistoryEffects ==
  ASSUME Types, AllKept, Once, [Next]_vars, NEW i \in Intents
  PROVE  \/ Grown(log', log, i)
         \/ /\ Receipts(log, i) = {} /\ intent[i] # None /\ ~writing
            /\ \E k : Receipts(log', i) = {k} /\ log'[k].text = text
<1>1. CASE Environment
  BY <1>1, EnvironmentHistory
<1>2. CASE UNCHANGED vars
  BY <1>2 DEF vars, git, Grown
<1>3. ASSUME NEW p \in Procs, Step(p)
      PROVE  \/ Grown(log', log, i)
             \/ /\ Receipts(log, i) = {} /\ intent[i] # None /\ ~writing
                /\ \E k : Receipts(log', i) = {k} /\ log'[k].text = text
  <2> DEFINE c == [of |-> on[p], text |-> staged, edit |-> 0]
  <2>1. CASE log' = log
    BY <2>1 DEF Grown
  <2>2. CASE pc[p] = "commit" /\ log' = Append(log, c)
    <3>1. on[p] \in Intents /\ log \in Log
      BY <2>2 DEF Types, Idlers
    <3>2. c \in Commit /\ c.of = on[p] /\ c.text = staged
      BY <3>1 DEF Types, Commit
    <3>3. intent[on[p]] # None /\ ~writing /\ staged = text /\ Receipts(log, on[p]) = {}
      BY <2>2
         DEF AllKept, Holding, Proving, Closed, HasReceipt, Begun, Followers, Finalizers,
             Committers
    <3>4. log' = Append(log, c)
      BY <2>2
    <3> HIDE DEF c
    <3>5. \A j : Receipts(Append(log, c), j) =
                 Receipts(log, j) \cup (IF c.of = j THEN {Len(log) + 1} ELSE {})
      BY <3>1, <3>2, AppendedHistory
    <3>6. Append(log, c)[Len(log) + 1] = c
      BY <3>1, <3>2, AppendedHistory
    <3>7. \A j : \A k \in Receipts(log, j) : Append(log, c)[k] = log[k] /\ k # Len(log) + 1
      BY <3>1, <3>2, AppendedHistory
    <3>8. CASE i = on[p]
      BY <3>2, <3>3, <3>4, <3>5, <3>6, <3>8
    <3>9. CASE i # on[p]
      BY <3>2, <3>4, <3>5, <3>7, <3>9 DEF Grown
    <3> QED
      BY <3>8, <3>9
  <2> QED
    BY <1>3, <2>1, <2>2, CheckoutStepped DEF CheckoutSteps
<1> QED
  BY <1>1, <1>2, <1>3 DEF Next

(* What a step does to the texts, the writer and the archive.                *)
LEMMA CheckoutEffects ==
  ASSUME Types, AllKept, [Next]_vars
  PROVE  /\ text' = text \/ writing
         /\ writing' => writing
         /\ \A i \in Intents : archive'[i] # archive[i] =>
               intent' = intent /\ intent[i] # None /\ intent[i].status = "finalizing"
<1>1. CASE Environment
  BY <1>1, EnvironmentStepped DEF EnvironmentSteps
<1>2. CASE UNCHANGED vars
  BY <1>2 DEF vars, tree
<1>3. ASSUME NEW p \in Procs, Step(p)
      PROVE  /\ text' = text /\ writing' = writing
             /\ \A i \in Intents : archive'[i] # archive[i] =>
                   intent' = intent /\ intent[i] # None /\ intent[i].status = "finalizing"
  <2>1. CASE archive' = archive
    BY <1>3, <2>1, CheckoutStepped DEF CheckoutSteps
  <2>2. CASE /\ pc[p] = "apply" /\ Current(on[p], held[p])
             /\ archive' = [archive EXCEPT ![on[p]] = held[p].plan] /\ intent' = intent
    <3>1. held[p].status = "finalizing" /\ held[p] \in Record /\ on[p] \in Intents
      BY <2>2 DEF AllKept, Holding, Begun, Types, Idlers
    <3>2. text' = text /\ writing' = writing
      BY <1>3, CheckoutStepped DEF CheckoutSteps
    <3> QED
      BY <2>2, <3>1, <3>2, NoneAssumption DEF Types, Current
  <2> QED
    BY <1>3, <2>1, <2>2, CheckoutStepped DEF CheckoutSteps
<1> QED
  BY <1>1, <1>2, <1>3 DEF Next

(* Heads are of before the commit; ended sessions have ended.                *)
LEMMA ArmedKept ==
  ASSUME Types, AllKept, Armed, Once, [Next]_vars
  PROVE  Armed'
<1> SUFFICES ASSUME NEW i \in Intents
    PROVE  /\ intent'[i] = None => Receipts(log', i) = {}
           /\ intent'[i] # None => /\ Receipts(intent'[i].head, i) = {}
                                   /\ intent'[i].ended => ~writing'
  BY DEF Armed
<1>1. /\ intent[i] = None => Receipts(log, i) = {}
      /\ intent[i] # None => /\ Receipts(intent[i].head, i) = {}
                             /\ intent[i].ended => ~writing
  BY DEF Armed
<1>2. intent'[i] = None => intent[i] = None
  BY IntentEffects, NoneAssumption DEF Created, Changed, Rewritten
<1>3. intent[i] = None => Receipts(log', i) = {}
  BY <1>1, HistoryEffects DEF Grown
<1>4. writing' => writing
  BY CheckoutEffects
<1>5. CASE intent'[i] = intent[i]
  BY <1>1, <1>3, <1>4, <1>5
<1>6. CASE Created(i)
  BY <1>1, <1>6, NoneAssumption DEF Created
<1>7. CASE Changed(i)
  BY <1>1, <1>4, <1>7, NoneAssumption DEF Changed, Rewritten
<1> QED
  BY <1>5, <1>6, <1>7, IntentEffects

(* There is one commit at most.                                              *)
LEMMA OnceKept ==
  ASSUME Types, AllKept, Once, [Next]_vars
  PROVE  Once'
<1> SUFFICES ASSUME NEW i \in Intents
    PROVE  /\ \A k, l \in Receipts(log', i) : k = l
           /\ \A k \in Receipts(log', i) : ~writing' /\ log'[k].text = text'
  BY DEF Once
<1>1. /\ \A k, l \in Receipts(log, i) : k = l
      /\ \A k \in Receipts(log, i) : ~writing /\ log[k].text = text
  BY DEF Once
<1>2. (text' = text \/ writing) /\ (writing' => writing)
  BY CheckoutEffects
<1> QED
  BY <1>1, <1>2, HistoryEffects DEF Grown

(* What is finalized is there.                                               *)
LEMMA RecordedKept ==
  ASSUME Types, AllKept, Once, RecordedHolds, [Next]_vars
  PROVE  RecordedHolds'
<1> SUFFICES ASSUME NEW i \in Intents, intent'[i] # None, intent'[i].status = "finalized"
    PROVE  IF Destination[i] = "archive" THEN archive'[i] = intent'[i].plan
           ELSE Receipts(intent'[i].commit, i) # {}
  BY DEF RecordedHolds
<1>1. archive'[i] # archive[i] =>
          intent' = intent /\ intent[i] # None /\ intent[i].status = "finalizing"
  BY CheckoutEffects
<1>2. CASE intent'[i] = intent[i]
  BY <1>1, <1>2 DEF RecordedHolds
<1>3. CASE Created(i)
  BY <1>3 DEF Created
<1>4. CASE Changed(i)
  BY <1>1, <1>4 DEF Changed, Rewritten
<1> QED
  BY <1>2, <1>3, <1>4, IntentEffects

(* A run has one intent.                                                     *)
LEMMA RunsKept ==
  ASSUME Types, AllKept, Once, RunOwnsOne, [Next]_vars
  PROVE  RunOwnsOne'
<1> SUFFICES ASSUME NEW i \in Intents, NEW j \in Intents, i # j,
                    intent'[i] # None, intent'[j] # None
    PROVE  intent'[i].run # intent'[j].run
  BY DEF RunOwnsOne
<1>1. intent[i] # None /\ intent[j] # None => intent[i].run # intent[j].run
  BY DEF RunOwnsOne
<1>2. CASE Created(i)
  BY <1>2 DEF Created
<1>3. CASE Created(j)
  BY <1>3 DEF Created
<1>4. CASE ~Created(i) /\ ~Created(j)
  <2>1. intent[i] # None /\ intent'[i].run = intent[i].run
    BY <1>4, IntentEffects DEF Changed, Rewritten
  <2>2. intent[j] # None /\ intent'[j].run = intent[j].run
    BY <1>4, IntentEffects DEF Changed, Rewritten
  <2> QED
    BY <1>1, <2>1, <2>2
<1> QED
  BY <1>2, <1>3, <1>4

(* A life-cycle operation begins to act only on a checkout that is ready.    *)
LEMMA MovingEntered ==
  ASSUME Types, NEW p \in Procs, Step(p), pc[p] # "moving", pc'[p] = "moving"
  PROVE  Ready /\ intent' = intent
<1>1. ~Leave(p)
  BY DEF Leave, Forgotten, Types
<1>2. \A r, step : step # "moving" => ~Advance(p, r, step)
  BY <1>1 DEF Advance, Types
<1>3. \A r : ~Conclude(p, r)
  BY <1>1 DEF Conclude
<1>4. \A step : step # "moving" => ~Go(p, step)
  BY DEF Go, Types
<1>5. \A c, step, i, r, s : step # "moving" => ~Start(p, c, step, i, r, s)
  BY DEF Start, Types
<1>6. InspectReadiness(p)
  BY <1>1, <1>2, <1>3, <1>4, <1>5
     DEF Step, StartPrepare, StartObserve, StartDiscard, StartFinalize, TakeRepository,
         Create, Observe, Discard, EnterFinalize, SearchReceipt, BeginFinalizing, Refuse,
         Stage, Scan, Recheck, CommitTranscript, RecordCommit, InspectArchive, BindPlan,
         ApplyArchive, RecordArchive, StartMove, Move, Crash, Fail
<1> QED
  BY <1>1, <1>6 DEF InspectReadiness

(* A checkout that is moved has nothing open.                                *)
LEMMA MovedKept ==
  ASSUME Types, AllKept, Once, MovedWithNothingOpen, [Next]_vars
  PROVE  MovedWithNothingOpen'
<1> DEFINE Away == ~present \/ \E p \in Procs : pc[p] = "moving"
<1>1. ASSUME Away, NEW i \in Intents
      PROVE  ~Open(i)'
  <2>1. ~Open(i)
    BY <1>1 DEF MovedWithNothingOpen, At
  <2>2. CASE intent'[i] = intent[i]
    BY <2>1, <2>2 DEF Open
  <2>3. ~Created(i)
    BY <1>1 DEF Created, AllKept, Locking
  <2>4. CASE Changed(i)
    <3>1. intent[i] \in Record
      BY <2>4 DEF Changed, Types
    <3> QED
      BY <2>1, <2>4, <3>1 DEF Changed, Rewritten, Open, Record, Status
  <2> QED
    BY <2>2, <2>3, <2>4, IntentEffects
<1>2. ASSUME ~Away, Away', NEW i \in Intents
      PROVE  ~Open(i)'
  <2>1. PICK p \in Procs : Step(p)
    BY <1>2, EnvironmentStepped DEF Next, vars, git, procs, EnvironmentSteps
  <2>2. present' = present
    BY <1>2, <2>1, CheckoutStepped DEF CheckoutSteps
  <2>3. pc[p] # "moving" /\ pc'[p] = "moving"
    BY <1>2, <2>1, <2>2, OthersStayed DEF OthersStay
  <2>4. Ready /\ intent' = intent
    BY <2>1, <2>3, MovingEntered
  <2> QED
    BY <2>4 DEF Ready, IntentReady, Open
<1> QED
  BY <1>1, <1>2 DEF MovedWithNothingOpen, At

-----------------------------------------------------------------------------
(* The invariant.                                                            *)
(* The invariant holds at the start,                                         *)
LEMMA ArtifactInit == Init => ArtifactInv
<1> SUFFICES ASSUME Init PROVE ArtifactInv
  OBVIOUS
<1> DEFINE c == [of |-> None, text |-> 0, edit |-> 0]
<1>0. c \in Commit /\ c.of = None
  BY TextAssumption DEF Commit
<1>1. log = <<c>>
  BY DEF Init
<1> HIDE DEF c
<1>2. log \in Log /\ log # <<>> /\ Len(log) = 1 /\ log[1] = c
  BY <1>0, <1>1 DEF Log
<1>3. \A i \in Intents : Receipts(log, i) = {}
  BY <1>0, <1>2, NoneAssumption DEF Receipts, Log
<1>4. Types
  <2>1. text \in 0..MaxText /\ staged \in 0..MaxText
    BY TextAssumption DEF Init
  <2>2. archive \in [Intents -> Plan]
    BY DEF Init, Plan
  <2>3. pc \in [Procs -> {"idle"}]
    BY DEF Init
  <2>4. on \in [Procs -> {None}] /\ held \in [Procs -> {None}] /\ job \in [Procs -> {None}]
        /\ intent \in [Intents -> {None}] /\ proof \in [Procs -> BOOLEAN]
    BY DEF Init
  <2>5. /\ present \in BOOLEAN /\ foreign \in BOOLEAN /\ writing \in BOOLEAN
        /\ finalizeLock = None /\ repoLock = None
    BY DEF Init
  <2> QED
    BY <1>2, <2>1, <2>2, <2>3, <2>4, <2>5 DEF Types, Idlers
<1>5. AllKept
  BY
     DEF Init, AllKept, Locking, Holding, Proving, Closed, Begun, Preparing, Followers,
         Finalizers, Committers, Archivers
<1>6. Armed /\ Once
  BY <1>3 DEF Init, Armed, Once
<1>7. RecordedHolds /\ MovedWithNothingOpen /\ RunOwnsOne
  BY DEF Init, RecordedHolds, MovedWithNothingOpen, RunOwnsOne, Open
<1> QED
  BY <1>4, <1>5, <1>6, <1>7 DEF ArtifactInv

(* every step keeps it,                                                      *)
LEMMA ArtifactStep == ArtifactInv /\ [Next]_vars => ArtifactInv'
<1> SUFFICES ASSUME ArtifactInv, [Next]_vars PROVE ArtifactInv'
  OBVIOUS
<1> USE DEF ArtifactInv
<1>1. CASE UNCHANGED vars
  <2> USE <1>1 DEF vars, git, tree, locks, procs
  <2>1. Types'
    BY DEF Types
  <2>2. \A p \in Procs : Locking(p)' /\ Holding(p)' /\ Proving(p)' /\ Closed(p)'
    <3> SUFFICES ASSUME NEW p \in Procs
                 PROVE  Locking(p)' /\ Holding(p)' /\ Proving(p)' /\ Closed(p)'
      OBVIOUS
    <3>1. Locking(p) /\ Holding(p) /\ Proving(p) /\ Closed(p)
      BY DEF AllKept
    <3>2. Locking(p)' /\ Holding(p)'
      BY <3>1 DEF Locking, Holding
    <3>3. Proving(p)' /\ Closed(p)'
      BY <3>1 DEF Proving, Closed, HasReceipt
    <3> QED
      BY <3>2, <3>3
  <2>3. AllKept'
    BY <2>2 DEF AllKept
  <2> QED
    BY <2>1, <2>3, ArmedKept, OnceKept, RecordedKept, RunsKept, MovedKept
<1>2. CASE Next
  <2>1. Types'
    BY <1>2, StepTyped, EnvironmentTyped DEF Next
  <2>2. AllKept'
    <3>1. \A q \in Procs : Kept(q)'
      BY <1>2, OwnKept, OthersKept, EnvironmentGood DEF Next
    <3> QED
      BY <3>1 DEF AllKept, Kept
  <2> QED
    BY <2>1, <2>2, ArmedKept, OnceKept, RecordedKept, RunsKept, MovedKept
<1> QED
  BY <1>1, <1>2

(* and so it holds always.                                                   *)
LEMMA ArtifactInvariant == Spec => []ArtifactInv
BY ArtifactInit, ArtifactStep, PTL DEF Spec

(* All stays in its type.                                                    *)
THEOREM ArtifactTypeOK == Spec => []TypeOK
<1>1. ArtifactInv => TypeOK
  BY DEF ArtifactInv, Types, TypeOK
<1> QED
  BY <1>1, ArtifactInvariant, PTL

(* A transcript is committed once and complete, whoever crashes or races     *)
(* with its finalizer (finalizeLocked).                                      *)
THEOREM TranscriptsCommittedOnce == Spec => []CommittedOnce
<1>1. ASSUME ArtifactInv
      PROVE  CommittedOnce
  <2> SUFFICES ASSUME NEW i \in Intents
               PROVE  /\ Cardinality(Receipts(log, i)) <= 1
                      /\ \A k \in Receipts(log, i) : log[k].text = text
    BY DEF CommittedOnce
  <2>1. /\ \A k, l \in Receipts(log, i) : k = l
        /\ \A k \in Receipts(log, i) : log[k].text = text
    BY <1>1 DEF ArtifactInv, Once
  <2>2. CASE Receipts(log, i) = {}
    BY <2>1, <2>2, FS_EmptySet
  <2>3. CASE \E k : Receipts(log, i) = {k}
    BY <2>1, <2>3, FS_Singleton
  <2> QED
    BY <2>1, <2>2, <2>3
<1> QED
  BY <1>1, ArtifactInvariant, PTL

(* What is recorded as finalized is in the history recorded with it, or in   *)
(* the archive (markFinalized, finalizeArchive).                             *)
THEOREM FinalizedIsThere == Spec => []RecordedHolds
<1>1. ArtifactInv => RecordedHolds
  BY DEF ArtifactInv
<1> QED
  BY <1>1, ArtifactInvariant, PTL

(* No intent is open while a life-cycle operation acts on the checkout, nor  *)
(* when it is gone (Prepare, InspectReadiness).                              *)
THEOREM NothingOpenWhenMoved == Spec => []MovedWithNothingOpen
<1>1. ArtifactInv => MovedWithNothingOpen
  BY DEF ArtifactInv
<1> QED
  BY <1>1, ArtifactInvariant, PTL

(* A run has one intent (Create).                                            *)
THEOREM OneIntentOfRun == Spec => []RunOwnsOne
<1>1. ArtifactInv => RunOwnsOne
  BY DEF ArtifactInv
<1> QED
  BY <1>1, ArtifactInvariant, PTL

(* What a step records keeps the word of the record before (updateIntent).   *)
LEMMA KeepingStep == ArtifactInv /\ [Next]_vars => Keeping
<1> SUFFICES ASSUME ArtifactInv, [Next]_vars, NEW i \in Intents, intent[i] # None
             PROVE  KeepsWord(intent[i], intent'[i])
  BY DEF Keeping
<1>1. CASE intent'[i] = intent[i]
  BY <1>1 DEF KeepsWord
<1>2. ~Created(i)
  BY DEF Created
<1>3. CASE Changed(i)
  BY <1>3 DEF Changed, Rewritten, KeepsWord
<1> QED
  BY <1>1, <1>2, <1>3, IntentEffects DEF ArtifactInv

(* No process undoes what another has recorded (updateIntent).               *)
THEOREM NothingIsUndone == Spec => NothingUndone
BY ArtifactInvariant, KeepingStep, PTL DEF Spec, NothingUndone

-----------------------------------------------------------------------------
(* The registry of machines.                                               *)

(* The transition takes a snapshot the registry would read to another, and   *)
(* keeps what it must keep (plan.go, transition).                            *)
Legal(s, t) == t \in Registry!Snapshot /\ Registry!Valid(t) /\ Registry!Keeps(s, t)

(* Every plan under way is the result of a transition (planState).           *)
Carries(plan) == Registry!Valid(plan.after) /\ Registry!Keeps(plan.before, plan.after)
PlansHeld(P) == \A p \in Procs : P[p].pc # "idle" => Carries(P[p].plan)
RegistryInv == Registry!TypeOK /\ Registry!Valid(db) /\ Registry!Valid(backup) /\ PlansHeld(proc)

(* An empty registry is a readable snapshot.                                 *)
LEMMA EmptyValid == Registry!Empty \in Registry!Snapshot /\ Registry!Valid(Registry!Empty)
<1> USE RegistryAssumption
    DEF Registry!RegistryAssumption, Registry!RegistryAssumption, Registry!Unknown, Registry!Active
<1>1. Registry!Empty \in Registry!Snapshot
  BY DEF Registry!Empty, Registry!Snapshot
<1>2. Registry!MergedIds(Registry!Empty) = {}
  BY DEF Registry!MergedIds, Registry!Empty
<1>3. \A k \in Key : ~Registry!Owned(Registry!Empty, k)
  BY DEF Registry!Owned, Registry!Empty
<1> QED
  BY <1>1, <1>2, <1>3 DEF Registry!Valid, Registry!Leads

(* Linking records nobody else owns to an active machine (adopt, link).      *)
LEMMA LinkedGood ==
  ASSUME NEW s \in Registry!Snapshot, Registry!Valid(s), NEW m \in Machine, Registry!IsActive(s, m),
         NEW K \in SUBSET Key, NEW f \in Look, \A k \in K : Registry!Free(s, m, k)
  PROVE  Legal(s, Registry!Linked(s, m, K, f))
<1> USE RegistryAssumption
    DEF Registry!RegistryAssumption, Registry!RegistryAssumption, Registry!Unknown, Registry!Active
<1> DEFINE t == Registry!Linked(s, m, K, f)
<1>1. t \in Registry!Snapshot /\ t.machine = s.machine /\ t.import = s.import
  BY DEF Registry!Linked, Registry!Snapshot, Registry!Binding
<1>2. \A k \in Key : t.binding[k] = IF k \in K THEN [owner |-> m, print |-> f] ELSE s.binding[k]
  BY DEF Registry!Linked, Registry!Snapshot
<1>3. m # None /\ \A k \in K : t.binding[k] # None
  BY <1>2 DEF Registry!Binding
<1> HIDE DEF t
<1>4. Registry!MergedIds(t) = Registry!MergedIds(s)
  BY <1>1 DEF Registry!MergedIds
<1>5. ASSUME NEW k \in Key, Registry!Owned(t, k)
      PROVE  Registry!IsActive(t, t.binding[k].owner)
  BY <1>1, <1>2, <1>5 DEF Registry!Valid, Registry!Owned, Registry!IsActive
<1>6. ASSUME NEW k \in Key, Registry!Owned(s, k), Registry!Owned(t, k)
      PROVE  Registry!Owns(t, s.binding[k].owner, k)
  BY <1>2, <1>3, <1>6 DEF Registry!Owned, Registry!Owns, Registry!Free
<1>7. Registry!Valid(t)
  BY <1>1, <1>4, <1>5 DEF Registry!Valid, Registry!Leads
<1>8. Registry!Keeps(s, t)
  BY <1>1, <1>4, <1>6 DEF Registry!Keeps
<1> QED
  BY <1>1, <1>7, <1>8 DEF Legal, t

(* Suppressing records (unlink).                                             *)
LEMMA SuppressedGood ==
  ASSUME NEW s \in Registry!Snapshot, Registry!Valid(s), NEW K \in SUBSET Key,
         \A k \in K : s.binding[k] # None
  PROVE  Legal(s, Registry!Suppressed(s, K))
<1> USE RegistryAssumption
    DEF Registry!RegistryAssumption, Registry!RegistryAssumption, Registry!Unknown, Registry!Active
<1> DEFINE t == Registry!Suppressed(s, K)
<1>1. t \in Registry!Snapshot /\ t.machine = s.machine /\ t.import = s.import
  BY DEF Registry!Suppressed, Registry!Snapshot, Registry!Binding
<1>2. \A k \in Key : t.binding[k] = IF k \in K THEN [s.binding[k] EXCEPT !.owner = None]
                                    ELSE s.binding[k]
  BY DEF Registry!Suppressed, Registry!Snapshot
<1>3. \A k \in K : s.binding[k] \in Registry!Binding
  BY DEF Registry!Snapshot
<1>4. \A k \in K : t.binding[k].owner = None
  BY <1>2, <1>3 DEF Registry!Binding
<1> HIDE DEF t
<1>5. Registry!MergedIds(t) = Registry!MergedIds(s)
  BY <1>1 DEF Registry!MergedIds
<1>6. ASSUME NEW k \in Key, Registry!Owned(t, k)
      PROVE  k \notin K /\ t.binding[k] = s.binding[k]
  BY <1>2, <1>4, <1>6 DEF Registry!Owned
<1>7. Registry!Valid(t)
  BY <1>1, <1>5, <1>6 DEF Registry!Valid, Registry!Leads, Registry!Owned, Registry!IsActive
<1>8. Registry!Keeps(s, t)
  BY <1>1, <1>5, <1>6 DEF Registry!Keeps, Registry!Owned, Registry!Owns
<1> QED
  BY <1>1, <1>7, <1>8 DEF Legal, t

(* Merging moves the records to the survivor; a circle would have to pass    *)
(* through the survivor, which redirects nowhere (merge).                    *)
LEMMA MergedGood ==
  ASSUME NEW s \in Registry!Snapshot, Registry!Valid(s), NEW m \in Machine, NEW into \in Machine,
         m # into, Registry!IsActive(s, m), Registry!IsActive(s, into)
  PROVE  Legal(s, Registry!Merged(s, m, into))
<1> USE RegistryAssumption
    DEF Registry!RegistryAssumption, Registry!RegistryAssumption, Registry!Unknown, Registry!Active
<1> DEFINE t == Registry!Merged(s, m, into)
<1> DEFINE B == [k \in Key |-> IF Registry!Owns(s, m, k) THEN [s.binding[k] EXCEPT !.owner = into]
                                              ELSE s.binding[k]]
<1>a. ASSUME NEW k \in Key
      PROVE  B[k] \in Registry!Binding \cup {None}
  <2>1. s.binding[k] \in Registry!Binding \cup {None}
    BY DEF Registry!Snapshot
  <2>2. Registry!Owns(s, m, k) => s.binding[k] \in Registry!Binding
    BY <2>1 DEF Registry!Owns
  <2> QED
    BY <2>1, <2>2 DEF Registry!Binding
<1>b. B \in [Key -> Registry!Binding \cup {None}]
  BY <1>a
<1> HIDE DEF B
<1> DEFINE A == [s.machine EXCEPT ![m] = into]
<1>c. t = [s EXCEPT !.machine = A, !.binding = B]
  BY Zenon DEF Registry!Merged, B
<1>d. /\ A \in [Machine -> {Registry!Unknown, Registry!Active} \cup Machine]
      /\ \A x \in Machine : A[x] = IF x = m THEN into ELSE s.machine[x]
  BY DEF Registry!Snapshot
<1> HIDE DEF A, t
<1>e. t = [revision |-> s.revision, machine |-> A, binding |-> B, import |-> s.import]
  BY <1>c DEF Registry!Snapshot
<1>1. t \in Registry!Snapshot /\ t.import = s.import
  BY <1>b, <1>d, <1>e DEF Registry!Snapshot
<1>2. \A x \in Machine : t.machine[x] = IF x = m THEN into ELSE s.machine[x]
  BY <1>d, <1>e
<1>3. \A k \in Key : t.binding[k] = IF Registry!Owns(s, m, k)
                                    THEN [s.binding[k] EXCEPT !.owner = into] ELSE s.binding[k]
  BY <1>e DEF B
<1>4. \A k \in Key : s.binding[k] \in Registry!Binding \cup {None}
  BY DEF Registry!Snapshot
<1>5. \A k \in Key : Registry!Owns(s, m, k) =>
                        t.binding[k] \in Registry!Binding /\ t.binding[k].owner = into
  BY <1>3, <1>4 DEF Registry!Binding, Registry!Owns
<1> HIDE DEF t
<1>6. /\ Registry!MergedIds(t) = Registry!MergedIds(s) \cup {m}
      /\ m \notin Registry!MergedIds(s) /\ into \notin Registry!MergedIds(t)
  BY <1>2 DEF Registry!MergedIds, Registry!IsActive
<1>7. ASSUME NEW S \in SUBSET Registry!MergedIds(t), S # {}
      PROVE  \E x \in S : t.machine[x] \notin S
  <2>1. CASE m \in S
    BY <2>1, <1>2, <1>6, <1>7
  <2>2. CASE m \notin S
    <3>1. S \in SUBSET Registry!MergedIds(s)
      BY <2>2, <1>6, <1>7
    <3>2. PICK x \in S : s.machine[x] \notin S
      BY <3>1, <1>7 DEF Registry!Valid, Registry!Leads
    <3>3. x \in Machine /\ x # m
      BY <3>1, <3>2, <2>2 DEF Registry!MergedIds
    <3> QED
      BY <3>2, <3>3, <1>2
  <2> QED
    BY <2>1, <2>2
<1>8. ASSUME NEW x \in Registry!MergedIds(t)
      PROVE  t.machine[t.machine[x]] # Registry!Unknown
  <2>1. CASE x = m
    BY <2>1, <1>2 DEF Registry!IsActive
  <2>2. CASE x # m
    <3>1. x \in Registry!MergedIds(s) /\ s.machine[s.machine[x]] # Registry!Unknown
      BY <2>2, <1>6, <1>8 DEF Registry!Valid
    <3> QED
      BY <3>1, <2>2, <1>2 DEF Registry!MergedIds
  <2> QED
    BY <2>1, <2>2
<1>9. ASSUME NEW k \in Key, Registry!Owned(t, k)
      PROVE  Registry!IsActive(t, t.binding[k].owner)
  <2>1. CASE Registry!Owns(s, m, k)
    BY <2>1, <1>2, <1>5 DEF Registry!IsActive
  <2>2. CASE ~Registry!Owns(s, m, k)
    <3>1. Registry!Owned(s, k) /\ t.binding[k] = s.binding[k] /\ s.binding[k].owner # m
      BY <2>2, <1>3, <1>9 DEF Registry!Owned, Registry!Owns
    <3>2. s.binding[k].owner \in Machine
      BY <3>1, <1>4 DEF Registry!Owned, Registry!Binding
    <3> QED
      BY <3>1, <3>2, <1>2 DEF Registry!Valid, Registry!IsActive
  <2> QED
    BY <2>1, <2>2
<1>10. Registry!Valid(t)
  BY <1>7, <1>8, <1>9 DEF Registry!Valid, Registry!Leads
<1>11. ASSUME NEW k \in Key, Registry!Owned(s, k), Registry!Owned(t, k)
       PROVE  \/ Registry!Owns(t, s.binding[k].owner, k)
              \/ t.machine[s.binding[k].owner] = t.binding[k].owner
  BY <1>2, <1>3, <1>5, <1>11 DEF Registry!Owned, Registry!Owns
<1>12. \A x \in Registry!MergedIds(s) : t.machine[x] = s.machine[x]
  BY <1>2, <1>6 DEF Registry!MergedIds
<1>13. Registry!Keeps(s, t)
  BY <1>1, <1>11, <1>12 DEF Registry!Keeps
<1> QED
  BY <1>1, <1>10, <1>13 DEF Legal, t

(* A new identity with records nobody owns (adopt).                          *)
LEMMA AdoptedGood ==
  ASSUME NEW s \in Registry!Snapshot, Registry!Valid(s),
         NEW m \in Machine, s.machine[m] = Registry!Unknown,
         NEW K \in SUBSET Key, NEW f \in Look, \A k \in K : Registry!Free(s, m, k)
  PROVE  Legal(s, Registry!Adopted(s, m, K, f))
<1> USE RegistryAssumption
    DEF Registry!RegistryAssumption, Registry!RegistryAssumption, Registry!Unknown, Registry!Active
<1> DEFINE u == [s EXCEPT !.machine = [s.machine EXCEPT ![m] = Registry!Active]]
<1>1. u \in Registry!Snapshot /\ u.import = s.import /\ u.binding = s.binding
  BY DEF Registry!Snapshot
<1>2. \A x \in Machine : u.machine[x] = IF x = m THEN Registry!Active ELSE s.machine[x]
  BY DEF Registry!Snapshot
<1>3. Registry!Adopted(s, m, K, f) = Registry!Linked(u, m, K, f)
  BY DEF Registry!Adopted, Registry!Linked, Registry!Snapshot
<1> HIDE DEF u
<1>4. /\ Registry!MergedIds(u) = Registry!MergedIds(s)
      /\ \A x \in Registry!MergedIds(s) : u.machine[x] = s.machine[x]
  BY <1>2 DEF Registry!MergedIds
<1>5. \A k \in Key : Registry!Owned(u, k) <=> Registry!Owned(s, k)
  BY <1>1 DEF Registry!Owned
<1>6. \A k \in Key : Registry!Owned(s, k) => s.binding[k].owner \in Machine
  BY DEF Registry!Owned, Registry!Snapshot, Registry!Binding
<1>7. Registry!Leads(u)
  <2> SUFFICES ASSUME NEW S \in SUBSET Registry!MergedIds(s), S # {}
               PROVE  \E x \in S : u.machine[x] \notin S
    BY <1>4 DEF Registry!Leads
  <2>1. PICK x \in S : s.machine[x] \notin S
    BY DEF Registry!Valid, Registry!Leads
  <2> QED
    BY <2>1, <1>4
<1>8. ASSUME NEW x \in Registry!MergedIds(s)
      PROVE  u.machine[u.machine[x]] # Registry!Unknown
  BY <1>2, <1>4 DEF Registry!MergedIds, Registry!Valid
<1>9. ASSUME NEW k \in Key, Registry!Owned(s, k)
      PROVE  Registry!IsActive(u, s.binding[k].owner)
  BY <1>2, <1>6, <1>9 DEF Registry!Valid, Registry!IsActive
<1>10. Registry!Valid(u)
  BY <1>1, <1>4, <1>5, <1>7, <1>8, <1>9 DEF Registry!Valid
<1>11. Registry!IsActive(u, m) /\ \A k \in K : Registry!Free(u, m, k)
  BY <1>1, <1>2, <1>5 DEF Registry!IsActive, Registry!Free, Registry!Owns
<1>12. Legal(u, Registry!Linked(u, m, K, f))
  BY <1>1, <1>10, <1>11, LinkedGood
<1> DEFINE t == Registry!Linked(u, m, K, f)
<1> HIDE DEF t
<1>13. Registry!Keeps(u, t) => Registry!Keeps(s, t)
  BY <1>1, <1>4, <1>5 DEF Registry!Keeps
<1> QED
  BY <1>3, <1>12, <1>13 DEF Legal, t

(* An alias nobody else imported (record-imports).                           *)
LEMMA ImportedGood ==
  ASSUME NEW s \in Registry!Snapshot, Registry!Valid(s), NEW a \in Alias, NEW o \in Origin,
         s.import[a] \in {None, o}
  PROVE  Legal(s, Registry!Imported(s, a, o))
<1> DEFINE t == Registry!Imported(s, a, o)
<1>1. t \in Registry!Snapshot /\ t.machine = s.machine /\ t.binding = s.binding
  BY DEF Registry!Imported, Registry!Snapshot
<1>2. \A b \in Alias : s.import[b] # None => t.import[b] = s.import[b]
  BY DEF Registry!Imported, Registry!Snapshot
<1> HIDE DEF t
<1>3. Registry!MergedIds(t) = Registry!MergedIds(s)
  BY <1>1 DEF Registry!MergedIds
<1>4. Registry!Valid(t)
  BY <1>1, <1>3 DEF Registry!Valid, Registry!Leads, Registry!Owned, Registry!IsActive
<1>5. Registry!Keeps(s, t)
  BY <1>1, <1>2, <1>3 DEF Registry!Keeps, Registry!Owned, Registry!Owns
<1> QED
  BY <1>1, <1>4, <1>5 DEF Legal, t

(* Counting a change changes nothing else.                                   *)
LEMMA RevisedGood ==
  ASSUME NEW s \in Registry!Snapshot, NEW t, Legal(s, t)
  PROVE  Legal(s, Registry!Revised(s, t))
<1> DEFINE u == [t EXCEPT !.revision = t.revision + 1]
<1>1. /\ u \in Registry!Snapshot /\ u.machine = t.machine
      /\ u.binding = t.binding /\ u.import = t.import
  BY DEF Legal, Registry!Snapshot
<1>2. Registry!Revised(s, t) = t \/ Registry!Revised(s, t) = u
  BY DEF Registry!Revised
<1> HIDE DEF u
<1>3. Registry!Valid(u)
  BY <1>1
     DEF Legal, Registry!Valid, Registry!Leads, Registry!MergedIds, Registry!Owned,
         Registry!IsActive
<1>4. Registry!Keeps(s, u)
  BY <1>1 DEF Legal, Registry!Keeps, Registry!Owned, Registry!Owns
<1> QED
  BY <1>1, <1>2, <1>3, <1>4 DEF Legal

-----------------------------------------------------------------------------
(* Nothing holds at the start that a plan could have broken.                 *)
LEMMA InitRegistryInv == Registry!Init => RegistryInv
<1> SUFFICES ASSUME Registry!Init PROVE RegistryInv
  OBVIOUS
<1>1. Registry!TypeOK
  BY EmptyValid DEF Registry!Init, Registry!TypeOK, Registry!Process, Registry!Idle
<1>2. PlansHeld(proc)
  BY DEF Registry!Init, PlansHeld, Registry!Idle
<1> QED
  BY <1>1, <1>2, EmptyValid DEF Registry!Init, RegistryInv

(* Planning keeps the invariant when the transition is a good one (Plan).    *)
LEMMA PlansRegistryInv ==
  ASSUME RegistryInv, NEW p \in Procs, NEW t, Legal(db, t), Registry!Plans(p, t)
  PROVE  RegistryInv' /\ UNCHANGED <<db, file>>
<1> DEFINE r == Registry!Revised(db, t)
           plan == [before |-> db, after |-> r, file |-> file]
           P == [pc |-> "planned", plan |-> plan]
<1>1. Legal(db, r)
  BY RevisedGood DEF RegistryInv, Registry!TypeOK
<1>2. UNCHANGED <<db, file, backup>> /\ proc' = [proc EXCEPT ![p] = P]
  BY DEF Registry!Plans
<1> HIDE DEF r
<1>3. plan \in Registry!Plan /\ Carries(plan)
  BY <1>1 DEF Legal, RegistryInv, Registry!TypeOK, Registry!Plan, Carries
<1> HIDE DEF plan
<1>4. P \in Registry!Process
  BY <1>3 DEF Registry!Process
<1>5. \A q \in Procs : proc'[q] = IF q = p THEN P ELSE proc[q]
  BY <1>2 DEF RegistryInv, Registry!TypeOK
<1>6. PlansHeld(proc')
  BY <1>3, <1>5 DEF RegistryInv, PlansHeld
<1>7. Registry!TypeOK'
  BY <1>2, <1>4 DEF RegistryInv, Registry!TypeOK
<1> QED
  BY <1>2, <1>6, <1>7 DEF RegistryInv

(* Dropping a plan, or moving between holding and locking it.                *)
LEMMA MovesRegistryInv ==
  ASSUME RegistryInv, NEW p \in Procs, NEW place \in {"planned", "locked"}, proc[p].pc # "idle",
         proc' \in {proc, [proc EXCEPT ![p] = Registry!Idle],
                   [proc EXCEPT ![p] = [@ EXCEPT !.pc = place]]}
  PROVE  proc' \in [Procs -> Registry!Process] /\ PlansHeld(proc')
<1>1. proc[p].plan \in Registry!Plan /\ proc[p] = [pc |-> proc[p].pc, plan |-> proc[p].plan]
  BY DEF RegistryInv, Registry!TypeOK, Registry!Process, Registry!Idle
<1>2. CASE proc' = proc
  BY <1>2 DEF RegistryInv, Registry!TypeOK
<1>3. CASE proc' = [proc EXCEPT ![p] = Registry!Idle]
  <2>1. \A q \in Procs : proc'[q] = IF q = p THEN Registry!Idle ELSE proc[q]
    BY <1>3 DEF RegistryInv, Registry!TypeOK
  <2>2. PlansHeld(proc')
    BY <2>1 DEF PlansHeld, RegistryInv, Registry!Idle
  <2> QED
    BY <2>2, <1>3 DEF RegistryInv, Registry!TypeOK, Registry!Process
<1>4. CASE proc' = [proc EXCEPT ![p] = [@ EXCEPT !.pc = place]]
  <2> DEFINE P == [pc |-> place, plan |-> proc[p].plan]
  <2>1. [proc[p] EXCEPT !.pc = place] = P
    BY <1>1
  <2>2. proc' = [proc EXCEPT ![p] = P]
    BY <1>4, <2>1
  <2>3. P \in Registry!Process
    BY <1>1 DEF Registry!Process
  <2>4. \A q \in Procs : proc'[q] = IF q = p THEN P ELSE proc[q]
    BY <2>2 DEF RegistryInv, Registry!TypeOK
  <2>5. PlansHeld(proc')
    BY <2>4 DEF PlansHeld, RegistryInv
  <2> QED
    BY <2>2, <2>3, <2>5 DEF RegistryInv, Registry!TypeOK
<1> QED
  BY <1>2, <1>3, <1>4

(* What a step may do to the database, its file and the plans.               *)
RegistryStep ==
  /\ RegistryInv'
  /\ file' = file \/ file = 0 => db' = db \/ \E p \in Procs :
       /\ proc[p].pc # "idle"
       /\ db = proc[p].plan.before /\ db' = proc[p].plan.after

(* Every operation is such a step.                                           *)
LEMMA RegistryNextStep == RegistryInv /\ [Registry!Next]_(Registry!vars) => RegistryStep
<1> SUFFICES ASSUME RegistryInv, [Registry!Next]_(Registry!vars) PROVE RegistryStep
  OBVIOUS
<1> USE RegistryAssumption DEF Registry!RegistryAssumption
<1>0. /\ db \in Registry!Snapshot /\ backup \in Registry!Snapshot /\ file \in Nat
      /\ Registry!Valid(db) /\ Registry!Valid(backup)
      /\ proc \in [Procs -> Registry!Process]
  BY DEF RegistryInv, Registry!TypeOK
<1>1. ASSUME NEW p \in Procs, NEW m \in Machine, NEW K \in SUBSET Key, NEW f \in Look,
             Registry!PlanAdopt(p, m, K, f)
      PROVE  RegistryStep
  BY <1>0, <1>1, AdoptedGood, PlansRegistryInv DEF Registry!PlanAdopt, RegistryStep
<1>2. ASSUME NEW p \in Procs, NEW m \in Machine, NEW K \in SUBSET Key, NEW f \in Look,
             Registry!PlanLink(p, m, K, f)
      PROVE  RegistryStep
  BY <1>0, <1>2, LinkedGood, PlansRegistryInv DEF Registry!PlanLink, RegistryStep
<1>3. ASSUME NEW p \in Procs, NEW m \in Machine, NEW K \in SUBSET Key, Registry!PlanUnlink(p, m, K)
      PROVE  RegistryStep
  BY <1>0, <1>3, SuppressedGood, PlansRegistryInv DEF Registry!PlanUnlink, RegistryStep
<1>4. ASSUME NEW p \in Procs, NEW m \in Machine, NEW into \in Machine,
             Registry!PlanMerge(p, m, into)
      PROVE  RegistryStep
  BY <1>0, <1>4, MergedGood, PlansRegistryInv DEF Registry!PlanMerge, RegistryStep
<1>5. ASSUME NEW p \in Procs, NEW a \in Alias, NEW o \in Origin, Registry!PlanImport(p, a, o)
      PROVE  RegistryStep
  BY <1>0, <1>5, ImportedGood, PlansRegistryInv DEF Registry!PlanImport, RegistryStep
<1>6. ASSUME NEW p \in Procs, Registry!Lock(p)
      PROVE  RegistryStep
  <2>1. proc' \in {[proc EXCEPT ![p] = Registry!Idle],
                [proc EXCEPT ![p] = [@ EXCEPT !.pc = "locked"]]}
    BY <1>6 DEF Registry!Lock
  <2>2. proc' \in [Procs -> Registry!Process] /\ PlansHeld(proc')
    BY <1>6, <2>1, MovesRegistryInv DEF Registry!Lock
  <2>3. UNCHANGED <<db, file, backup>>
    BY <1>6 DEF Registry!Lock
  <2> QED
    BY <1>0, <2>2, <2>3 DEF RegistryStep, RegistryInv, Registry!TypeOK
<1>7. ASSUME NEW p \in Procs, Registry!Commit(p)
      PROVE  RegistryStep
  <2>1. proc' \in {[proc EXCEPT ![p] = Registry!Idle],
                [proc EXCEPT ![p] = [@ EXCEPT !.pc = "planned"]]}
    BY <1>7 DEF Registry!Commit
  <2>2. proc' \in [Procs -> Registry!Process] /\ PlansHeld(proc')
    BY <1>7, <2>1, MovesRegistryInv DEF Registry!Commit
  <2>3. proc[p].pc # "idle" /\ proc[p].plan \in Registry!Plan /\ Carries(proc[p].plan)
    BY <1>7
       DEF Registry!Commit, RegistryInv, Registry!TypeOK, PlansHeld, Registry!Process,
           Registry!Idle
  <2>4. db = proc[p].plan.before /\ db' = proc[p].plan.after /\ backup' = backup /\ file' \in Nat
    BY <1>0, <1>7 DEF Registry!Commit, Registry!Compared
  <2>5. db' \in Registry!Snapshot /\ Registry!Valid(db')
    BY <2>3, <2>4 DEF Carries, Registry!Plan
  <2>6. RegistryInv'
    BY <1>0, <2>2, <2>4, <2>5 DEF RegistryInv, Registry!TypeOK
  <2> QED
    BY <2>3, <2>4, <2>6 DEF RegistryStep
<1>8. ASSUME NEW p \in Procs, Registry!Abandon(p)
      PROVE  RegistryStep
  <2>1. proc' \in {[proc EXCEPT ![p] = Registry!Idle],
                [proc EXCEPT ![p] = [@ EXCEPT !.pc = "planned"]]}
    BY <1>8 DEF Registry!Abandon
  <2>2. proc' \in [Procs -> Registry!Process] /\ PlansHeld(proc')
    BY <1>8, <2>1, MovesRegistryInv DEF Registry!Abandon
  <2>3. UNCHANGED <<db, backup>> /\ file' \in Nat
    BY <1>0, <1>8 DEF Registry!Abandon
  <2> QED
    BY <1>0, <2>2, <2>3 DEF RegistryStep, RegistryInv, Registry!TypeOK
<1>9. CASE Registry!BackUp
  BY <1>0, <1>9 DEF Registry!BackUp, RegistryStep, RegistryInv, Registry!TypeOK
<1>10. CASE Registry!Restore
  <2>1. file' # file /\ file # 0 /\ file' \in Nat
    BY <1>0, <1>10 DEF Registry!Restore
  <2> QED
    BY <1>0, <1>10, <2>1 DEF Registry!Restore, RegistryStep, RegistryInv, Registry!TypeOK
<1>11. CASE UNCHANGED Registry!vars
  BY <1>11 DEF Registry!vars, RegistryStep, RegistryInv, Registry!TypeOK
<1> QED
  BY <1>1, <1>2, <1>3, <1>4, <1>5, <1>6, <1>7, <1>8, <1>9, <1>10, <1>11 DEF Registry!Next

-----------------------------------------------------------------------------
(* The invariant of every state (Plan, Apply).                               *)
THEOREM RegistryInvariance == Registry!Spec => []RegistryInv
<1>1. RegistryInv /\ [Registry!Next]_(Registry!vars) => RegistryInv'
  BY RegistryNextStep DEF RegistryStep
<1> QED
  BY <1>1, InitRegistryInv, PTL DEF Registry!Spec

(* The registry and every plan are snapshots (Snapshot, planState).          *)
THEOREM RegistryTypeOK == Registry!Spec => []Registry!TypeOK
<1>1. RegistryInv => Registry!TypeOK
  BY DEF RegistryInv
<1> QED
  BY <1>1, RegistryInvariance, PTL

(* What is stored can be read again: redirects end at an active machine and  *)
(* records belong to one (validateSnapshot), though it guards no step.       *)
THEOREM AlwaysReadable == Registry!Spec => []Registry!Readable
<1>1. RegistryInv => Registry!Readable
  BY DEF RegistryInv, Registry!Readable
<1> QED
  BY <1>1, RegistryInvariance, PTL

(* Every change is a reviewed plan, made to the snapshot it was reviewed for *)
(* (Apply).                                                                  *)
THEOREM CommitsReviewed == Registry!Spec => ReviewedCommit
<1>1. RegistryInv /\ [Registry!Next]_(Registry!vars) => [Registry!Reviewed]_(Registry!vars)
  BY RegistryNextStep DEF RegistryStep, Registry!Reviewed
<1> QED
  BY <1>1, RegistryInvariance, PTL DEF Registry!Spec, ReviewedCommit, Registry!ReviewedCommit

(* No record, import or redirect is taken away by a plan made beside another *)
(* one (transition).                                                         *)
THEOREM NothingTaken == Registry!Spec => NeverTaken
<1>1. RegistryInv /\ [Registry!Next]_(Registry!vars) =>
          [file' = file => Registry!Keeps(db, db')]_(Registry!vars)
  <2> SUFFICES ASSUME RegistryInv, [Registry!Next]_(Registry!vars), file' = file
               PROVE  Registry!Keeps(db, db')
    OBVIOUS
  <2>1. CASE db' = db
    BY <2>1 DEF Registry!Keeps, Registry!Owned, Registry!Owns
  <2>2. CASE db' # db
    <3>1. PICK p \in Procs : /\ proc[p].pc # "idle"
                            /\ db = proc[p].plan.before /\ db' = proc[p].plan.after
      BY <2>2, RegistryNextStep DEF RegistryStep
    <3> QED
      BY <3>1 DEF RegistryInv, PlansHeld, Carries
  <2> QED
    BY <2>1, <2>2
<1> QED
  BY <1>1, RegistryInvariance, PTL DEF Registry!Spec, NeverTaken, Registry!NeverTaken
=============================================================================
