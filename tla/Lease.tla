-------------------------------- MODULE Lease --------------------------------
(***************************************************************************)
(* The operation-lease authority as its processes run it: any number of    *)
(* dev processes call Reserve, Fence, ReleaseReservation, AbortReservation,*)
(* Return, WithMutation, WithGuard and Inspect against one state file.     *)
(*                                                                         *)
(* A call takes one advisory file lock per key, in one canonical order,    *)
(* then the lock of the state file; it loads the snapshot, decides, and    *)
(* publishes the new snapshot by an atomic rename.  A guard keeps the key  *)
(* locks while the guarded work runs.  A process may be cancelled while it *)
(* waits, may crash anywhere (the kernel drops its locks), and may be told *)
(* of a failure although its snapshot was published.                       *)
(***************************************************************************)
EXTENDS LeaseAuthority

CONSTANTS
    Procs,      \* processes; each makes one call at a time
    KeySets,    \* the key sets callers ask for
    Rank        \* the canonical order of keys

ASSUME ProcsAssumption   == None \notin Procs
ASSUME KeySetsAssumption == KeySets \subseteq (SUBSET Key) \ {{}}
ASSUME RankAssumption    == /\ Rank \in [Key -> Nat]
                            /\ \A j, k \in Key : Rank[j] = Rank[k] => j = k

VARIABLES
    disk,       \* the published snapshot
    keyLock,    \* key -> the process that holds its lock, or None
    stateLock,  \* the process that holds the lock of the state file, or None
    pc,         \* where each process is in its call
    call,       \* the call each process is making, or None
    snap,       \* the snapshot each process loaded under the state lock
    answer,     \* the epoch a call is about to report, 0 for an error
    issued      \* the claims callers were told they hold, ever

vars == <<disk, keyLock, stateLock, pc, call, snap, answer, issued>>

Request == [op : Ops, digest : Digests, machine : Machines]
EndName == TombstoneKind \cup {"released"}

ActivateCall == [name : Kind, keys : KeySets, req : Request]
EndCall      == [name : EndName, keys : KeySets, token : Token]
GuardCall    == [name : {"guard"}, keys : KeySets, token : Token \cup {None}]
InspectCall  == [name : {"inspect"}, keys : KeySets]
Call == ActivateCall \cup EndCall \cup GuardCall \cup InspectCall

Issue == [kind : Kind, token : Token, keys : KeySets]
IssuedTokens == {i.token : i \in issued}

\* Inspect locks the requested keys alone.
LockSet(c) == IF c.name = "inspect" THEN c.keys ELSE MutationKeys(c.keys)
Held(p)    == {k \in Key : keyLock[k] = p}
Missing(p) == LockSet(call[p]) \ Held(p)

Init ==
    /\ disk = EmptySnapshot
    /\ keyLock = [k \in Key |-> None]
    /\ stateLock = None
    /\ pc = [p \in Procs |-> "idle"]
    /\ call = [p \in Procs |-> None]
    /\ snap = [p \in Procs |-> None]
    /\ answer = [p \in Procs |-> 0]
    /\ issued = {}

-------------------------------------------------------------------------------
(* Entering a call.                                                         *)

Begin(p, c) ==
    /\ pc[p] = "idle"
    /\ pc' = [pc EXCEPT ![p] = "locking"]
    /\ call' = [call EXCEPT ![p] = c]
    /\ UNCHANGED <<disk, keyLock, stateLock, snap, answer, issued>>

StartActivate(p) == \E kind \in Kind, K \in KeySets, r \in Request :
    Begin(p, [name |-> kind, keys |-> K, req |-> r])

\* A caller may present any token it was ever given, however stale.
StartEnd(p) == \E end \in EndName, K \in KeySets, t \in IssuedTokens :
    Begin(p, [name |-> end, keys |-> K, token |-> t])

StartGuard(p) == \E K \in KeySets, t \in IssuedTokens \cup {None} :
    Begin(p, [name |-> "guard", keys |-> K, token |-> t])

StartInspect(p) == \E K \in KeySets :
    Begin(p, [name |-> "inspect", keys |-> K])

Start(p) == StartActivate(p) \/ StartEnd(p) \/ StartGuard(p) \/ StartInspect(p)

-------------------------------------------------------------------------------
(* Locks.                                                                   *)

\* Seeded fault: guards take their locks in the opposite order.
NextKeyOpposed(p) == CHOOSE k \in Missing(p) : \A j \in Missing(p) :
    IF call[p].name = "guard" THEN Rank[k] >= Rank[j] ELSE Rank[k] <= Rank[j]

\* The next lock a process waits for: the first missing one in the order.
NextKey(p) == CHOOSE k \in Missing(p) : \A j \in Missing(p) : Rank[k] <= Rank[j]

AcquireKey(p) ==
    /\ pc[p] = "locking"
    /\ Missing(p) # {}
    /\ keyLock[NextKey(p)] = None
    /\ keyLock' = [keyLock EXCEPT ![NextKey(p)] = p]
    /\ UNCHANGED <<disk, stateLock, pc, call, snap, answer, issued>>

\* Seeded fault: the lock of the state file is taken for the write only.
LoadStateUnlocked(p) ==
    /\ pc[p] = "locking" /\ Missing(p) = {}
    /\ snap' = [snap EXCEPT ![p] = disk]
    /\ pc' = [pc EXCEPT ![p] = "deciding"]
    /\ UNCHANGED <<disk, keyLock, stateLock, call, answer, issued>>
LoadState(p) ==
    /\ pc[p] = "locking"
    /\ Missing(p) = {}
    /\ stateLock = None
    /\ stateLock' = p
    /\ snap' = [snap EXCEPT ![p] = disk]
    /\ pc' = [pc EXCEPT ![p] = "deciding"]
    /\ UNCHANGED <<disk, keyLock, call, answer, issued>>

\* The state lock goes back as soon as the file has been read or written.
Leave(p, next, epoch) ==
    /\ stateLock' = None
    /\ snap' = [snap EXCEPT ![p] = None]
    /\ pc' = [pc EXCEPT ![p] = next]
    /\ answer' = [answer EXCEPT ![p] = epoch]
    /\ UNCHANGED <<keyLock, call, issued>>

Reject(p) == Leave(p, "reply", 0) /\ UNCHANGED disk

\* Publishing: refused as invalid, failed before the rename, done, or done with
\* an error because the directory could not be synced afterwards.
Publish(p, new, epoch) ==
    \/ Reject(p)
    \/ /\ ValidSnapshot(new)
       /\ disk' = new
       /\ Leave(p, "reply", epoch) \/ Leave(p, "reply", 0)

-------------------------------------------------------------------------------
(* The decision each call takes on the snapshot it loaded.                  *)

Activate(p) ==
    /\ pc[p] = "deciding" /\ call[p].name \in Kind
    /\ LET s == snap[p]
           K == call[p].keys
           r == call[p].req
           kind == call[p].name
           admitted == OperationReusable(s, K, r) /\ HierarchyFree(s, K)
           fresh == Claimable(s, K, r, kind) /\ EpochLeft(s)
       IN  \/ /\ admitted /\ AlreadyHeld(s, K, r, kind)
              /\ \E k \in K : Leave(p, "reply", ActiveClaim(s, k).token.epoch)
              /\ UNCHANGED disk
           \/ /\ admitted /\ ~AlreadyHeld(s, K, r, kind) /\ fresh
              /\ Publish(p, Activated(s, K, r, kind), s.lastEpoch + 1)
           \/ /\ ~(admitted /\ (AlreadyHeld(s, K, r, kind) \/ fresh))
              /\ Reject(p)

End(p) ==
    /\ pc[p] = "deciding" /\ call[p].name \in EndName
    /\ LET s == snap[p]
           K == call[p].keys
           t == call[p].token
           end == call[p].name
           replayed == end # "released" /\ EndedAlready(s, K, t, end)
           ends == Endable(s, K, t, end) /\ EpochLeft(s)
       IN  \/ replayed /\ Leave(p, "reply", ReplayedEpoch(s, t)) /\ UNCHANGED disk
           \/ ends /\ Publish(p, Finished(s, K, t, end), s.lastEpoch + 1)
           \/ ~replayed /\ ~ends /\ Reject(p)

Admit(p) ==
    /\ pc[p] = "deciding" /\ call[p].name = "guard"
    /\ MayRun(snap[p], call[p].keys, call[p].token)
    /\ Leave(p, "body", 0)
    /\ UNCHANGED disk

Refuse(p) ==
    /\ pc[p] = "deciding" /\ call[p].name = "guard"
    /\ ~MayRun(snap[p], call[p].keys, call[p].token)
    /\ Reject(p)

Inspect(p) ==
    /\ pc[p] = "deciding" /\ call[p].name = "inspect"
    /\ Leave(p, "reply", 0) /\ UNCHANGED disk

-------------------------------------------------------------------------------
(* Leaving a call.                                                          *)

FinishBody(p) ==
    /\ pc[p] = "body"
    /\ pc' = [pc EXCEPT ![p] = "reply"]
    /\ UNCHANGED <<disk, keyLock, stateLock, call, snap, answer, issued>>

\* The context ends while the process polls for a lock.
Cancel(p) ==
    /\ pc[p] = "locking"
    /\ pc' = [pc EXCEPT ![p] = "reply"]
    /\ UNCHANGED <<disk, keyLock, stateLock, call, snap, answer, issued>>

Drop(p) ==
    /\ keyLock' = [k \in Key |-> IF keyLock[k] = p THEN None ELSE keyLock[k]]
    /\ stateLock' = IF stateLock = p THEN None ELSE stateLock
    /\ pc' = [pc EXCEPT ![p] = "idle"]
    /\ call' = [call EXCEPT ![p] = None]
    /\ snap' = [snap EXCEPT ![p] = None]
    /\ answer' = [answer EXCEPT ![p] = 0]
    /\ UNCHANGED disk

Told(c, epoch) ==
    IF c.name \in Kind /\ epoch # 0
    THEN {[kind |-> c.name, keys |-> c.keys,
           token |-> [op |-> c.req.op, digest |-> c.req.digest, epoch |-> epoch]]}
    ELSE {}

Reply(p) ==
    /\ pc[p] = "reply"
    /\ issued' = issued \cup Told(call[p], answer[p])
    /\ Drop(p)

Crash(p) ==
    /\ pc[p] # "idle"
    /\ Drop(p)
    /\ UNCHANGED issued

Step(p) ==
    \/ AcquireKey(p) \/ LoadState(p)
    \/ Activate(p) \/ End(p) \/ Admit(p) \/ Refuse(p) \/ Inspect(p)
    \/ FinishBody(p) \/ Reply(p)

Next == \E p \in Procs : Start(p) \/ Step(p) \/ Cancel(p) \/ Crash(p)

Spec == Init /\ [][Next]_vars

\* Callers stop starting calls only when they choose to; a process that is
\* scheduled keeps polling (every 10 ms) and guarded work returns.
FairSpec == Spec /\ \A p \in Procs : WF_vars(Step(p))

-------------------------------------------------------------------------------
(* Properties.                                                              *)

PC == {"idle", "locking", "deciding", "body", "reply"}

\* The type of every variable: what authority.go's structs may hold.
TypeOK ==
    /\ disk \in Snapshot
    /\ keyLock \in [Key -> Procs \cup {None}]
    /\ stateLock \in Procs \cup {None}
    /\ pc \in [Procs -> PC]
    /\ call \in [Procs -> Call \cup {None}]
    /\ snap \in [Procs -> Snapshot \cup {None}]
    /\ answer \in [Procs -> Nat]
    /\ issued \subseteq Issue

\* writeState refuses a snapshot that validateSnapshot rejects, and loadState
\* refuses to read one: an operation that computed such a snapshot would fail
\* for ever.  No admissible operation of activate or finishClaim computes one.
NeverRefusesItself == \A p \in Procs : pc[p] = "deciding" =>
    LET s == snap[p]
        c == call[p]
    IN  /\ ValidSnapshot(s)
        /\ /\ c.name \in Kind
           /\ OperationReusable(s, c.keys, c.req) /\ HierarchyFree(s, c.keys)
           /\ Claimable(s, c.keys, c.req, c.name) /\ ~AlreadyHeld(s, c.keys, c.req, c.name)
           => ValidSnapshot(Activated(s, c.keys, c.req, c.name))
        /\ c.name \in EndName /\ Endable(s, c.keys, c.token, c.name)
           => ValidSnapshot(Finished(s, c.keys, c.token, c.name))

\* A repository and one of its branches are never claimed by two tokens
\* (checkHierarchyClaims), whichever processes claimed them and in what order.
HierarchyExclusion == \A j, k \in Key :
    Active(disk, j) /\ Active(disk, k) /\ Related(j, k)
    => ActiveClaim(disk, j).token = ActiveClaim(disk, k).token

\* A claim is held on all of the keys it was granted for or on none of them:
\* no promotion, release, crash or lost reply leaves a part of it behind.
AllOrNothing == \A i \in issued : Holds(disk, i.token) \in {{}, i.keys}

\* While guarded work runs, what admitted it stays true: no claim appears over
\* an ordinary mutation (a fence drains it first), and an owner's claim is
\* neither returned nor promoted under it (WithGuard keeps the key locks).
GuardStaysAdmitted == \A p \in Procs :
    pc[p] = "body" => MayRun(disk, call[p].keys, call[p].token)

\* Two guarded operations never run at once on overlapping keys.
GuardsExclusive == \A p, q \in Procs :
    p # q /\ pc[p] = "body" /\ pc[q] = "body" => ~Overlap(call[p].keys, call[q].keys)

\* An epoch names one claim for good: two claims that callers were told of
\* never carry the same epoch, across processes, retries and lost replies.
EpochNamesClaim == \A i, j \in issued : i.token.epoch = j.token.epoch => i = j

\* An operation is fenced at most once: whoever learns its fence token, by the
\* first call or by a retry after a lost reply, learns the same one.
FencedOnce == \A i, j \in issued :
    i.kind = "fence" /\ j.kind = "fence" /\ i.token.op = j.token.op => i = j

\* What a successful call reports is what the file says while the call still
\* holds its locks, a replayed call and a first one alike.
AnswerTrue == \A p \in Procs : pc[p] = "reply" /\ answer[p] # 0 =>
    LET c == call[p] IN
    /\ c.name \in Kind => \A i \in Told(c, answer[p]) : Owned(disk, c.name, i.token) = c.keys
    /\ c.name \in TombstoneKind => \A k \in c.keys :
          [kind |-> c.name, token |-> c.token, advanced |-> answer[p]] \in disk.tombstones[k]
    /\ c.name = "released" => \A k \in c.keys : disk.epoch[k] = answer[p] /\ ~Active(disk, k)

\* Whenever some call is under way, some process can take its next step without
\* waiting for another: the canonical lock order admits no cycle of waits.
CanStep(p) ==
    CASE pc[p] = "idle"    -> FALSE
      [] pc[p] = "locking" -> IF Missing(p) = {} THEN stateLock = None
                                                 ELSE keyLock[NextKey(p)] = None
      [] OTHER             -> TRUE
NoLockCycle == (\E p \in Procs : pc[p] # "idle") => \E p \in Procs : CanStep(p)

\* The file never forgets: a binding, a tombstone and an epoch outlive every
\* later write, so no update of one repository overwrites that of another.
ForgetsNothing ==
    /\ \A o \in Ops : disk.binding[o] # None => disk'.binding[o] = disk.binding[o]
    /\ \A k \in Key : /\ disk.tombstones[k] \subseteq disk'.tombstones[k]
                     /\ disk.epoch[k] <= disk'.epoch[k]
HistoryKept == [][ForgetsNothing]_vars

\* A terminal operation stays terminal and never holds a claim again, whatever
\* delayed Reserve or Fence is replayed.
KeepsTerminal == \A o \in Ops :
    TerminalOp(disk, o) => TerminalOp(disk', o) /\ ~ActiveOp(disk', o)
TerminalForever == [][KeepsTerminal]_vars

\* Only the owner ends a claim: one disappears by a call that presents its
\* token, or by its own operation's promotion to a fence.
EndsOwnClaims == \A k \in Key :
    Active(disk, k) /\ ActiveClaim(disk', k) # ActiveClaim(disk, k) =>
    LET t == ActiveClaim(disk, k).token IN
    \E p \in Procs : /\ pc[p] = "deciding"
                     /\ \/ call[p].name \in EndName /\ call[p].token = t
                        \/ call[p].name = "fence" /\ SameOperation(t, call[p].req)
OnlyOwnerEnds == [][EndsOwnClaims]_vars
===============================================================================
