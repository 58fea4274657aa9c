----------------------------- MODULE LeaseProofs -----------------------------
(***************************************************************************)
(* What the authority guarantees for every set of repositories, branches,  *)
(* operations, digests, machines and processes, and every MaxEpoch.        *)
(***************************************************************************)
EXTENDS Lease, TLAPS, WellFoundedInduction

(* A call is of the type its name says. *)
LEMMA CallCases ==
    ASSUME NEW c \in Call
    PROVE  /\ c.name \in Kind => c \in ActivateCall
           /\ c.name \in EndName => c \in EndCall
           /\ c.name = "guard" => c \in GuardCall
           /\ c.keys \in KeySets
    BY DEF Call, ActivateCall, EndCall, GuardCall, InspectCall, Kind, EndName, TombstoneKind

(* A key set callers ask for is a non-empty set of keys. *)
LEMMA KeySetKeys ==
    ASSUME NEW K \in KeySets
    PROVE  K \subseteq Key /\ K # {}
    BY KeySetsAssumption

(* The repository of a key is a key; so the locks of a call are keys. *)
LEMMA MutationKeysKeys ==
    ASSUME NEW K \in SUBSET Key
    PROVE  MutationKeys(K) \in SUBSET Key
    BY DEF MutationKeys, RepositoryOf, RepositoryKey, Key

(* The snapshot activate writes is well formed. *)
LEMMA ActivatedType ==
    ASSUME NEW s \in Snapshot, NEW K \in SUBSET Key, NEW r \in Request, NEW kind \in Kind
    PROVE  Activated(s, K, r, kind) \in Snapshot
<1> DEFINE e == s.lastEpoch + 1
<1>1. s.lastEpoch \in Nat /\ e \in Nat \ {0}
    BY DEF Snapshot
<1>2. NewClaim(s, r) \in Claim
    BY <1>1 DEF NewClaim, NewToken, Claim, Token, Request
<1>3. Bound(s, r) \in [Ops -> Digests \cup {None}]
    BY DEF Bound, Snapshot, Request
<1>4. \A slot \in [Key -> Claim \cup {None}], c \in Claim \cup {None} :
          Filled(slot, K, c) \in [Key -> Claim \cup {None}]
    BY DEF Filled
<1>5. Advanced(s, K) \in Snapshot
    BY <1>1 DEF Advanced, Snapshot
<1> QED
    BY <1>2, <1>3, <1>4, <1>5 DEF Activated, Snapshot

(* The snapshot finishClaim writes is well formed. *)
LEMMA FinishedType ==
    ASSUME NEW s \in Snapshot, NEW K \in SUBSET Key, NEW t \in Token, NEW end \in EndName
    PROVE  Finished(s, K, t, end) \in Snapshot
<1>1. s.lastEpoch + 1 \in Nat
    BY DEF Snapshot
<1>2. Advanced(s, K) \in Snapshot
    BY <1>1 DEF Advanced, Snapshot
<1>3. \A slot \in [Key -> Claim \cup {None}] :
          Filled(slot, K, None) \in [Key -> Claim \cup {None}]
    BY DEF Filled
<1>4. Cleared(s, K, KindOfEnd(end)) \in Snapshot
    BY <1>2, <1>3 DEF Cleared, Snapshot
<1>5. end # "released" => [kind |-> end, token |-> t, advanced |-> s.lastEpoch + 1] \in Tombstone
    BY <1>1 DEF Tombstone, EndName
<1> QED
    BY <1>4, <1>5 DEF Finished, Snapshot

-------------------------------------------------------------------------------
(* Type correctness.                                                        *)

(* A process in a call has a call, one that decides has a snapshot. *)
CallsPresent == \A p \in Procs :
    /\ pc[p] # "idle" => call[p] \in Call
    /\ pc[p] = "deciding" => snap[p] \in Snapshot

TypeInv == TypeOK /\ CallsPresent

LEMMA TypeInit == Init => TypeInv
<1>1. EmptySnapshot \in Snapshot
    BY DEF EmptySnapshot, Snapshot
<1> QED
    BY <1>1 DEF Init, TypeInv, TypeOK, CallsPresent, PC

(* What leaving the state lock does to the types. *)
LEMMA LeaveType ==
    ASSUME TypeInv, NEW p \in Procs, pc[p] = "deciding",
           NEW next \in {"reply", "body"}, NEW epoch \in Nat,
           disk' \in Snapshot, Leave(p, next, epoch)
    PROVE  TypeInv'
    BY DEF Leave, TypeInv, TypeOK, CallsPresent, PC

LEMMA RejectType ==
    ASSUME TypeInv, NEW p \in Procs, pc[p] = "deciding", Reject(p)
    PROVE  TypeInv'
    BY LeaveType DEF Reject, TypeInv, TypeOK

LEMMA PublishType ==
    ASSUME TypeInv, NEW p \in Procs, pc[p] = "deciding",
           NEW new \in Snapshot, NEW epoch \in Nat, Publish(p, new, epoch)
    PROVE  TypeInv'
    BY LeaveType, RejectType DEF Publish

LEMMA BeginType ==
    ASSUME TypeInv, NEW p \in Procs, NEW c \in Call, Begin(p, c)
    PROVE  TypeInv'
    BY DEF Begin, TypeInv, TypeOK, CallsPresent, PC

LEMMA StartType ==
    ASSUME TypeInv, NEW p \in Procs, Start(p)
    PROVE  TypeInv'
<1>1. IssuedTokens \subseteq Token
    BY DEF TypeInv, TypeOK, IssuedTokens, Issue
<1>2. CASE StartActivate(p)
    BY <1>2, BeginType DEF StartActivate, Call, ActivateCall
<1>3. CASE StartEnd(p)
    BY <1>1, <1>3, BeginType DEF StartEnd, Call, EndCall
<1>4. CASE StartGuard(p)
    BY <1>1, <1>4, BeginType DEF StartGuard, Call, GuardCall
<1>5. CASE StartInspect(p)
    BY <1>5, BeginType DEF StartInspect, Call, InspectCall
<1> QED
    BY <1>2, <1>3, <1>4, <1>5 DEF Start

LEMMA ActivateType ==
    ASSUME TypeInv, NEW p \in Procs, Activate(p)
    PROVE  TypeInv'
<1> DEFINE s == snap[p]
           K == call[p].keys
           r == call[p].req
           kind == call[p].name
<1>1. /\ pc[p] = "deciding" /\ kind \in Kind
      /\ call[p] \in ActivateCall /\ s \in Snapshot
      /\ K \in KeySets /\ r \in Request /\ disk \in Snapshot
    BY CallCases DEF Activate, TypeInv, TypeOK, CallsPresent, ActivateCall
<1>2. K \in SUBSET Key
    BY <1>1, KeySetKeys
<1>3. \A k \in K : Active(s, k) => ActiveClaim(s, k).token.epoch \in Nat
    BY <1>1, <1>2 DEF Active, ActiveClaim, Snapshot, Claim, Token
<1>4. CASE AlreadyHeld(s, K, r, kind) /\ UNCHANGED disk
           /\ \E k \in K : Leave(p, "reply", ActiveClaim(s, k).token.epoch)
    BY <1>1, <1>3, <1>4, LeaveType DEF AlreadyHeld, HeldBy
<1>5. CASE Publish(p, Activated(s, K, r, kind), s.lastEpoch + 1)
  <2>1. s.lastEpoch + 1 \in Nat
      BY <1>1 DEF Snapshot
  <2> QED
      BY <1>1, <1>2, <1>5, <2>1, PublishType, ActivatedType
<1>6. CASE Reject(p)
    BY <1>1, <1>6, RejectType
<1> QED
    BY <1>4, <1>5, <1>6 DEF Activate

LEMMA EndType ==
    ASSUME TypeInv, NEW p \in Procs, End(p)
    PROVE  TypeInv'
<1> DEFINE s == snap[p]
           K == call[p].keys
           t == call[p].token
           end == call[p].name
<1>1. /\ pc[p] = "deciding" /\ end \in EndName
      /\ call[p] \in EndCall /\ s \in Snapshot
      /\ K \in KeySets /\ t \in Token /\ disk \in Snapshot
    BY CallCases DEF End, TypeInv, TypeOK, CallsPresent, EndCall
<1>2. K \in SUBSET Key /\ K # {}
    BY <1>1, KeySetKeys
<1>3. CASE EndedAlready(s, K, t, end) /\ Leave(p, "reply", ReplayedEpoch(s, t)) /\ UNCHANGED disk
  <2>1. Ends(s, t) # {}
      BY <1>2, <1>3 DEF EndedAlready, EndedOn, Ends
  <2>2. Ends(s, t) \subseteq Tombstone
      BY <1>1 DEF Ends, Snapshot
  <2>3. ReplayedEpoch(s, t) \in Nat
      BY <2>1, <2>2 DEF ReplayedEpoch, Tombstone
  <2> QED
      BY <1>1, <1>3, <2>3, LeaveType
<1>4. CASE Publish(p, Finished(s, K, t, end), s.lastEpoch + 1)
  <2>1. s.lastEpoch + 1 \in Nat
      BY <1>1 DEF Snapshot
  <2> QED
      BY <1>1, <1>2, <1>4, <2>1, PublishType, FinishedType
<1>5. CASE Reject(p)
    BY <1>1, <1>5, RejectType
<1> QED
    BY <1>3, <1>4, <1>5 DEF End

LEMMA ReplyType ==
    ASSUME TypeInv, NEW p \in Procs, Reply(p)
    PROVE  TypeInv'
<1>1. call[p] \in Call /\ answer[p] \in Nat
    BY DEF Reply, TypeInv, TypeOK, CallsPresent
<1>2. Told(call[p], answer[p]) \subseteq Issue
    BY <1>1, CallCases DEF Told, Issue, ActivateCall, Request, Token
<1> QED
    BY <1>2 DEF Reply, Drop, TypeInv, TypeOK, CallsPresent, PC

(* TypeInv is preserved by every step of the authority. *)
LEMMA TypeStep == TypeInv /\ [Next]_vars => TypeInv'
<1> SUFFICES ASSUME TypeInv, [Next]_vars
             PROVE  TypeInv'
    OBVIOUS
<1>1. CASE UNCHANGED vars
    BY <1>1 DEF vars, TypeInv, TypeOK, CallsPresent
<1>2. ASSUME NEW p \in Procs, AcquireKey(p)
      PROVE  TypeInv'
    BY <1>2 DEF AcquireKey, TypeInv, TypeOK, CallsPresent
<1>3. ASSUME NEW p \in Procs, LoadState(p)
      PROVE  TypeInv'
    BY <1>3 DEF LoadState, TypeInv, TypeOK, CallsPresent, PC
<1>4. ASSUME NEW p \in Procs, Admit(p) \/ Refuse(p) \/ Inspect(p)
      PROVE  TypeInv'
    BY <1>4, LeaveType, RejectType DEF Admit, Refuse, Inspect, TypeInv, TypeOK
<1>5. ASSUME NEW p \in Procs, FinishBody(p) \/ Cancel(p)
      PROVE  TypeInv'
    BY <1>5 DEF FinishBody, Cancel, TypeInv, TypeOK, CallsPresent, PC
<1>6. ASSUME NEW p \in Procs, Crash(p)
      PROVE  TypeInv'
    BY <1>6 DEF Crash, Drop, TypeInv, TypeOK, CallsPresent, PC
<1> QED
    BY <1>1, <1>2, <1>3, <1>4, <1>5, <1>6, StartType, ActivateType, EndType, ReplyType
       DEF Next, Step

(* Every reachable state is well typed, whatever the sizes of the sets. *)
THEOREM TypeCorrect == Spec => []TypeOK
<1>1. TypeInv => TypeOK
    BY DEF TypeInv
<1> QED
    BY <1>1, TypeInit, TypeStep, PTL DEF Spec

-------------------------------------------------------------------------------
(* Locks: who holds what, and that the snapshot in hand is the file.        *)

LockInv == \A p \in Procs :
    /\ pc[p] \in {"deciding", "body"} => LockSet(call[p]) \subseteq Held(p)
    /\ pc[p] = "reply" /\ answer[p] # 0 => LockSet(call[p]) \subseteq Held(p)
    /\ pc[p] = "locking" => answer[p] = 0
    /\ pc[p] = "idle" => answer[p] = 0
    /\ stateLock = p <=> pc[p] = "deciding"
    /\ pc[p] = "deciding" => snap[p] = disk

LEMMA LockInit == Init => LockInv
    BY ProcsAssumption DEF Init, LockInv

(* Leaving the state lock with a new file or with the old one. *)
LEMMA LeaveLock ==
    ASSUME TypeInv, LockInv, NEW p \in Procs, pc[p] = "deciding",
           NEW next \in {"reply", "body"}, NEW epoch \in Nat, Leave(p, next, epoch)
    PROVE  LockInv'
<1>1. \A q \in Procs : Held(q)' = Held(q) /\ call'[q] = call[q]
    BY DEF Leave, Held
<1>2. \A q \in Procs : q # p => pc[q] # "deciding" /\ pc'[q] = pc[q] /\ answer'[q] = answer[q]
    BY DEF Leave, LockInv, TypeInv, TypeOK
<1>3. pc'[p] = next /\ answer'[p] = epoch /\ stateLock' = None
    BY DEF Leave, TypeInv, TypeOK
<1> QED
    BY <1>1, <1>2, <1>3, ProcsAssumption DEF LockInv, LockSet

LEMMA LockStep == TypeInv /\ LockInv /\ [Next]_vars => LockInv'
<1> SUFFICES ASSUME TypeInv, LockInv, [Next]_vars
             PROVE  LockInv'
    OBVIOUS
<1> USE DEF TypeInv, TypeOK
<1>1. CASE UNCHANGED vars
    BY <1>1 DEF vars, LockInv, LockSet, Held
<1>2. ASSUME NEW p \in Procs, Start(p)
      PROVE  LockInv'
  <2>1. PICK c : Begin(p, c)
      BY <1>2 DEF Start, StartActivate, StartEnd, StartGuard, StartInspect
  <2> QED
      BY <2>1 DEF Begin, LockInv, LockSet, Held
<1>3. ASSUME NEW p \in Procs, AcquireKey(p)
      PROVE  LockInv'
  <2>1. \A q \in Procs : Held(q) \subseteq Held(q)'
      BY <1>3, ProcsAssumption DEF AcquireKey, Held
  <2> QED
      BY <1>3, <2>1 DEF AcquireKey, LockInv, LockSet
<1>4. ASSUME NEW p \in Procs, LoadState(p)
      PROVE  LockInv'
    BY <1>4, ProcsAssumption DEF LoadState, LockInv, LockSet, Held, Missing
<1>5. ASSUME NEW p \in Procs, Activate(p) \/ End(p) \/ Admit(p) \/ Refuse(p) \/ Inspect(p)
      PROVE  LockInv'
  <2>1. pc[p] = "deciding" /\ snap[p] = disk /\ disk \in Snapshot /\ TypeInv'
      BY <1>5, TypeStep DEF Activate, End, Admit, Refuse, Inspect, LockInv, Next, Step
  <2>2. \E next, epoch : next \in {"reply", "body"} /\ Leave(p, next, epoch)
      BY <1>5 DEF Activate, End, Admit, Refuse, Inspect, Publish, Reject
  <2>3. PICK next, epoch : next \in {"reply", "body"} /\ Leave(p, next, epoch)
      BY <2>2
  <2>4. epoch \in Nat
      BY <2>1, <2>3 DEF Leave
  <2> QED
      BY <2>1, <2>3, <2>4, LeaveLock
<1>6. ASSUME NEW p \in Procs, FinishBody(p) \/ Cancel(p)
      PROVE  LockInv'
    BY <1>6 DEF FinishBody, Cancel, LockInv, LockSet, Held
<1>7. ASSUME NEW p \in Procs, Reply(p) \/ Crash(p)
      PROVE  LockInv'
  <2>1. Drop(p)
      BY <1>7 DEF Reply, Crash
  <2>2. \A q \in Procs : q # p => Held(q)' = Held(q)
      BY <2>1, ProcsAssumption DEF Drop, Held
  <2> QED
      BY <2>1, <2>2, ProcsAssumption DEF Drop, LockInv, LockSet
<1> QED
    BY <1>1, <1>2, <1>3, <1>4, <1>5, <1>6, <1>7 DEF Next, Step

(* Two calls that decide, run or answer never lock the same key. *)
LEMMA LocksApart ==
    ASSUME NEW p \in Procs, NEW q \in Procs, p # q,
           NEW k \in Key, k \in Held(p)
    PROVE  k \notin Held(q)
    BY DEF Held

(* Key sets that overlap share a lock. *)
LEMMA OverlapShares ==
    ASSUME NEW J \in SUBSET Key, NEW K \in SUBSET Key, Overlap(J, K)
    PROVE  MutationKeys(J) \cap MutationKeys(K) # {}
    BY DEF Overlap, Related, MutationKeys, RepositoryOf, RepositoryKey, IsRepository, Key

-------------------------------------------------------------------------------
(* The snapshots the authority computes.                                    *)

(* What the invariants ask of the file. *)
HierarchySafe(s) == \A j, k \in Key :
    Active(s, j) /\ Active(s, k) /\ Related(j, k)
    => ActiveClaim(s, j).token = ActiveClaim(s, k).token

SoundSnapshot(s) == s \in Snapshot /\ ValidSnapshot(s) /\ HierarchySafe(s)

MayActivate(s, K, r, kind) ==
    OperationReusable(s, K, r) /\ HierarchyFree(s, K) /\ Claimable(s, K, r, kind)

(* Being active means holding a claim, in one slot only. *)
LEMMA ActiveSlots ==
    ASSUME NEW s \in Snapshot, ValidSnapshot(s), NEW k \in Key
    PROVE  /\ Active(s, k) <=> s.reservation[k] # None \/ s.fence[k] # None
           /\ s.reservation[k] # None => s.fence[k] = None
           /\ Active(s, k) => /\ ActiveClaim(s, k) \in Claim
                             /\ ActiveClaim(s, k) = Slot(s, ActiveKind(s, k))[k]
                             /\ s.binding[ActiveClaim(s, k).token.op] = ActiveClaim(s, k).token.digest
                             /\ ActiveClaim(s, k).token.epoch = s.epoch[k]
                             /\ \A b \in s.tombstones[k] : b.token # ActiveClaim(s, k).token
<1>1. ValidRecord(s, k)
    BY DEF ValidSnapshot
<1>2. s.reservation[k] \in Claim \cup {None} /\ s.fence[k] \in Claim \cup {None}
    BY DEF Snapshot
<1> QED
    BY <1>1, <1>2 DEF ValidRecord, Active, ActiveClaim, ActiveKind, Slot, Kind

(* What activate changes, key by key. *)
ActivatedFacts(n, s, K, r, kind) ==
    /\ n.lastEpoch = s.lastEpoch + 1 /\ n.tombstones = s.tombstones
    /\ n.binding = Bound(s, r)
    /\ \A k \in K : /\ n.epoch[k] = s.lastEpoch + 1
                   /\ Active(n, k) /\ ActiveClaim(n, k) = NewClaim(s, r)
                   /\ ActiveKind(n, k) = kind
                   /\ \/ n.reservation[k] = NewClaim(s, r) /\ n.fence[k] = None
                      \/ n.reservation[k] = None /\ n.fence[k] = NewClaim(s, r)
    /\ \A k \in Key \ K :
          /\ n.epoch[k] = s.epoch[k]
          /\ n.reservation[k] = s.reservation[k] /\ n.fence[k] = s.fence[k]
          /\ (Active(n, k) <=> Active(s, k)) /\ ActiveClaim(n, k) = ActiveClaim(s, k)
          /\ ActiveKind(n, k) = ActiveKind(s, k)

LEMMA ActivatedKeys ==
    ASSUME NEW s \in Snapshot, NEW K \in SUBSET Key, NEW r \in Request, NEW kind \in Kind
    PROVE  ActivatedFacts(Activated(s, K, r, kind), s, K, r, kind)
<1> DEFINE n == Activated(s, K, r, kind)
<1>1. NewClaim(s, r) \in Claim
    BY DEF NewClaim, NewToken, Claim, Token, Request, Snapshot
<1>2. /\ n.lastEpoch = s.lastEpoch + 1 /\ n.tombstones = s.tombstones /\ n.binding = Bound(s, r)
      /\ n.epoch = [k \in Key |-> IF k \in K THEN s.lastEpoch + 1 ELSE s.epoch[k]]
      /\ n.reservation = Filled(s.reservation, K, IF kind = "reservation" THEN NewClaim(s, r) ELSE None)
      /\ n.fence = Filled(s.fence, K, IF kind = "fence" THEN NewClaim(s, r) ELSE None)
    BY DEF Activated, Advanced, Snapshot
<1>3. NewClaim(s, r) # None
    BY <1>1, NoneAssumption
<1> HIDE DEF n
<1>4. ASSUME NEW k \in K
      PROVE  /\ n.epoch[k] = s.lastEpoch + 1
             /\ \/ n.reservation[k] = NewClaim(s, r) /\ n.fence[k] = None
                \/ n.reservation[k] = None /\ n.fence[k] = NewClaim(s, r)
             /\ Active(n, k) /\ ActiveClaim(n, k) = NewClaim(s, r)
             /\ ActiveKind(n, k) = kind
  <2>1. CASE kind = "reservation"
    <3>1. n.reservation[k] = NewClaim(s, r) /\ n.fence[k] = None
        BY <1>2, <2>1 DEF Filled
    <3> QED
        BY <1>2, <1>3, <2>1, <3>1 DEF Active, ActiveClaim, ActiveKind
  <2>2. CASE kind = "fence"
    <3>1. n.reservation[k] = None /\ n.fence[k] = NewClaim(s, r)
        BY <1>2, <2>2 DEF Filled
    <3> QED
        BY <1>2, <1>3, <2>2, <3>1 DEF Active, ActiveClaim, ActiveKind
  <2> QED
      BY <2>1, <2>2 DEF Kind
<1>6. ASSUME NEW k \in Key \ K
      PROVE  /\ n.epoch[k] = s.epoch[k]
             /\ n.reservation[k] = s.reservation[k] /\ n.fence[k] = s.fence[k]
    BY <1>2 DEF Filled
<1>7. ASSUME NEW k \in Key \ K
      PROVE  /\ Active(n, k) <=> Active(s, k)
             /\ ActiveClaim(n, k) = ActiveClaim(s, k)
             /\ ActiveKind(n, k) = ActiveKind(s, k)
    BY <1>6 DEF Active, ActiveClaim, ActiveKind
<1>8. ActivatedFacts(n, s, K, r, kind)
  <2>1. /\ n.lastEpoch = s.lastEpoch + 1 /\ n.tombstones = s.tombstones
        /\ n.binding = Bound(s, r)
      BY <1>2
  <2> QED
      BY <2>1, <1>4, <1>6, <1>7 DEF ActivatedFacts
<1> QED
    BY <1>8 DEF n

(* activate's admissible writes pass validateSnapshot and keep the hierarchy. *)
LEMMA ActivatedSound ==
    ASSUME NEW s, SoundSnapshot(s), NEW K \in SUBSET Key, K # {}, NEW r \in Request,
           NEW kind \in Kind, MayActivate(s, K, r, kind)
    PROVE  SoundSnapshot(Activated(s, K, r, kind))
<1> DEFINE n == Activated(s, K, r, kind)
           e == s.lastEpoch + 1
<1>1. s \in Snapshot /\ ValidSnapshot(s) /\ n \in Snapshot /\ s.lastEpoch \in Nat
    BY ActivatedType DEF SoundSnapshot, Snapshot
<1>2. OperationReusable(s, K, r) /\ HierarchyFree(s, K)
    BY DEF MayActivate
<1>k. ActivatedFacts(n, s, K, r, kind)
    BY <1>1, ActivatedKeys
<1>z. NewClaim(s, r) # None
    BY <1>1, NoneAssumption DEF NewClaim, NewToken, Claim, Token, Request
<1> HIDE DEF n
<1>a. n.lastEpoch = s.lastEpoch + 1 /\ n.tombstones = s.tombstones /\ n.binding = Bound(s, r)
    BY <1>k DEF ActivatedFacts
<1>b. ASSUME NEW k \in K
      PROVE  /\ n.epoch[k] = s.lastEpoch + 1
             /\ Active(n, k) /\ ActiveClaim(n, k) = NewClaim(s, r) /\ ActiveKind(n, k) = kind
             /\ \/ n.reservation[k] = NewClaim(s, r) /\ n.fence[k] = None
                \/ n.reservation[k] = None /\ n.fence[k] = NewClaim(s, r)
    BY <1>k DEF ActivatedFacts
<1>c. ASSUME NEW k \in Key \ K
      PROVE  /\ n.epoch[k] = s.epoch[k]
             /\ n.reservation[k] = s.reservation[k] /\ n.fence[k] = s.fence[k]
             /\ Active(n, k) <=> Active(s, k)
             /\ ActiveClaim(n, k) = ActiveClaim(s, k) /\ ActiveKind(n, k) = ActiveKind(s, k)
    BY <1>k DEF ActivatedFacts
<1>3. NewClaim(s, r) = [token |-> [op |-> r.op, digest |-> r.digest, epoch |-> e], machine |-> r.machine]
    BY DEF NewClaim, NewToken
<1>4. /\ n.binding[r.op] = r.digest
      /\ \A o \in Ops : s.binding[o] # None => n.binding[o] = s.binding[o]
    BY <1>1, <1>2, <1>a, <1>b, <1>c DEF OperationReusable, Bound, Snapshot, Request
<1>5. \A k \in Key : \A b \in s.tombstones[k] : b \in Tombstone /\ b.token.op # r.op
    BY <1>1, <1>2 DEF OperationReusable, TerminalOp, Snapshot
<1>6. \A k \in Key : Active(s, k) /\ k \notin K => ActiveClaim(s, k).token.op # r.op
    BY <1>2 DEF OperationReusable
<1>7. \A k \in Key : ValidRecord(n, k)
  <2> SUFFICES ASSUME NEW k \in Key
               PROVE  ValidRecord(n, k)
      OBVIOUS
  <2>1. ValidRecord(s, k) /\ s.epoch[k] \in Nat
      BY <1>1 DEF ValidSnapshot, Snapshot
  <2>2. s.epoch[k] <= n.epoch[k] /\ n.epoch[k] <= n.lastEpoch
      BY <1>1, <2>1, <1>a, <1>b, <1>c DEF ValidRecord
  <2>3. \A b \in n.tombstones[k] : /\ n.binding[b.token.op] = b.token.digest
                                  /\ b.token.epoch < b.advanced /\ b.advanced <= n.epoch[k]
    <3> SUFFICES ASSUME NEW b \in s.tombstones[k]
                 PROVE  /\ n.binding[b.token.op] = b.token.digest
                        /\ b.token.epoch < b.advanced /\ b.advanced <= n.epoch[k]
        BY <1>1, <1>a, <1>b, <1>c
    <3>1. b \in Tombstone
        BY <1>5
    <3>2. b.token.op \in Ops /\ b.token.digest \in Digests /\ b.advanced \in Nat
        BY <3>1 DEF Tombstone, Token
    <3>3. n.epoch[k] \in Nat
        BY <1>1 DEF Snapshot
    <3> QED
        BY <1>4, <2>1, <2>2, <3>2, <3>3, NoneAssumption DEF ValidRecord
  <2>4. CASE k \in K
    <3>1. \A b \in n.tombstones[k] : b.token # NewClaim(s, r).token
        BY <1>1, <1>3, <1>5, <1>a, <1>b, <1>c
    <3> QED
        BY <1>1, <1>3, <1>4, <2>2, <2>3, <2>4, <3>1, <1>a, <1>b, <1>c DEF ValidRecord, Slot, Kind
  <2>5. CASE k \notin K
    <3>1. \A q \in Kind : Slot(n, q)[k] = Slot(s, q)[k]
        BY <1>1, <2>5, <1>a, <1>b, <1>c DEF Slot
    <3>2. \A q \in Kind : Slot(s, q)[k] # None =>
            /\ Slot(s, q)[k].token.op \in Ops /\ Slot(s, q)[k].token.digest # None
        BY <1>1, NoneAssumption DEF Slot, Snapshot, Claim, Token
    <3> QED
        BY <1>1, <1>4, <2>1, <2>2, <2>3, <2>5, <3>1, <3>2, <1>a, <1>b, <1>c DEF ValidRecord
  <2> QED
      BY <2>4, <2>5
<1>8. ConsistentActive(n)
  <2> SUFFICES ASSUME NEW j \in Key, NEW k \in Key, Active(n, j), Active(n, k),
                      ActiveClaim(n, j).token.op = ActiveClaim(n, k).token.op
               PROVE  ActiveClaim(n, j) = ActiveClaim(n, k) /\ ActiveKind(n, j) = ActiveKind(n, k)
      BY DEF ConsistentActive
  <2>1. ConsistentActive(s)
      BY <1>1 DEF ValidSnapshot
  <2> QED
      BY <1>1, <1>3, <1>6, <2>1, <1>a, <1>b, <1>c DEF ConsistentActive
<1>9. ConsistentTerminal(n)
    BY <1>1, <1>a, <1>b, <1>c DEF ValidSnapshot, ConsistentTerminal
<1>10. \E k \in Key : n.epoch[k] = n.lastEpoch
    BY <1>1, <1>a, <1>b, <1>c
<1>11. \A o \in Ops : ~(ActiveOp(n, o) /\ TerminalOp(n, o))
  <2> SUFFICES ASSUME NEW o \in Ops, ActiveOp(n, o), TerminalOp(n, o)
               PROVE  FALSE
      OBVIOUS
  <2>1. TerminalOp(s, o) /\ o # r.op
      BY <1>1, <1>5, <1>a, <1>b, <1>c DEF TerminalOp
  <2>2. ActiveOp(s, o)
      BY <1>1, <1>3, <2>1, <1>a, <1>b, <1>c DEF ActiveOp
  <2> QED
      BY <1>1, <2>1, <2>2 DEF ValidSnapshot
<1>12. HierarchySafe(n)
  <2> SUFFICES ASSUME NEW j \in Key, NEW k \in Key, Active(n, j), Active(n, k), Related(j, k)
               PROVE  ActiveClaim(n, j).token = ActiveClaim(n, k).token
      BY DEF HierarchySafe
  <2>1. Related(k, j)
      BY DEF Related
  <2> QED
      BY <1>1, <1>2, <2>1, <1>a, <1>b, <1>c DEF HierarchyFree, SoundSnapshot, HierarchySafe
<1>13. ValidSnapshot(n)
    BY <1>7, <1>8, <1>9, <1>10, <1>11 DEF ValidSnapshot
<1> QED
    BY <1>1, <1>12, <1>13 DEF SoundSnapshot, n

EndTombstone(s, t, end) == [kind |-> end, token |-> t, advanced |-> s.lastEpoch + 1]

(* What finishClaim changes at a key of the call, and what it keeps elsewhere. *)
EndedAt(n, s, t, end, k) ==
    /\ n.epoch[k] = s.lastEpoch + 1
    /\ n.reservation[k] = None /\ n.fence[k] = None /\ ~Active(n, k)
    /\ s.tombstones[k] \subseteq n.tombstones[k]
    /\ n.tombstones[k] \subseteq s.tombstones[k] \cup {EndTombstone(s, t, end)}
    /\ end # "released" => EndTombstone(s, t, end) \in n.tombstones[k]
KeptAt(n, s, k) ==
    /\ n.epoch[k] = s.epoch[k] /\ n.tombstones[k] = s.tombstones[k]
    /\ n.reservation[k] = s.reservation[k] /\ n.fence[k] = s.fence[k]
    /\ Active(n, k) <=> Active(s, k)
    /\ ActiveClaim(n, k) = ActiveClaim(s, k) /\ ActiveKind(n, k) = ActiveKind(s, k)
FinishedFacts(n, s, K, t, end) ==
    /\ n.lastEpoch = s.lastEpoch + 1 /\ n.binding = s.binding
    /\ \A k \in K : EndedAt(n, s, t, end, k)
    /\ \A k \in Key \ K : KeptAt(n, s, k)

LEMMA FinishedKeys ==
    ASSUME NEW s \in Snapshot, ValidSnapshot(s), NEW K \in SUBSET Key, NEW t \in Token,
           NEW end \in EndName, Owned(s, KindOfEnd(end), t) = K
    PROVE  FinishedFacts(Finished(s, K, t, end), s, K, t, end)
<1> DEFINE n == Finished(s, K, t, end)
           kind == KindOfEnd(end)
<1>1. kind \in Kind
    BY DEF KindOfEnd, Kind
<1>2. /\ n.lastEpoch = s.lastEpoch + 1 /\ n.binding = s.binding
      /\ n.epoch = [k \in Key |-> IF k \in K THEN s.lastEpoch + 1 ELSE s.epoch[k]]
      /\ n.reservation = IF kind = "reservation" THEN Filled(s.reservation, K, None) ELSE s.reservation
      /\ n.fence = IF kind = "fence" THEN Filled(s.fence, K, None) ELSE s.fence
      /\ n.tombstones = [k \in Key |-> IF k \in K /\ end # "released"
                                       THEN s.tombstones[k] \cup {EndTombstone(s, t, end)}
                                       ELSE s.tombstones[k]]
    BY DEF Finished, Cleared, Advanced, EndTombstone, Snapshot
<1> HIDE DEF n
<1>3. ASSUME NEW k \in Key
      PROVE  /\ s.reservation[k] = None \/ s.fence[k] = None
             /\ k \in K => Slot(s, kind)[k] # None
    BY DEF ValidSnapshot, ValidRecord, Owned
<1>4. ASSUME NEW k \in K
      PROVE  n.reservation[k] = None /\ n.fence[k] = None
  <2>1. CASE kind = "reservation"
      BY <1>2, <1>3, <2>1 DEF Filled, Slot
  <2>2. CASE kind = "fence"
      BY <1>2, <1>3, <2>2 DEF Filled, Slot
  <2> QED
      BY <1>1, <2>1, <2>2 DEF Kind
<1>5. ASSUME NEW k \in Key \ K
      PROVE  n.reservation[k] = s.reservation[k] /\ n.fence[k] = s.fence[k]
  <2>1. CASE kind = "reservation"
      BY <1>2, <2>1 DEF Filled
  <2>2. CASE kind = "fence"
      BY <1>2, <2>2 DEF Filled
  <2> QED
      BY <1>1, <2>1, <2>2 DEF Kind
<1>6. ASSUME NEW k \in K
      PROVE  ~Active(n, k)
    BY <1>4 DEF Active, ActiveClaim
<1>7. ASSUME NEW k \in Key \ K
      PROVE  /\ Active(n, k) <=> Active(s, k)
             /\ ActiveClaim(n, k) = ActiveClaim(s, k) /\ ActiveKind(n, k) = ActiveKind(s, k)
    BY <1>5 DEF Active, ActiveClaim, ActiveKind
<1>8. ASSUME NEW k \in K
      PROVE  /\ n.epoch[k] = s.lastEpoch + 1
             /\ s.tombstones[k] \subseteq n.tombstones[k]
             /\ n.tombstones[k] \subseteq s.tombstones[k] \cup {EndTombstone(s, t, end)}
             /\ end # "released" => EndTombstone(s, t, end) \in n.tombstones[k]
    BY <1>2
<1>9. ASSUME NEW k \in Key \ K
      PROVE  n.epoch[k] = s.epoch[k] /\ n.tombstones[k] = s.tombstones[k]
    BY <1>2
<1>10. ASSUME NEW k \in K
       PROVE  EndedAt(n, s, t, end, k)
    BY <1>4, <1>6, <1>8 DEF EndedAt
<1>11. ASSUME NEW k \in Key \ K
       PROVE  KeptAt(n, s, k)
    BY <1>5, <1>7, <1>9 DEF KeptAt
<1>12. FinishedFacts(n, s, K, t, end)
    BY <1>2, <1>10, <1>11 DEF FinishedFacts
<1> QED
    BY <1>12 DEF n

(* finishClaim's admissible writes pass validateSnapshot and keep the hierarchy. *)
LEMMA FinishedSound ==
    ASSUME NEW s, SoundSnapshot(s), NEW K \in SUBSET Key, K # {}, NEW t \in Token,
           NEW end \in EndName, Owned(s, KindOfEnd(end), t) = K
    PROVE  SoundSnapshot(Finished(s, K, t, end))
<1> DEFINE n == Finished(s, K, t, end)
           tomb == EndTombstone(s, t, end)
<1>1. s \in Snapshot /\ ValidSnapshot(s) /\ n \in Snapshot /\ s.lastEpoch \in Nat
    BY FinishedType DEF SoundSnapshot, Snapshot
<1>2. FinishedFacts(n, s, K, t, end)
    BY <1>1, FinishedKeys
<1>h. HierarchySafe(s)
    BY DEF SoundSnapshot
<1> HIDE DEF n, tomb
<1>a. n.lastEpoch = s.lastEpoch + 1 /\ n.binding = s.binding
    BY <1>2 DEF FinishedFacts
<1>b. ASSUME NEW k \in K
      PROVE  /\ n.epoch[k] = s.lastEpoch + 1
             /\ n.reservation[k] = None /\ n.fence[k] = None /\ ~Active(n, k)
             /\ n.tombstones[k] \subseteq s.tombstones[k] \cup {tomb}
    BY <1>2 DEF FinishedFacts, EndedAt, tomb
<1>c. ASSUME NEW k \in Key \ K
      PROVE  /\ n.epoch[k] = s.epoch[k] /\ n.tombstones[k] = s.tombstones[k]
             /\ n.reservation[k] = s.reservation[k] /\ n.fence[k] = s.fence[k]
             /\ Active(n, k) <=> Active(s, k)
             /\ ActiveClaim(n, k) = ActiveClaim(s, k) /\ ActiveKind(n, k) = ActiveKind(s, k)
    BY <1>2 DEF FinishedFacts, KeptAt
<1>3. ASSUME NEW k \in K
      PROVE  /\ Active(s, k) /\ ActiveClaim(s, k).token = t /\ ActiveKind(s, k) = KindOfEnd(end)
             /\ s.binding[t.op] = t.digest /\ t.epoch = s.epoch[k] /\ s.epoch[k] <= s.lastEpoch
  <2>1. Slot(s, KindOfEnd(end))[k] # None /\ Slot(s, KindOfEnd(end))[k].token = t
      BY DEF Owned
  <2>2. ValidRecord(s, k)
      BY <1>1 DEF ValidSnapshot
  <2> QED
      BY <1>1, <2>1, <2>2, ActiveSlots DEF ValidRecord, Slot, KindOfEnd, ActiveClaim, ActiveKind
<1>4. \A k \in Key \ K : Active(s, k) => ActiveClaim(s, k).token.op # t.op
  <2> SUFFICES ASSUME NEW k \in Key \ K, Active(s, k), ActiveClaim(s, k).token.op = t.op
               PROVE  FALSE
      OBVIOUS
  <2>1. PICK j \in K : TRUE
      OBVIOUS
  <2>2. ActiveClaim(s, k) = ActiveClaim(s, j) /\ ActiveKind(s, k) = ActiveKind(s, j)
      BY <1>1, <1>3, <2>1 DEF ValidSnapshot, ConsistentActive
  <2>3. k \in Owned(s, KindOfEnd(end), t)
      BY <1>1, <1>3, <2>1, <2>2, ActiveSlots, NoneAssumption DEF Owned
  <2> QED
      BY <2>3
<1>5. ~TerminalOp(s, t.op)
  <2>1. ActiveOp(s, t.op)
      BY <1>3 DEF ActiveOp
  <2> QED
      BY <1>1, <2>1 DEF ValidSnapshot, Token
<1>6. tomb = [kind |-> end, token |-> t, advanced |-> s.lastEpoch + 1]
    BY DEF tomb, EndTombstone
<1>7. \A k \in Key : ValidRecord(n, k)
  <2> SUFFICES ASSUME NEW k \in Key
               PROVE  ValidRecord(n, k)
      OBVIOUS
  <2>1. ValidRecord(s, k) /\ s.epoch[k] \in Nat
      BY <1>1 DEF ValidSnapshot, Snapshot
  <2>2. CASE k \in K
    <3>1. \A b \in s.tombstones[k] : b.advanced \in Nat
        BY <1>1 DEF Snapshot, Tombstone
    <3>2. n.tombstones[k] \subseteq s.tombstones[k] \cup {tomb} /\ n.epoch[k] = s.lastEpoch + 1
        BY <1>b, <2>2
    <3>3. \A b \in n.tombstones[k] : /\ n.binding[b.token.op] = b.token.digest
                                    /\ b.token.epoch < b.advanced /\ b.advanced <= n.epoch[k]
        BY <1>1, <1>3, <1>6, <1>a, <2>1, <2>2, <3>1, <3>2 DEF ValidRecord, Token
    <3>4. n.reservation[k] = None /\ n.fence[k] = None /\ n.lastEpoch = s.lastEpoch + 1
        BY <1>a, <1>b, <2>2
    <3> QED
        BY <1>1, <3>2, <3>3, <3>4 DEF ValidRecord, Slot, Kind
  <2>3. CASE k \notin K
    <3>1. /\ n.epoch[k] = s.epoch[k] /\ n.tombstones[k] = s.tombstones[k]
          /\ n.reservation[k] = s.reservation[k] /\ n.fence[k] = s.fence[k]
          /\ n.binding = s.binding /\ n.lastEpoch = s.lastEpoch + 1
        BY <1>a, <1>c, <2>3
    <3> QED
        BY <1>1, <2>1, <3>1 DEF ValidRecord, Slot
  <2> QED
      BY <2>2, <2>3
<1>8. \A k \in Key : Active(n, k) => /\ k \notin K /\ Active(s, k)
                                    /\ ActiveClaim(n, k) = ActiveClaim(s, k)
                                    /\ ActiveKind(n, k) = ActiveKind(s, k)
    BY <1>b, <1>c
<1>9. ConsistentActive(n)
    BY <1>1, <1>8 DEF ValidSnapshot, ConsistentActive
<1>10. \A k \in Key : \A b \in n.tombstones[k] : b = tomb \/ b \in s.tombstones[k]
  <2> SUFFICES ASSUME NEW k \in Key
               PROVE  n.tombstones[k] \subseteq s.tombstones[k] \cup {tomb}
      OBVIOUS
  <2> QED
      BY <1>b, <1>c
<1>11. \A k \in Key : \A b \in s.tombstones[k] : b.token.op # t.op
    BY <1>5 DEF TerminalOp
<1>12. ConsistentTerminal(n)
  <2>1. tomb.token.op = t.op
      BY <1>6
  <2> QED
      BY <1>1, <1>10, <1>11, <2>1 DEF ValidSnapshot, ConsistentTerminal
<1>13. \E k \in Key : n.epoch[k] = n.lastEpoch
    BY <1>a, <1>b
<1>14. \A o \in Ops : ~(ActiveOp(n, o) /\ TerminalOp(n, o))
  <2> SUFFICES ASSUME NEW o \in Ops, ActiveOp(n, o), TerminalOp(n, o)
               PROVE  FALSE
      OBVIOUS
  <2>1. ActiveOp(s, o) /\ o # t.op
      BY <1>4, <1>8 DEF ActiveOp
  <2>2. TerminalOp(s, o)
      BY <1>6, <1>10, <2>1 DEF TerminalOp
  <2> QED
      BY <1>1, <2>1, <2>2 DEF ValidSnapshot
<1>15. HierarchySafe(n)
    BY <1>8, <1>h DEF HierarchySafe
<1>16. ValidSnapshot(n)
    BY <1>7, <1>9, <1>12, <1>13, <1>14 DEF ValidSnapshot
<1> QED
    BY <1>1, <1>15, <1>16 DEF SoundSnapshot, n

-------------------------------------------------------------------------------
(* The file stays sound.                                                    *)

ActivatesDisk(p) ==
    /\ call[p] \in ActivateCall
    /\ MayActivate(disk, call[p].keys, call[p].req, call[p].name)
    /\ disk' = Activated(disk, call[p].keys, call[p].req, call[p].name)
EndsDisk(p) ==
    /\ call[p] \in EndCall
    /\ Endable(disk, call[p].keys, call[p].token, call[p].name)
    /\ disk' = Finished(disk, call[p].keys, call[p].token, call[p].name)

(* The file changes only by an admissible write of the process that holds the
   state lock, computed from the file as it is. *)
LEMMA DiskChanges ==
    ASSUME TypeInv, LockInv, [Next]_vars, disk' # disk
    PROVE  \E p \in Procs : /\ pc[p] = "deciding"
                            /\ UNCHANGED call
                            /\ \A q \in Procs \ {p} : pc'[q] = pc[q]
                            /\ ActivatesDisk(p) \/ EndsDisk(p)
<1>1. PICK p \in Procs : Activate(p) \/ End(p)
    BY DEF Next, Step, Start, StartActivate, StartEnd, StartGuard, StartInspect, Begin,
           AcquireKey, LoadState, Admit, Refuse, Inspect, Reject, FinishBody, Cancel, Reply,
           Crash, Drop, vars
<1>2. /\ pc[p] = "deciding" /\ snap[p] = disk /\ call[p] \in Call
      /\ UNCHANGED call /\ \A q \in Procs \ {p} : pc'[q] = pc[q]
    BY <1>1 DEF Activate, End, Publish, Reject, Leave, LockInv, TypeInv, TypeOK, CallsPresent
<1>3. CASE Activate(p)
  <2>1. call[p] \in ActivateCall
      BY <1>2, <1>3, CallCases DEF Activate
  <2>2. ActivatesDisk(p)
      BY <1>2, <1>3, <2>1 DEF Activate, Publish, Reject, ActivatesDisk, MayActivate
  <2> QED
      BY <1>2, <2>2
<1>4. CASE End(p)
  <2>1. call[p] \in EndCall
      BY <1>2, <1>4, CallCases DEF End
  <2>2. EndsDisk(p)
      BY <1>2, <1>4, <2>1 DEF End, Publish, Reject, EndsDisk
  <2> QED
      BY <1>2, <2>2
<1> QED
    BY <1>1, <1>3, <1>4

LEMMA SoundInit == Init => SoundSnapshot(disk)
<1> SUFFICES ASSUME Init
             PROVE  SoundSnapshot(disk)
    OBVIOUS
<1>1. disk = EmptySnapshot /\ EmptySnapshot \in Snapshot
    BY DEF Init, EmptySnapshot, Snapshot
<1>2. \A k \in Key : /\ disk.reservation[k] = None /\ disk.fence[k] = None
                     /\ disk.tombstones[k] = {} /\ disk.epoch[k] = 0 /\ disk.lastEpoch = 0
    BY <1>1 DEF EmptySnapshot
<1>3. \A k \in Key : ~Active(disk, k)
    BY <1>2 DEF Active, ActiveClaim
<1>4. disk.lastEpoch = 0
    BY <1>1 DEF EmptySnapshot
<1>5. \A k \in Key : ValidRecord(disk, k)
    BY <1>2 DEF ValidRecord, Slot
<1>6. /\ ConsistentActive(disk) /\ ConsistentTerminal(disk) /\ HierarchySafe(disk)
      /\ \A o \in Ops : ~ActiveOp(disk, o)
    BY <1>2, <1>3 DEF ConsistentActive, ConsistentTerminal, HierarchySafe, ActiveOp
<1> QED
    BY <1>1, <1>4, <1>5, <1>6 DEF SoundSnapshot, ValidSnapshot

LEMMA SoundStep ==
    TypeInv /\ LockInv /\ SoundSnapshot(disk) /\ [Next]_vars => SoundSnapshot(disk)'
<1> SUFFICES ASSUME TypeInv, LockInv, SoundSnapshot(disk), [Next]_vars, disk' # disk
             PROVE  SoundSnapshot(disk')
    BY DEF SoundSnapshot, Snapshot
<1>1. PICK p \in Procs : ActivatesDisk(p) \/ EndsDisk(p)
    BY DiskChanges
<1>2. CASE ActivatesDisk(p)
    BY <1>2, ActivatedSound, KeySetKeys DEF ActivatesDisk, ActivateCall
<1>3. CASE EndsDisk(p)
    BY <1>3, FinishedSound, KeySetKeys DEF EndsDisk, EndCall, Endable
<1> QED
    BY <1>1, <1>2, <1>3

-------------------------------------------------------------------------------
(* Guarded work.                                                            *)

(* Two snapshots agree at a key on everything a guard looks at. *)
SameForGuards(n, s, k) ==
    /\ n.tombstones[k] = s.tombstones[k]
    /\ Active(n, k) <=> Active(s, k)
    /\ ActiveClaim(n, k) = ActiveClaim(s, k)

(* What a guard decided on J stays decided when only the keys K change, K and J
   share no lock, and the new state of K gives the guard's token nothing. *)
LEMMA MayRunKept ==
    ASSUME NEW s, NEW n, NEW K \in SUBSET Key, NEW J \in SUBSET Key,
           NEW t \in Token \cup {None},
           MutationKeys(K) \cap MutationKeys(J) = {}, MayRun(s, J, t),
           \A k \in Key \ K : SameForGuards(n, s, k),
           t # None => \A k \in K : Active(n, k) => ActiveClaim(n, k).token # t
    PROVE  MayRun(n, J, t)
<1>1. K \cap MutationKeys(J) = {} /\ J \subseteq MutationKeys(J)
    BY DEF MutationKeys
<1>2. \A k \in Key : k \notin K => /\ Active(n, k) <=> Active(s, k)
                                  /\ ActiveClaim(n, k) = ActiveClaim(s, k)
                                  /\ n.tombstones[k] = s.tombstones[k]
    BY DEF SameForGuards
<1>3. CASE t = None
  <2>1. \A j \in Key : RepositoryOf(j) \in J => j \notin K
    <3> SUFFICES ASSUME NEW j \in K, RepositoryOf(j) \in J
                 PROVE  FALSE
        OBVIOUS
    <3>1. RepositoryOf(j) \in MutationKeys(K)
        BY DEF MutationKeys
    <3> QED
        BY <1>1, <3>1
  <2>2. MutationKeys(J) \subseteq Key
      BY MutationKeysKeys
  <2> QED
      BY <1>1, <1>2, <1>3, <2>1, <2>2 DEF MayRun, OrdinaryMayRun
<1>4. CASE t # None
  <2>1. OwnerMayRun(s, J, t)
      BY <1>4 DEF MayRun
  <2>2. Holds(n, t) = J
      BY <1>1, <1>2, <1>4, <2>1 DEF OwnerMayRun, Holds
  <2>3. J \cap EndedOn(n, t) = {}
      BY <1>1, <1>2, <2>1 DEF OwnerMayRun, EndedOn
  <2> QED
      BY <1>4, <2>2, <2>3 DEF MayRun, OwnerMayRun
<1> QED
    BY <1>3, <1>4

LEMMA MayRunActivated ==
    ASSUME NEW s, SoundSnapshot(s), NEW K \in SUBSET Key, NEW J \in SUBSET Key, J # {},
           NEW t \in Token \cup {None}, NEW r \in Request, NEW kind \in Kind,
           MutationKeys(K) \cap MutationKeys(J) = {}, MayRun(s, J, t)
    PROVE  MayRun(Activated(s, K, r, kind), J, t)
<1> DEFINE n == Activated(s, K, r, kind)
<1>1. s \in Snapshot /\ ValidSnapshot(s) /\ s.lastEpoch \in Nat
    BY DEF SoundSnapshot, Snapshot
<1>2. ActivatedFacts(n, s, K, r, kind)
    BY <1>1, ActivatedKeys
<1> HIDE DEF n
<1>3. \A k \in Key \ K : SameForGuards(n, s, k)
    BY <1>2 DEF ActivatedFacts, SameForGuards
<1>4. ASSUME t # None, NEW k \in K
      PROVE  ActiveClaim(n, k).token # t
  <2>1. PICK j \in J : Active(s, j) /\ ActiveClaim(s, j).token = t
      BY <1>4 DEF MayRun, OwnerMayRun, Holds
  <2>2. t.epoch <= s.lastEpoch
    <3>1. ValidRecord(s, j)
        BY <1>1 DEF ValidSnapshot
    <3> QED
        BY <1>1, <2>1, <3>1, ActiveSlots DEF ValidRecord
  <2>3. ActiveClaim(n, k) = NewClaim(s, r)
      BY <1>2 DEF ActivatedFacts
  <2>4. ActiveClaim(n, k).token.epoch = s.lastEpoch + 1
      BY <2>3 DEF NewClaim, NewToken
  <2> QED
      BY <1>1, <2>2, <2>4
<1>5. MayRun(n, J, t)
    BY <1>3, <1>4, MayRunKept
<1> QED
    BY <1>5 DEF n

LEMMA MayRunFinished ==
    ASSUME NEW s, SoundSnapshot(s), NEW K \in SUBSET Key, NEW J \in SUBSET Key, J # {},
           NEW t \in Token \cup {None}, NEW u \in Token, NEW end \in EndName,
           Owned(s, KindOfEnd(end), u) = K,
           MutationKeys(K) \cap MutationKeys(J) = {}, MayRun(s, J, t)
    PROVE  MayRun(Finished(s, K, u, end), J, t)
<1> DEFINE n == Finished(s, K, u, end)
<1>1. FinishedFacts(n, s, K, u, end)
    BY FinishedKeys DEF SoundSnapshot
<1> HIDE DEF n
<1>2. ASSUME NEW k \in Key \ K
      PROVE  SameForGuards(n, s, k)
    BY <1>1 DEF FinishedFacts, KeptAt, SameForGuards
<1>3. ASSUME NEW k \in K
      PROVE  ~Active(n, k)
    BY <1>1 DEF FinishedFacts, EndedAt
<1>4. MayRun(n, J, t)
    BY <1>2, <1>3, MayRunKept
<1> QED
    BY <1>4 DEF n

(* Only a guard runs a body. *)
BodiesGuarded == \A p \in Procs : pc[p] = "body" => call[p] \in GuardCall

GuardInv == BodiesGuarded /\ GuardStaysAdmitted

LEMMA GuardInit == Init => GuardInv
    BY DEF Init, GuardInv, BodiesGuarded, GuardStaysAdmitted

LEMMA BodiesStep == TypeInv /\ BodiesGuarded /\ [Next]_vars => BodiesGuarded'
<1> SUFFICES ASSUME TypeInv, BodiesGuarded, [Next]_vars, NEW p \in Procs, pc'[p] = "body"
             PROVE  call'[p] \in GuardCall
    BY DEF BodiesGuarded
<1>1. (pc[p] = "body" /\ call'[p] = call[p]) \/ Admit(p)
    BY DEF Next, Step, Start, StartActivate, StartEnd, StartGuard, StartInspect, Begin,
           AcquireKey, LoadState, Activate, End, Admit, Refuse, Inspect, Publish, Reject, Leave,
           FinishBody, Cancel, Reply, Crash, Drop, vars, TypeInv, TypeOK
<1>2. CASE Admit(p)
    BY <1>2, CallCases DEF Admit, Leave, TypeInv, CallsPresent
<1> QED
    BY <1>1, <1>2 DEF BodiesGuarded

(* Two calls that hold all of their locks have no lock in common. *)
LEMMA CallsApart ==
    ASSUME LockInv, NEW p \in Procs, NEW q \in Procs, p # q,
           pc[p] \in {"deciding", "body"}, pc[q] \in {"deciding", "body"}
    PROVE  LockSet(call[p]) \cap LockSet(call[q]) = {}
<1>1. LockSet(call[p]) \subseteq Held(p) /\ LockSet(call[q]) \subseteq Held(q)
    BY DEF LockInv
<1>2. Held(p) \cap Held(q) = {}
    BY DEF Held
<1> QED
    BY <1>1, <1>2

LEMMA GuardStep ==
    TypeInv /\ LockInv /\ SoundSnapshot(disk) /\ GuardInv /\ [Next]_vars => GuardInv'
<1> SUFFICES ASSUME TypeInv, LockInv, SoundSnapshot(disk), GuardInv, [Next]_vars,
                    NEW p \in Procs, pc'[p] = "body"
             PROVE  MayRun(disk', call'[p].keys, call'[p].token)
    BY BodiesStep DEF GuardInv, GuardStaysAdmitted
<1>1. (pc[p] = "body" /\ call'[p] = call[p]) \/ Admit(p)
    BY DEF Next, Step, Start, StartActivate, StartEnd, StartGuard, StartInspect, Begin,
           AcquireKey, LoadState, Activate, End, Admit, Refuse, Inspect, Publish, Reject, Leave,
           FinishBody, Cancel, Reply, Crash, Drop, vars, TypeInv, TypeOK
<1>2. CASE Admit(p)
    BY <1>2 DEF Admit, Leave, LockInv
<1>3. CASE pc[p] = "body" /\ call'[p] = call[p] /\ disk' = disk
    BY <1>3 DEF GuardInv, GuardStaysAdmitted
<1>4. CASE pc[p] = "body" /\ call'[p] = call[p] /\ disk' # disk
  <2>1. PICK q \in Procs : pc[q] = "deciding" /\ (ActivatesDisk(q) \/ EndsDisk(q))
      BY <1>4, DiskChanges
  <2>2. call[p] \in GuardCall /\ MayRun(disk, call[p].keys, call[p].token)
      BY <1>4 DEF GuardInv, BodiesGuarded, GuardStaysAdmitted
  <2>3. call[p].keys \in KeySets /\ call[p].token \in Token \cup {None} /\ call[p].name = "guard"
      BY <2>2 DEF GuardCall
  <2>4. LockSet(call[p]) = MutationKeys(call[p].keys)
      BY <2>3 DEF LockSet
  <2>5. p # q /\ LockSet(call[p]) \cap LockSet(call[q]) = {}
      BY <1>4, <2>1, CallsApart
  <2>6. CASE ActivatesDisk(q)
    <3>1. call[q].keys \in KeySets /\ call[q].req \in Request /\ call[q].name \in Kind
        BY <2>6 DEF ActivatesDisk, ActivateCall
    <3>2. LockSet(call[q]) = MutationKeys(call[q].keys)
        BY <3>1 DEF LockSet, Kind
    <3> QED
        BY <1>4, <2>2, <2>3, <2>4, <2>5, <2>6, <3>1, <3>2, KeySetKeys, MayRunActivated DEF ActivatesDisk
  <2>7. CASE EndsDisk(q)
    <3>1. call[q].keys \in KeySets /\ call[q].token \in Token /\ call[q].name \in EndName
        BY <2>7 DEF EndsDisk, EndCall
    <3>2. LockSet(call[q]) = MutationKeys(call[q].keys)
        BY <3>1 DEF LockSet, EndName, TombstoneKind
    <3> QED
        BY <1>4, <2>2, <2>3, <2>4, <2>5, <2>7, <3>1, <3>2, KeySetKeys, MayRunFinished DEF EndsDisk, Endable
  <2> QED
      BY <2>1, <2>6, <2>7
<1> QED
    BY <1>1, <1>2, <1>3, <1>4

-------------------------------------------------------------------------------
(* The theorems.                                                            *)

Inv == TypeInv /\ LockInv /\ SoundSnapshot(disk) /\ GuardInv

LEMMA Inductive == Spec => []Inv
<1>1. Init => Inv
    BY TypeInit, LockInit, SoundInit, GuardInit DEF Inv
<1>2. Inv /\ [Next]_vars => Inv'
    BY TypeStep, LockStep, SoundStep, GuardStep DEF Inv
<1> QED
    BY <1>1, <1>2, PTL DEF Spec

(* A repository and one of its branches are never claimed by two tokens. *)
THEOREM HierarchySafety == Spec => []HierarchyExclusion
<1>1. Inv => HierarchyExclusion
    BY DEF Inv, SoundSnapshot, HierarchySafe, HierarchyExclusion
<1> QED
    BY <1>1, Inductive, PTL

(* What admitted guarded work stays true for as long as it runs: fences drain
   mutations, and a claim is never ended or promoted under its owner's work. *)
THEOREM GuardSafety == Spec => []GuardStaysAdmitted
<1>1. Inv => GuardStaysAdmitted
    BY DEF Inv, GuardInv
<1> QED
    BY <1>1, Inductive, PTL

(* Guarded operations on overlapping keys never run at once. *)
THEOREM GuardExclusion == Spec => []GuardsExclusive
<1>1. ASSUME Inv, NEW p \in Procs, NEW q \in Procs, p # q, pc[p] = "body", pc[q] = "body"
      PROVE  ~Overlap(call[p].keys, call[q].keys)
  <2>1. \A x \in {p, q} : /\ call[x].keys \in SUBSET Key
                          /\ LockSet(call[x]) = MutationKeys(call[x].keys)
      BY <1>1, KeySetKeys DEF Inv, GuardInv, BodiesGuarded, GuardCall, LockSet
  <2>2. LockSet(call[p]) \cap LockSet(call[q]) = {}
      BY <1>1, CallsApart DEF Inv
  <2> QED
      BY <2>1, <2>2, OverlapShares
<1>2. Inv => GuardsExclusive
    BY <1>1 DEF GuardsExclusive
<1> QED
    BY <1>2, Inductive, PTL

(* validateSnapshot accepts every snapshot an admissible call computes, so
   neither writeState nor a later loadState can refuse the authority's work. *)
THEOREM NeverRefused == Spec => []NeverRefusesItself
<1>1. ASSUME Inv, NEW p \in Procs, pc[p] = "deciding"
      PROVE  LET s == snap[p]
                 c == call[p]
             IN  /\ ValidSnapshot(s)
                 /\ /\ c.name \in Kind
                    /\ OperationReusable(s, c.keys, c.req) /\ HierarchyFree(s, c.keys)
                    /\ Claimable(s, c.keys, c.req, c.name) /\ ~AlreadyHeld(s, c.keys, c.req, c.name)
                    => ValidSnapshot(Activated(s, c.keys, c.req, c.name))
                 /\ c.name \in EndName /\ Endable(s, c.keys, c.token, c.name)
                    => ValidSnapshot(Finished(s, c.keys, c.token, c.name))
  <2>1. SoundSnapshot(snap[p]) /\ call[p] \in Call
      BY <1>1 DEF Inv, LockInv, TypeInv, CallsPresent
  <2>2. call[p].keys \in SUBSET Key /\ call[p].keys # {}
      BY <2>1, CallCases, KeySetKeys
  <2>3. call[p].name \in Kind => call[p].req \in Request
      BY <2>1, CallCases DEF ActivateCall
  <2>4. call[p].name \in EndName => call[p].token \in Token
      BY <2>1, CallCases DEF EndCall
  <2> QED
      BY <2>1, <2>2, <2>3, <2>4, ActivatedSound, FinishedSound
         DEF MayActivate, Endable, SoundSnapshot
<1>2. Inv => NeverRefusesItself
    BY <1>1 DEF NeverRefusesItself
<1> QED
    BY <1>2, Inductive, PTL

-------------------------------------------------------------------------------
(* What a write may never do.                                               *)

LEMMA ActivatedForgetsNothing ==
    ASSUME Inv, NEW p \in Procs, ActivatesDisk(p)
    PROVE  ForgetsNothing
<1> DEFINE K == call[p].keys
           r == call[p].req
<1>1. /\ K \in SUBSET Key /\ r \in Request /\ call[p].name \in Kind
      /\ disk \in Snapshot /\ ValidSnapshot(disk)
    BY KeySetKeys DEF ActivatesDisk, ActivateCall, Inv, SoundSnapshot
<1>2. ActivatedFacts(disk', disk, K, r, call[p].name)
    BY <1>1, ActivatedKeys DEF ActivatesDisk
<1>3. disk'.binding = Bound(disk, r) /\ disk'.tombstones = disk.tombstones
    BY <1>2 DEF ActivatedFacts
<1>4. \A o \in Ops : disk.binding[o] # None => disk'.binding[o] = disk.binding[o]
    BY <1>1, <1>3 DEF Bound, Snapshot, Request
<1>5. ASSUME NEW k \in Key
      PROVE  disk.epoch[k] <= disk'.epoch[k]
  <2>1. ValidRecord(disk, k) /\ disk.epoch[k] \in Nat /\ disk.lastEpoch \in Nat
      BY <1>1 DEF ValidSnapshot, Snapshot
  <2>2. disk'.epoch[k] \in {disk.epoch[k], disk.lastEpoch + 1}
      BY <1>2 DEF ActivatedFacts
  <2> QED
      BY <2>1, <2>2 DEF ValidRecord
<1> QED
    BY <1>3, <1>4, <1>5 DEF ForgetsNothing

LEMMA FinishedForgetsNothing ==
    ASSUME Inv, NEW p \in Procs, EndsDisk(p)
    PROVE  ForgetsNothing
<1> DEFINE K == call[p].keys
           t == call[p].token
           end == call[p].name
<1>1. /\ K \in SUBSET Key /\ t \in Token /\ end \in EndName
      /\ disk \in Snapshot /\ ValidSnapshot(disk) /\ Owned(disk, KindOfEnd(end), t) = K
    BY KeySetKeys DEF EndsDisk, EndCall, Endable, Inv, SoundSnapshot
<1>2. FinishedFacts(disk', disk, K, t, end)
    BY <1>1, FinishedKeys DEF EndsDisk
<1>3. ASSUME NEW k \in Key
      PROVE  disk.tombstones[k] \subseteq disk'.tombstones[k] /\ disk.epoch[k] <= disk'.epoch[k]
  <2>1. ValidRecord(disk, k) /\ disk.epoch[k] \in Nat /\ disk.lastEpoch \in Nat
      BY <1>1 DEF ValidSnapshot, Snapshot
  <2>2. CASE k \in K
      BY <1>2, <2>1, <2>2 DEF FinishedFacts, EndedAt, ValidRecord
  <2>3. CASE k \notin K
      BY <1>2, <2>1, <2>3 DEF FinishedFacts, KeptAt
  <2> QED
      BY <2>2, <2>3
<1> QED
    BY <1>2, <1>3 DEF ForgetsNothing, FinishedFacts

LEMMA NothingForgotten == Inv /\ [Next]_vars => [ForgetsNothing]_vars
<1> SUFFICES ASSUME Inv, [Next]_vars
             PROVE  ForgetsNothing \/ UNCHANGED vars
    OBVIOUS
<1>1. CASE disk' = disk
  <2>1. \A k \in Key : disk.epoch[k] \in Nat
      BY DEF Inv, SoundSnapshot, Snapshot
  <2> QED
      BY <1>1, <2>1 DEF ForgetsNothing
<1>2. CASE disk' # disk
    BY <1>2, DiskChanges, ActivatedForgetsNothing, FinishedForgetsNothing DEF Inv
<1> QED
    BY <1>1, <1>2

(* Bindings and tombstones are permanent and epochs never go back, in every
   interleaving of the processes that share the file. *)
THEOREM HistoryIsKept == Spec => HistoryKept
    BY NothingForgotten, Inductive, PTL DEF Spec, HistoryKept

(* A terminal operation never becomes active again. *)
THEOREM TerminalIsFinal == Spec => TerminalForever
<1>1. ASSUME Inv, Inv', [Next]_vars
      PROVE  [KeepsTerminal]_vars
  <2>1. CASE UNCHANGED vars
      BY <2>1
  <2>2. CASE ForgetsNothing
    <3> SUFFICES ASSUME NEW o \in Ops, TerminalOp(disk, o)
                 PROVE  TerminalOp(disk', o) /\ ~ActiveOp(disk', o)
        BY DEF KeepsTerminal
    <3>1. TerminalOp(disk', o)
        BY <2>2 DEF ForgetsNothing, TerminalOp
    <3>2. ValidSnapshot(disk')
        BY <1>1 DEF Inv, SoundSnapshot
    <3> QED
        BY <3>1, <3>2 DEF ValidSnapshot
  <2> QED
      BY <1>1, <2>1, <2>2, NothingForgotten
<1> QED
    BY <1>1, Inductive, PTL DEF Spec, TerminalForever

(* A claim ends only by a call that presents its token or by the promotion of
   its own operation. *)
THEOREM OwnersEnd == Spec => OnlyOwnerEnds
<1>1. ASSUME Inv, [Next]_vars
      PROVE  [EndsOwnClaims]_vars
  <2> SUFFICES ASSUME NEW k \in Key, Active(disk, k), ActiveClaim(disk', k) # ActiveClaim(disk, k)
               PROVE  \E p \in Procs :
                        /\ pc[p] = "deciding"
                        /\ \/ call[p].name \in EndName /\ call[p].token = ActiveClaim(disk, k).token
                           \/ /\ call[p].name = "fence"
                              /\ SameOperation(ActiveClaim(disk, k).token, call[p].req)
      BY DEF EndsOwnClaims
  <2>1. disk' # disk /\ disk \in Snapshot /\ ValidSnapshot(disk)
      BY <1>1 DEF Inv, SoundSnapshot
  <2>2. PICK p \in Procs : pc[p] = "deciding" /\ (ActivatesDisk(p) \/ EndsDisk(p))
      BY <1>1, <2>1, DiskChanges DEF Inv
  <2>3. CASE ActivatesDisk(p)
    <3>1. ActivatedFacts(disk', disk, call[p].keys, call[p].req, call[p].name)
        BY <2>1, <2>3, KeySetKeys, ActivatedKeys DEF ActivatesDisk, ActivateCall
    <3>2. k \in call[p].keys
        BY <3>1 DEF ActivatedFacts
    <3>3. call[p].name = "fence" /\ HeldBy(disk, k, "reservation", call[p].req)
        BY <2>3, <3>2 DEF ActivatesDisk, MayActivate, Claimable
    <3> QED
        BY <2>2, <3>3 DEF HeldBy
  <2>4. CASE EndsDisk(p)
    <3>1. /\ call[p].name \in EndName /\ call[p].keys \in SUBSET Key /\ call[p].token \in Token
          /\ Owned(disk, KindOfEnd(call[p].name), call[p].token) = call[p].keys
        BY <2>4, KeySetKeys DEF EndsDisk, EndCall, Endable
    <3>2. FinishedFacts(disk', disk, call[p].keys, call[p].token, call[p].name)
        BY <2>1, <2>4, <3>1, FinishedKeys DEF EndsDisk
    <3>3. k \in call[p].keys
        BY <3>2 DEF FinishedFacts, KeptAt
    <3>4. Slot(disk, KindOfEnd(call[p].name))[k] # None
          /\ Slot(disk, KindOfEnd(call[p].name))[k].token = call[p].token
        BY <3>1, <3>3 DEF Owned
    <3>5. ActiveClaim(disk, k).token = call[p].token
        BY <2>1, <3>4, ActiveSlots DEF Slot, ActiveClaim
    <3> QED
        BY <2>2, <3>1, <3>5
  <2> QED
      BY <2>2, <2>3, <2>4
<1> QED
    BY <1>1, Inductive, PTL DEF Spec, OnlyOwnerEnds

-------------------------------------------------------------------------------
(* What callers were told, and what the file says of it.                    *)

(* A claim a caller was told of, or is about to be. *)
Known(i) == i \in issued \/ \E p \in Procs : pc[p] = "reply" /\ i \in Told(call[p], answer[p])

(* A snapshot agrees with a claim somebody was told of: it is there as it was
   granted or not at all, and a fence that is not there was returned. *)
Standing(s, i) ==
    /\ i.token.epoch <= s.lastEpoch
    /\ Holds(s, i.token) \in {{}, i.keys}
    /\ \A k \in Key : Active(s, k) /\ ActiveClaim(s, k).token.epoch = i.token.epoch
                      => ActiveClaim(s, k).token = i.token /\ ActiveKind(s, k) = i.kind
    /\ i.kind = "fence" => Holds(s, i.token) = i.keys \/ TerminalOp(s, i.token.op)

(* The claim a caller is told of. *)
IssueOf(K, r, kind, epoch) ==
    [kind |-> kind, keys |-> K, token |-> [op |-> r.op, digest |-> r.digest, epoch |-> epoch]]

(* One epoch, one claim: what activate writes has an epoch of its own. *)
OneEpoch(s) == \A j, k \in Key :
    /\ Active(s, j) /\ Active(s, k)
    /\ ActiveClaim(s, j).token.epoch = ActiveClaim(s, k).token.epoch
    => ActiveClaim(s, j) = ActiveClaim(s, k) /\ ActiveKind(s, j) = ActiveKind(s, k)

(* No epoch lies beyond the last one. *)
LEMMA EpochsBounded ==
    ASSUME NEW s, SoundSnapshot(s), NEW k \in Key
    PROVE  /\ s.lastEpoch \in Nat /\ s.epoch[k] \in Nat /\ s.epoch[k] <= s.lastEpoch
           /\ Active(s, k) => /\ ActiveClaim(s, k) \in Claim
                              /\ ActiveClaim(s, k).token.epoch <= s.lastEpoch
                              /\ ActiveClaim(s, k).token.epoch \in Nat
<1>1. s.lastEpoch \in Nat /\ s.epoch[k] \in Nat /\ s.epoch[k] <= s.lastEpoch
    BY DEF SoundSnapshot, ValidSnapshot, ValidRecord, Snapshot
<1> QED
    BY <1>1, ActiveSlots DEF SoundSnapshot

(* What an admissible activation replaces at a key is nothing, or the whole
   reservation of the operation that is promoted. *)
LEMMA Replaced ==
    ASSUME NEW s, SoundSnapshot(s), NEW K \in SUBSET Key, NEW r \in Request, NEW kind \in Kind,
           MayActivate(s, K, r, kind), NEW k \in K, Active(s, k)
    PROVE  /\ kind = "fence" /\ ActiveKind(s, k) = "reservation"
           /\ ActiveClaim(s, k).token.op = r.op
           /\ Holds(s, ActiveClaim(s, k).token) = K
<1>1. /\ OperationReusable(s, K, r) /\ ConsistentActive(s)
      /\ kind = "fence" /\ \A j \in K : HeldBy(s, j, "reservation", r)
    BY DEF MayActivate, Claimable, SoundSnapshot, ValidSnapshot
<1>2. \A j \in K : /\ Active(s, j) /\ ActiveClaim(s, j).token.op = r.op
                   /\ ActiveClaim(s, j) = ActiveClaim(s, k)
    BY <1>1 DEF HeldBy, SameOperation, ConsistentActive
<1>3. \A j \in Key : Active(s, j) /\ ActiveClaim(s, j).token = ActiveClaim(s, k).token => j \in K
    BY <1>1, <1>2 DEF OperationReusable
<1> QED
    BY <1>1, <1>2, <1>3 DEF Holds, HeldBy

LEMMA ActivatedOneEpoch ==
    ASSUME NEW s, SoundSnapshot(s), OneEpoch(s), NEW K \in SUBSET Key, NEW r \in Request,
           NEW kind \in Kind
    PROVE  OneEpoch(Activated(s, K, r, kind))
<1> DEFINE n == Activated(s, K, r, kind)
<1>1. ActivatedFacts(n, s, K, r, kind)
    BY ActivatedKeys DEF SoundSnapshot
<1>2. NewClaim(s, r).token.epoch = s.lastEpoch + 1
    BY DEF NewClaim, NewToken
<1> HIDE DEF n
<1>3. \A k \in K : ActiveClaim(n, k) = NewClaim(s, r) /\ ActiveKind(n, k) = kind
    BY <1>1 DEF ActivatedFacts
<1>4. \A k \in Key \ K : /\ Active(n, k) <=> Active(s, k)
                         /\ ActiveClaim(n, k) = ActiveClaim(s, k) /\ ActiveKind(n, k) = ActiveKind(s, k)
    BY <1>1 DEF ActivatedFacts
<1>5. \A k \in Key \ K : Active(n, k) => ActiveClaim(n, k).token.epoch # s.lastEpoch + 1
    BY <1>4, EpochsBounded
<1>6. OneEpoch(n)
    BY <1>2, <1>3, <1>4, <1>5 DEF OneEpoch
<1> QED
    BY <1>6 DEF n

LEMMA FinishedOneEpoch ==
    ASSUME NEW s, SoundSnapshot(s), OneEpoch(s), NEW K \in SUBSET Key, NEW t \in Token,
           NEW end \in EndName, Owned(s, KindOfEnd(end), t) = K
    PROVE  OneEpoch(Finished(s, K, t, end))
<1> DEFINE n == Finished(s, K, t, end)
<1>1. FinishedFacts(n, s, K, t, end)
    BY FinishedKeys DEF SoundSnapshot
<1> HIDE DEF n
<1>2. \A k \in Key : Active(n, k) => /\ Active(s, k) /\ ActiveClaim(n, k) = ActiveClaim(s, k)
                                     /\ ActiveKind(n, k) = ActiveKind(s, k)
    BY <1>1 DEF FinishedFacts, EndedAt, KeptAt
<1>3. OneEpoch(n)
    BY <1>2 DEF OneEpoch
<1> QED
    BY <1>3 DEF n

(* An activation leaves every claim standing that somebody was told of. *)
LEMMA ActivatedStanding ==
    ASSUME NEW s, SoundSnapshot(s), NEW K \in SUBSET Key, NEW r \in Request, NEW kind \in Kind,
           MayActivate(s, K, r, kind), NEW i \in Issue, i.keys # {}, Standing(s, i)
    PROVE  Standing(Activated(s, K, r, kind), i)
<1> DEFINE n == Activated(s, K, r, kind)
<1>1. ActivatedFacts(n, s, K, r, kind)
    BY ActivatedKeys DEF SoundSnapshot
<1>2. NewClaim(s, r).token.epoch = s.lastEpoch + 1 /\ s.lastEpoch \in Nat /\ i.token.epoch \in Nat
    BY DEF NewClaim, NewToken, SoundSnapshot, Snapshot, Issue, Token
<1> HIDE DEF n
<1>3. \A k \in K : Active(n, k) /\ ActiveClaim(n, k).token.epoch # i.token.epoch
    BY <1>1, <1>2 DEF ActivatedFacts, Standing
<1>4. \A k \in Key \ K : /\ Active(n, k) <=> Active(s, k)
                         /\ ActiveClaim(n, k) = ActiveClaim(s, k) /\ ActiveKind(n, k) = ActiveKind(s, k)
    BY <1>1 DEF ActivatedFacts
<1>5. Holds(n, i.token) = Holds(s, i.token) \ K
    BY <1>3, <1>4 DEF Holds
<1>6. /\ Holds(n, i.token) = {} \/ Holds(n, i.token) = Holds(s, i.token)
      /\ i.kind = "fence" => Holds(n, i.token) = Holds(s, i.token)
  <2>1. ASSUME NEW k \in Holds(s, i.token) \cap K
        PROVE  Holds(s, i.token) = K /\ i.kind # "fence"
    <3>1. Active(s, k) /\ ActiveClaim(s, k).token = i.token /\ k \in Key
        BY DEF Holds
    <3>2. ActiveKind(s, k) = i.kind
        BY <3>1 DEF Standing
    <3> QED
        BY <3>1, <3>2, Replaced
  <2> QED
      BY <1>5, <2>1
<1>7. TerminalOp(s, i.token.op) => TerminalOp(n, i.token.op)
    BY <1>1 DEF ActivatedFacts, TerminalOp
<1>8. n.lastEpoch = s.lastEpoch + 1
    BY <1>1 DEF ActivatedFacts
<1>9. \A k \in Key : Active(n, k) /\ ActiveClaim(n, k).token.epoch = i.token.epoch
                     => ActiveClaim(n, k).token = i.token /\ ActiveKind(n, k) = i.kind
    BY <1>3, <1>4 DEF Standing
<1>10. Standing(n, i)
    BY <1>2, <1>6, <1>7, <1>8, <1>9 DEF Standing
<1> QED
    BY <1>10 DEF n

(* A token holds keys under one kind of claim only. *)
LEMMA OwnedHolds ==
    ASSUME NEW s, SoundSnapshot(s), NEW t \in Token, NEW kind \in Kind, Owned(s, kind, t) # {}
    PROVE  Holds(s, t) = Owned(s, kind, t) /\ \A k \in Holds(s, t) : ActiveKind(s, k) = kind
<1>1. s \in Snapshot /\ ValidSnapshot(s) /\ ConsistentActive(s)
    BY DEF SoundSnapshot, ValidSnapshot
<1>2. ASSUME NEW k \in Owned(s, kind, t)
      PROVE  k \in Holds(s, t) /\ ActiveKind(s, k) = kind
    BY <1>1, ActiveSlots DEF Owned, Holds, Slot, Kind, ActiveKind, ActiveClaim, Active
<1>3. PICK j \in Owned(s, kind, t) : TRUE
    OBVIOUS
<1>4. \A k \in Holds(s, t) : ActiveKind(s, k) = kind
    BY <1>1, <1>2, <1>3 DEF ConsistentActive, Holds
<1>5. Holds(s, t) \subseteq Owned(s, kind, t)
    BY <1>1, <1>4, ActiveSlots, NoneAssumption DEF Owned, Holds
<1> QED
    BY <1>2, <1>4, <1>5

(* The end of a claim leaves every claim standing that somebody was told of. *)
LEMMA FinishedStanding ==
    ASSUME NEW s, SoundSnapshot(s), NEW K \in SUBSET Key, K # {}, NEW t \in Token,
           NEW end \in EndName, Owned(s, KindOfEnd(end), t) = K,
           NEW i \in Issue, Standing(s, i)
    PROVE  Standing(Finished(s, K, t, end), i)
<1> DEFINE n == Finished(s, K, t, end)
<1>1. FinishedFacts(n, s, K, t, end)
    BY FinishedKeys DEF SoundSnapshot
<1> HIDE DEF n
<1>2. /\ \A k \in K : EndedAt(n, s, t, end, k) /\ ~Active(n, k)
      /\ \A k \in Key \ K : KeptAt(n, s, k)
      /\ \A k \in Key \ K : /\ Active(n, k) <=> Active(s, k)
                            /\ ActiveClaim(n, k) = ActiveClaim(s, k) /\ ActiveKind(n, k) = ActiveKind(s, k)
      /\ \A k \in Key : s.tombstones[k] \subseteq n.tombstones[k]
    BY <1>1 DEF FinishedFacts, EndedAt, KeptAt
<1>3. KindOfEnd(end) \in Kind
    BY DEF KindOfEnd, Kind
<1>4. Holds(s, t) = K /\ \A k \in K : ActiveKind(s, k) = KindOfEnd(end) /\ Active(s, k)
                                          /\ ActiveClaim(s, k).token = t
    BY <1>3, OwnedHolds DEF Holds
<1>5. Holds(n, i.token) = Holds(s, i.token) \ K
    BY <1>2 DEF Holds
<1>6. ASSUME i.token # t
      PROVE  Standing(n, i)
  <2>1. Holds(n, i.token) = Holds(s, i.token)
      BY <1>4, <1>5, <1>6 DEF Holds
  <2>2. TerminalOp(s, i.token.op) => TerminalOp(n, i.token.op)
      BY <1>2 DEF TerminalOp
  <2>3. i.token.epoch <= n.lastEpoch
      BY <1>1 DEF FinishedFacts, Standing, SoundSnapshot, Snapshot, Issue, Token
  <2> QED
      BY <1>2, <2>1, <2>2, <2>3 DEF Standing
<1>7. ASSUME i.token = t
      PROVE  Standing(n, i)
  <2>1. Holds(n, i.token) = {}
      BY <1>4, <1>5, <1>7
  <2>2. i.kind = "fence" => TerminalOp(n, i.token.op)
    <3> SUFFICES ASSUME i.kind = "fence" PROVE TerminalOp(n, i.token.op)
        OBVIOUS
    <3>1. PICK k \in K : TRUE
        OBVIOUS
    <3>2. ActiveKind(s, k) = "fence"
        BY <1>4, <1>7, <3>1 DEF Standing
    <3>3. end = "returned"
        BY <1>4, <3>1, <3>2 DEF KindOfEnd
    <3>4. EndTombstone(s, t, end) \in n.tombstones[k]
        BY <1>2, <3>1, <3>3 DEF EndedAt
    <3> QED
        BY <1>7, <3>4 DEF TerminalOp, EndTombstone
  <2>3. i.token.epoch <= n.lastEpoch
      BY <1>1 DEF FinishedFacts, Standing, SoundSnapshot, Snapshot, Issue, Token
  <2> QED
      BY <1>2, <2>1, <2>2, <2>3 DEF Standing
<1>8. Standing(n, i)
    BY <1>6, <1>7
<1> QED
    BY <1>8 DEF n

(* What the caller of an admissible activation will be told of is standing. *)
LEMMA FreshStanding ==
    ASSUME NEW s, SoundSnapshot(s), NEW K \in SUBSET Key, K # {}, NEW r \in Request,
           NEW kind \in Kind
    PROVE  /\ Standing(Activated(s, K, r, kind), IssueOf(K, r, kind, s.lastEpoch + 1))
           /\ Owned(Activated(s, K, r, kind), kind, NewToken(s, r)) = K
<1> DEFINE n == Activated(s, K, r, kind)
           i == IssueOf(K, r, kind, s.lastEpoch + 1)
<1>1. ActivatedFacts(n, s, K, r, kind) /\ s.lastEpoch \in Nat
    BY ActivatedKeys DEF SoundSnapshot, Snapshot
<1>2. /\ i.token = NewToken(s, r) /\ i.token.epoch = s.lastEpoch + 1 /\ i.kind = kind /\ i.keys = K
      /\ NewClaim(s, r).token = NewToken(s, r)
    BY DEF NewClaim, NewToken, IssueOf
<1>z. NewClaim(s, r) # None
    BY <1>1, NoneAssumption DEF NewClaim, NewToken, Claim, Token, Request
<1> HIDE DEF n, i
<1>3. \A k \in K : /\ Active(n, k) /\ ActiveClaim(n, k).token = i.token /\ ActiveKind(n, k) = kind
                   /\ \/ n.reservation[k] = NewClaim(s, r) /\ n.fence[k] = None
                      \/ n.reservation[k] = None /\ n.fence[k] = NewClaim(s, r)
    BY <1>1, <1>2 DEF ActivatedFacts
<1>4. \A k \in Key \ K :
          /\ Active(n, k) => ActiveClaim(n, k).token.epoch # i.token.epoch
          /\ n.reservation[k] = s.reservation[k] /\ n.fence[k] = s.fence[k]
          /\ Active(n, k) <=> Active(s, k)
    BY <1>1, <1>2, EpochsBounded DEF ActivatedFacts
<1>5. Holds(n, i.token) = K
    BY <1>3, <1>4 DEF Holds
<1>6. Standing(n, i)
    BY <1>1, <1>2, <1>3, <1>4, <1>5 DEF ActivatedFacts, Standing
<1>7. \A k \in K : Slot(n, kind)[k] = NewClaim(s, r)
    BY <1>3, <1>z DEF ActiveKind, Slot, Kind
<1>8. \A k \in Key \ K : Slot(n, kind)[k] # None => Slot(n, kind)[k].token # i.token
  <2> SUFFICES ASSUME NEW k \in Key \ K, Slot(n, kind)[k] # None
               PROVE  Slot(n, kind)[k].token.epoch # i.token.epoch
      OBVIOUS
  <2>1. Slot(n, kind)[k] = Slot(s, kind)[k]
      BY <1>4 DEF Slot
  <2>2. Slot(s, kind)[k] = ActiveClaim(s, k) /\ Active(s, k)
      BY <2>1, ActiveSlots DEF SoundSnapshot, Slot, ActiveClaim, Active
  <2> QED
      BY <1>1, <1>2, <2>1, <2>2, EpochsBounded
<1>9. Owned(n, kind, i.token) = K
    BY <1>2, <1>7, <1>8, <1>z DEF Owned
<1> QED
    BY <1>2, <1>6, <1>9 DEF n, i

(* So is what a caller is told of again. *)
LEMMA ReplayedStanding ==
    ASSUME NEW s, SoundSnapshot(s), OneEpoch(s), NEW K \in KeySets, NEW r \in Request,
           NEW kind \in Kind, OperationReusable(s, K, r), AlreadyHeld(s, K, r, kind),
           NEW k \in K
    PROVE  LET i == IssueOf(K, r, kind, ActiveClaim(s, k).token.epoch) IN
           /\ Standing(s, i) /\ i \in Issue /\ i.token = ActiveClaim(s, k).token
           /\ Holds(s, i.token) = K
           /\ Owned(s, kind, i.token) = K
<1> DEFINE e == ActiveClaim(s, k).token.epoch
           i == IssueOf(K, r, kind, e)
<1>0. K \subseteq Key
    BY KeySetKeys
<1>1. \A j \in K : HeldBy(s, j, kind, r) /\ ActiveClaim(s, j).token = ActiveClaim(s, k).token
    BY DEF AlreadyHeld
<1>2. ActiveClaim(s, k).token \in Token
    BY <1>0, <1>1, EpochsBounded DEF HeldBy, Claim
<1>3. i.token = ActiveClaim(s, k).token /\ i.kind = kind /\ i.keys = K
    BY <1>1, <1>2 DEF IssueOf, HeldBy, SameOperation, Token
<1> HIDE DEF i
<1>4. Holds(s, i.token) \subseteq K
    BY <1>1, <1>3 DEF OperationReusable, Holds, HeldBy, SameOperation
<1>5. Holds(s, i.token) = K
    BY <1>0, <1>1, <1>3, <1>4 DEF Holds, HeldBy
<1>6. Standing(s, i)
  <2>1. i.token.epoch <= s.lastEpoch
      BY <1>0, <1>1, <1>3, EpochsBounded DEF HeldBy
  <2>2. ASSUME NEW j \in Key, Active(s, j), ActiveClaim(s, j).token.epoch = i.token.epoch
        PROVE  ActiveClaim(s, j).token = i.token /\ ActiveKind(s, j) = i.kind
      BY <1>0, <1>1, <1>3, <2>2 DEF OneEpoch, HeldBy
  <2> QED
      BY <1>3, <1>5, <2>1, <2>2 DEF Standing
<1>7. \A j \in K : Slot(s, kind)[j] = ActiveClaim(s, j) /\ Slot(s, kind)[j] # None
    BY <1>0, <1>1, ActiveSlots DEF SoundSnapshot, HeldBy, Active
<1>8. Owned(s, kind, i.token) = Holds(s, i.token)
  <2>1. k \in Owned(s, kind, i.token)
      BY <1>0, <1>3, <1>7 DEF Owned
  <2> QED
      BY <1>2, <1>3, <2>1, OwnedHolds
<1>9. i \in Issue
    BY <1>2, <1>3 DEF Issue, IssueOf, i, Token
<1> QED
    BY <1>3, <1>5, <1>6, <1>8, <1>9 DEF i

(* Two claims with one epoch of which one is told of again are the same. *)
LEMMA ReplayedKnown ==
    ASSUME NEW s, NEW i \in Issue, NEW j \in Issue, i.keys # {},
           Standing(s, i), Standing(s, j), i.token.epoch = j.token.epoch,
           Holds(s, i.token) = i.keys
    PROVE  i = j
<1>1. PICK k \in Holds(s, i.token) : TRUE
    OBVIOUS
<1>2. /\ k \in Key /\ Active(s, k) /\ ActiveClaim(s, k).token = i.token
    BY <1>1 DEF Holds
<1>3. j.token = i.token /\ j.kind = i.kind
    BY <1>2 DEF Standing
<1>4. j.keys = i.keys
    BY <1>1, <1>3 DEF Standing
<1> QED
    BY <1>3, <1>4 DEF Issue

(* A fence is not granted to an operation that was told of one. *)
LEMMA FencedAlready ==
    ASSUME NEW s, SoundSnapshot(s), NEW K \in SUBSET Key, NEW r \in Request,
           OperationReusable(s, K, r), NEW j \in Issue, Standing(s, j),
           j.kind = "fence", j.token.op = r.op
    PROVE  /\ ~MayActivate(s, K, r, "fence")
           /\ Holds(s, j.token) = j.keys
<1>1. ~TerminalOp(s, r.op) /\ Holds(s, j.token) = j.keys
    BY DEF OperationReusable, Standing
<1>2. PICK k \in j.keys : TRUE
    BY KeySetKeys DEF Issue
<1>3. k \in Key /\ Active(s, k) /\ ActiveClaim(s, k).token = j.token
    BY <1>1, <1>2 DEF Holds
<1>4. k \in K /\ ActiveKind(s, k) = "fence"
    BY <1>3 DEF OperationReusable, Standing
<1>5. "fence" \in Kind
    BY DEF Kind
<1> QED
    BY <1>1, <1>3, <1>4, <1>5, Replaced

(* An operation that is told of a fence again is told of the same one. *)
LEMMA FencedAgain ==
    ASSUME NEW s, SoundSnapshot(s), NEW i \in Issue, NEW j \in Issue,
           Standing(s, i), Standing(s, j), i.token.op = j.token.op,
           Holds(s, i.token) = i.keys, Holds(s, j.token) = j.keys
    PROVE  i = j
<1>1. PICK k \in i.keys, l \in j.keys : TRUE
    BY KeySetKeys DEF Issue
<1>2. /\ k \in Key /\ Active(s, k) /\ ActiveClaim(s, k).token = i.token
      /\ l \in Key /\ Active(s, l) /\ ActiveClaim(s, l).token = j.token
    BY <1>1 DEF Holds
<1>3. i.token = j.token
    BY <1>2 DEF SoundSnapshot, ValidSnapshot, ConsistentActive
<1> QED
    BY <1>1, <1>3, ReplayedKnown

-------------------------------------------------------------------------------
(* What callers are told, step by step.                                     *)

(* What an activation tells. *)
LEMMA ToldIs ==
    ASSUME NEW c \in Call, NEW epoch \in Nat
    PROVE  /\ Told(c, epoch) \subseteq Issue
           /\ c.name \notin Kind \/ epoch = 0 => Told(c, epoch) = {}
           /\ c.name \in Kind /\ epoch # 0 =>
                  Told(c, epoch) = {IssueOf(c.keys, c.req, c.name, epoch)}
    BY CallCases DEF Told, IssueOf, Issue, ActivateCall, Request, Token

LEMMA KnownIssue == ASSUME TypeInv, NEW i, Known(i) PROVE i \in Issue
    BY ToldIs DEF Known, TypeInv, TypeOK, CallsPresent

(* Only an activation tells what was not known. *)
LEMMA KnownBefore ==
    ASSUME TypeInv, TypeInv', LockInv, BodiesGuarded, [Next]_vars, NEW i, Known(i)'
    PROVE  Known(i) \/ \E p \in Procs : Activate(p) /\ i \in Told(call[p], answer'[p])
<1> USE DEF TypeInv, TypeOK
<1>1. CASE UNCHANGED vars
    BY <1>1 DEF vars, Known
<1>2. ASSUME NEW p \in Procs, Start(p)
      PROVE  Known(i)
  <2>1. PICK c : Begin(p, c)
      BY <1>2 DEF Start, StartActivate, StartEnd, StartGuard, StartInspect
  <2> QED
      BY <2>1 DEF Begin, Known
<1>3. ASSUME NEW p \in Procs, AcquireKey(p) \/ LoadState(p)
      PROVE  Known(i)
    BY <1>3 DEF AcquireKey, LoadState, Known
<1>4. ASSUME NEW p \in Procs, pc[p] = "deciding", ~Activate(p),
             Activate(p) \/ End(p) \/ Admit(p) \/ Refuse(p) \/ Inspect(p)
      PROVE  Known(i)
  <2>1. UNCHANGED <<issued, call>> /\ call[p].name \notin Kind
      BY <1>4 DEF End, Admit, Refuse, Inspect, Publish, Reject, Leave, EndName, Kind, TombstoneKind
  <2>2. \A q \in Procs \ {p} : pc'[q] = pc[q] /\ answer'[q] = answer[q]
      BY <1>4 DEF End, Admit, Refuse, Inspect, Publish, Reject, Leave
  <2> QED
      BY <2>1, <2>2 DEF Known, Told
<1>5. ASSUME NEW p \in Procs, Activate(p), i \notin Told(call[p], answer'[p])
      PROVE  Known(i)
  <2>1. UNCHANGED <<issued, call>> /\ \A q \in Procs \ {p} : pc'[q] = pc[q] /\ answer'[q] = answer[q]
      BY <1>5 DEF Activate, Publish, Reject, Leave
  <2> QED
      BY <1>5, <2>1 DEF Known
<1>6. ASSUME NEW p \in Procs, FinishBody(p)
      PROVE  Known(i)
    BY <1>6, CallCases DEF FinishBody, Known, Told, BodiesGuarded, GuardCall, Kind
<1>7. ASSUME NEW p \in Procs, Cancel(p)
      PROVE  Known(i)
    BY <1>7 DEF Cancel, Known, Told, LockInv
<1>8. ASSUME NEW p \in Procs, Reply(p) \/ Crash(p)
      PROVE  Known(i)
    BY <1>8 DEF Reply, Crash, Drop, Known
<1> QED
    BY <1>1, <1>2, <1>3, <1>4, <1>5, <1>6, <1>7, <1>8
       DEF Next, Step, Activate, End, Admit, Refuse, Inspect

(* What a process tells is new to the file, or stands in it already. *)
LEMMA Telling ==
    ASSUME TypeInv, LockInv, SoundSnapshot(disk), OneEpoch(disk), NEW p \in Procs, Activate(p),
           answer'[p] # 0
    PROVE  LET i == IssueOf(call[p].keys, call[p].req, call[p].name, answer'[p]) IN
           /\ OperationReusable(disk, call[p].keys, call[p].req)
           /\ call[p] \in ActivateCall /\ i \in Issue /\ pc'[p] = "reply" /\ UNCHANGED call
           /\ Owned(disk', call[p].name, i.token) = call[p].keys
           /\ \/ ActivatesDisk(p) /\ answer'[p] = disk.lastEpoch + 1
              \/ /\ UNCHANGED disk /\ Standing(disk, i) /\ Holds(disk, i.token) = i.keys
<1> DEFINE K == call[p].keys
           r == call[p].req
           kind == call[p].name
<1>1. /\ snap[p] = disk /\ call[p] \in ActivateCall /\ kind \in Kind
      /\ K \in KeySets /\ r \in Request /\ K \subseteq Key /\ K # {}
      /\ disk.lastEpoch \in Nat
    BY CallCases, KeySetKeys
       DEF Activate, LockInv, TypeInv, TypeOK, CallsPresent, ActivateCall, Snapshot
<1>2. CASE OperationReusable(disk, K, r) /\ AlreadyHeld(disk, K, r, kind)
           /\ \E k \in K : Leave(p, "reply", ActiveClaim(disk, k).token.epoch) /\ UNCHANGED disk
  <2>1. PICK k \in K : Leave(p, "reply", ActiveClaim(disk, k).token.epoch)
      BY <1>2
  <2>2. /\ answer'[p] = ActiveClaim(disk, k).token.epoch /\ pc'[p] = "reply" /\ UNCHANGED call
      BY <2>1 DEF Leave, TypeInv, TypeOK
  <2>3. LET i == IssueOf(K, r, kind, answer'[p]) IN
           /\ Standing(disk, i) /\ i \in Issue /\ i.token = ActiveClaim(disk, k).token
           /\ Holds(disk, i.token) = K
           /\ Owned(disk, kind, i.token) = K
      BY <1>1, <1>2, <2>2, ReplayedStanding
  <2>4. IssueOf(K, r, kind, answer'[p]).keys = K
      BY DEF IssueOf
  <2> QED
      BY <1>1, <1>2, <2>2, <2>3, <2>4
<1>3. CASE /\ OperationReusable(disk, K, r) /\ HierarchyFree(disk, K) /\ Claimable(disk, K, r, kind)
           /\ Publish(p, Activated(disk, K, r, kind), disk.lastEpoch + 1)
  <2>1. /\ answer'[p] = disk.lastEpoch + 1 /\ pc'[p] = "reply" /\ UNCHANGED call
        /\ disk' = Activated(disk, K, r, kind)
      BY <1>3 DEF Publish, Reject, Leave, TypeInv, TypeOK
  <2>2. ActivatesDisk(p)
      BY <1>1, <1>3, <2>1 DEF ActivatesDisk, MayActivate
  <2>3. IssueOf(K, r, kind, answer'[p]).token = NewToken(disk, r)
      BY <2>1 DEF IssueOf, NewToken
  <2>4. IssueOf(K, r, kind, answer'[p]) \in Issue
      BY <1>1, <2>1 DEF IssueOf, Issue, Token, Request
  <2> QED
      BY <1>1, <1>3, <2>1, <2>2, <2>3, <2>4, FreshStanding
<1>4. CASE Reject(p)
    BY <1>4 DEF Reject, Leave, TypeInv, TypeOK
<1> QED
    BY <1>1, <1>2, <1>3, <1>4 DEF Activate

KnownInv ==
    /\ OneEpoch(disk)
    /\ \A i \in Issue : Known(i) => Standing(disk, i)
    /\ \A i, j \in Issue : Known(i) /\ Known(j) =>
          /\ i.token.epoch = j.token.epoch => i = j
          /\ i.kind = "fence" /\ j.kind = "fence" /\ i.token.op = j.token.op => i = j

LEMMA KnownInit == Init => KnownInv
<1> SUFFICES ASSUME Init
             PROVE  KnownInv
    OBVIOUS
<1>1. \A i : ~Known(i)
    BY DEF Init, Known
<1>2. \A k \in Key : ~Active(disk, k)
    BY DEF Init, EmptySnapshot, Active, ActiveClaim
<1> QED
    BY <1>1, <1>2 DEF KnownInv, OneEpoch

(* Claims that were told of stay standing when the file changes. *)
LEMMA StaysStanding ==
    ASSUME Inv, KnownInv, [Next]_vars
    PROVE  OneEpoch(disk') /\ \A i \in Issue : Known(i) => Standing(disk', i)
<1>0. TypeInv /\ LockInv /\ SoundSnapshot(disk) /\ OneEpoch(disk)
      /\ \A i \in Issue : Known(i) => Standing(disk, i)
    BY DEF Inv, KnownInv
<1>1. CASE disk' = disk
    BY <1>0, <1>1
<1>2. CASE disk' # disk
  <2>1. PICK p \in Procs : ActivatesDisk(p) \/ EndsDisk(p)
      BY <1>0, <1>2, DiskChanges
  <2>2. CASE ActivatesDisk(p)
      BY <1>0, <2>2, KeySetKeys, ActivatedOneEpoch, ActivatedStanding
         DEF ActivatesDisk, ActivateCall, Issue
  <2>3. CASE EndsDisk(p)
      BY <1>0, <2>3, KeySetKeys, FinishedOneEpoch, FinishedStanding
         DEF EndsDisk, EndCall, Endable
  <2> QED
      BY <2>1, <2>2, <2>3
<1> QED
    BY <1>1, <1>2

(* A claim that a process is about to tell differs in its epoch from those
   known, unless it is one of them; so does a fence in its operation. *)
LEMMA ToldApart ==
    ASSUME Inv, KnownInv, NEW p \in Procs, Activate(p),
           NEW i \in Told(call[p], answer'[p]), NEW j \in Issue, Known(j)
    PROVE  /\ i.token.epoch = j.token.epoch => i = j
           /\ i.kind = "fence" /\ j.kind = "fence" /\ i.token.op = j.token.op => i = j
<1> DEFINE K == call[p].keys
           r == call[p].req
           kind == call[p].name
<1>0. /\ TypeInv /\ LockInv /\ SoundSnapshot(disk) /\ OneEpoch(disk) /\ Standing(disk, j)
      /\ answer'[p] # 0 /\ i = IssueOf(K, r, kind, answer'[p])
    BY DEF Inv, KnownInv, Told, IssueOf
<1>1. /\ OperationReusable(disk, K, r) /\ call[p] \in ActivateCall /\ i \in Issue
      /\ \/ ActivatesDisk(p) /\ answer'[p] = disk.lastEpoch + 1
         \/ Standing(disk, i) /\ Holds(disk, i.token) = i.keys
    BY <1>0, Telling
<1>2. /\ K \in SUBSET Key /\ r \in Request /\ disk.lastEpoch \in Nat /\ j.token.epoch \in Nat
      /\ i.token.op = r.op /\ i.token.epoch = answer'[p] /\ i.kind = kind /\ i.keys # {}
    BY <1>0, <1>1, KeySetKeys DEF ActivateCall, SoundSnapshot, Snapshot, Issue, Token, IssueOf
<1>3. CASE ActivatesDisk(p) /\ answer'[p] = disk.lastEpoch + 1
  <2>1. i.token.epoch # j.token.epoch
      BY <1>0, <1>2, <1>3 DEF Standing
  <2>2. ~(i.kind = "fence" /\ j.kind = "fence" /\ i.token.op = j.token.op)
      BY <1>0, <1>1, <1>2, <1>3, FencedAlready DEF ActivatesDisk
  <2> QED
      BY <2>1, <2>2
<1>4. CASE Standing(disk, i) /\ Holds(disk, i.token) = i.keys
  <2>1. j.kind = "fence" /\ i.token.op = j.token.op => Holds(disk, j.token) = j.keys
      BY <1>0, <1>1, <1>2, FencedAlready
  <2> QED
      BY <1>0, <1>1, <1>2, <1>4, <2>1, ReplayedKnown, FencedAgain
<1> QED
    BY <1>1, <1>3, <1>4

LEMMA KnownStep == Inv /\ Inv' /\ KnownInv /\ [Next]_vars => KnownInv'
<1> SUFFICES ASSUME Inv, Inv', KnownInv, [Next]_vars
             PROVE  KnownInv'
    OBVIOUS
<1>1. TypeInv /\ TypeInv' /\ LockInv /\ BodiesGuarded /\ SoundSnapshot(disk) /\ OneEpoch(disk)
    BY DEF Inv, GuardInv, KnownInv
<1>2. OneEpoch(disk') /\ \A i \in Issue : Known(i) => Standing(disk', i)
    BY StaysStanding
<1>3. ASSUME NEW p \in Procs, Activate(p), NEW i \in Told(call[p], answer'[p])
      PROVE  Standing(disk', i)
  <2>1. answer'[p] # 0 /\ i = IssueOf(call[p].keys, call[p].req, call[p].name, answer'[p])
      BY <1>3 DEF Told, IssueOf
  <2>2. /\ call[p] \in ActivateCall
        /\ \/ ActivatesDisk(p) /\ answer'[p] = disk.lastEpoch + 1
           \/ UNCHANGED disk /\ Standing(disk, i)
      BY <1>1, <1>3, <2>1, Telling
  <2> QED
      BY <1>1, <2>1, <2>2, FreshStanding, KeySetKeys DEF ActivatesDisk, ActivateCall
<1>4. ASSUME NEW i \in Issue, Known(i)'
      PROVE  Standing(disk', i)
    BY <1>1, <1>2, <1>3, <1>4, KnownBefore
<1> DEFINE Same(i, j) ==
        /\ i.token.epoch = j.token.epoch => i = j
        /\ i.kind = "fence" /\ j.kind = "fence" /\ i.token.op = j.token.op => i = j
<1>5. ASSUME NEW i \in Issue, NEW j \in Issue, Known(i)', Known(j)'
      PROVE  Same(i, j)
  <2> DEFINE Tells(p, x) == Activate(p) /\ x \in Told(call[p], answer'[p])
  <2>1. CASE Known(i) /\ Known(j)
      BY <2>1 DEF KnownInv
  <2>2. ASSUME NEW p \in Procs, Tells(p, i), Known(j)
        PROVE  Same(i, j)
      BY <2>2, ToldApart
  <2>3. ASSUME NEW p \in Procs, Tells(p, j), Known(i)
        PROVE  Same(i, j)
      BY <2>3, ToldApart
  <2>4. ASSUME NEW p \in Procs, Tells(p, i), NEW q \in Procs, Tells(q, j)
        PROVE  Same(i, j)
    <3>1. p = q
        BY <1>1, <2>4 DEF Activate, LockInv
    <3>2. i = j
        BY <2>4, <3>1 DEF Told
    <3> QED
        BY <3>2
  <2>5. /\ Known(i) \/ \E p \in Procs : Tells(p, i)
        /\ Known(j) \/ \E p \in Procs : Tells(p, j)
      BY <1>1, <1>5, KnownBefore
  <2> HIDE DEF Tells, Same
  <2> QED
      BY <2>1, <2>2, <2>3, <2>4, <2>5
<1> QED
    BY <1>2, <1>4, <1>5 DEF KnownInv

LEMMA KnownInvariance == Spec => [](Inv /\ KnownInv)
    BY KnownInit, KnownStep, Inductive, PTL DEF Spec

(* A claim is held on all keys it was granted for or on none: no promotion,
   release, crash or lost reply leaves a part of it. *)
THEOREM WholeClaims == Spec => []AllOrNothing
<1>1. Inv /\ KnownInv => AllOrNothing
    BY DEF Inv, TypeInv, TypeOK, KnownInv, Known, Standing, AllOrNothing
<1> QED
    BY <1>1, KnownInvariance, PTL

(* Two claims that callers were told of never carry the same epoch. *)
THEOREM EpochsName == Spec => []EpochNamesClaim
<1>1. Inv /\ KnownInv => EpochNamesClaim
    BY DEF Inv, TypeInv, TypeOK, KnownInv, Known, EpochNamesClaim
<1> QED
    BY <1>1, KnownInvariance, PTL

(* Whoever learns the fence of an operation, by a first call or by a retry
   after a lost reply, learns the same one. *)
THEOREM OneFence == Spec => []FencedOnce
<1>1. Inv /\ KnownInv => FencedOnce
    BY DEF Inv, TypeInv, TypeOK, KnownInv, Known, FencedOnce
<1> QED
    BY <1>1, KnownInvariance, PTL

-------------------------------------------------------------------------------
(* What a call reports while it has its locks.                              *)

(* What a write keeps at other keys, and what it puts at its own. *)
WrittenAt(n, s, K) ==
    /\ \A k \in Key \ K : /\ n.reservation[k] = s.reservation[k] /\ n.fence[k] = s.fence[k]
                          /\ n.tombstones[k] = s.tombstones[k] /\ n.epoch[k] = s.epoch[k]
                          /\ Active(n, k) <=> Active(s, k)
    /\ \A k \in K, kind \in Kind :
          Slot(n, kind)[k] # None => Slot(n, kind)[k].token.epoch = s.lastEpoch + 1

LEMMA Written ==
    ASSUME TypeInv, LockInv, SoundSnapshot(disk), [Next]_vars, disk' # disk
    PROVE  \E p \in Procs : /\ pc[p] = "deciding" /\ UNCHANGED call
                            /\ call[p].keys \subseteq LockSet(call[p])
                            /\ WrittenAt(disk', disk, call[p].keys)
<1>1. PICK p \in Procs : pc[p] = "deciding" /\ UNCHANGED call /\ (ActivatesDisk(p) \/ EndsDisk(p))
    BY DiskChanges
<1>2. call[p].keys \subseteq LockSet(call[p])
    BY DEF LockSet, MutationKeys
<1>3. CASE ActivatesDisk(p)
  <2>1. /\ call[p].keys \in SUBSET Key
        /\ ActivatedFacts(disk', disk, call[p].keys, call[p].req, call[p].name)
      BY <1>3, KeySetKeys, ActivatedKeys DEF ActivatesDisk, ActivateCall, SoundSnapshot
  <2>2. \A k \in call[p].keys, kind \in Kind :
            Slot(disk', kind)[k] # None => Slot(disk', kind)[k].token.epoch = disk.lastEpoch + 1
      BY <2>1 DEF ActivatedFacts, Slot, NewClaim, NewToken
  <2>3. WrittenAt(disk', disk, call[p].keys)
      BY <2>1, <2>2 DEF ActivatedFacts, WrittenAt
  <2> QED
      BY <1>1, <1>2, <2>3
<1>4. CASE EndsDisk(p)
  <2>1. FinishedFacts(disk', disk, call[p].keys, call[p].token, call[p].name)
      BY <1>4, KeySetKeys, FinishedKeys DEF EndsDisk, EndCall, Endable, SoundSnapshot
  <2>2. \A k \in call[p].keys, kind \in Kind : Slot(disk', kind)[k] = None
      BY <2>1 DEF FinishedFacts, EndedAt, Slot
  <2>3. WrittenAt(disk', disk, call[p].keys)
      BY <2>1, <2>2 DEF FinishedFacts, KeptAt, WrittenAt
  <2> QED
      BY <1>1, <1>2, <2>3
<1> QED
    BY <1>1, <1>3, <1>4

(* The answer of one call. *)
TrueFor(s, c, epoch) ==
    /\ c.name \in Kind => \A i \in Told(c, epoch) : Owned(s, c.name, i.token) = c.keys
    /\ c.name \in TombstoneKind => \A k \in c.keys :
          [kind |-> c.name, token |-> c.token, advanced |-> epoch] \in s.tombstones[k]
    /\ c.name = "released" => \A k \in c.keys : s.epoch[k] = epoch /\ ~Active(s, k)

(* A write at other keys leaves the answer true. *)
LEMMA StaysTrue ==
    ASSUME NEW s, NEW n, NEW K \in SUBSET Key, WrittenAt(n, s, K), NEW c \in Call, NEW epoch,
           TrueFor(s, c, epoch), c.keys \cap K = {}, s.lastEpoch \in Nat,
           \A i \in Told(c, epoch) : i.token.epoch \in Nat /\ i.token.epoch <= s.lastEpoch
    PROVE  TrueFor(n, c, epoch)
<1>1. c.keys \in SUBSET Key
    BY CallCases, KeySetKeys
<1>2. ASSUME c.name \in Kind, NEW i \in Told(c, epoch)
      PROVE  Owned(n, c.name, i.token) = c.keys
  <2>1. Owned(s, c.name, i.token) = c.keys
      BY <1>2 DEF TrueFor
  <2>2. \A k \in Key \ K : Slot(n, c.name)[k] = Slot(s, c.name)[k]
      BY DEF WrittenAt, Slot
  <2>3. \A k \in K : ~(Slot(n, c.name)[k] # None /\ Slot(n, c.name)[k].token = i.token)
      BY <1>2 DEF WrittenAt
  <2> QED
      BY <1>1, <2>1, <2>2, <2>3 DEF Owned
<1> QED
    BY <1>1, <1>2 DEF TrueFor, WrittenAt

(* A call that ends a claim reports what it has written, or found written. *)
LEMMA EndTrue ==
    ASSUME TypeInv, LockInv, SoundSnapshot(disk), NEW p \in Procs, End(p), answer'[p] # 0
    PROVE  TrueFor(disk', call'[p], answer'[p])
<1> DEFINE K == call[p].keys
           t == call[p].token
           end == call[p].name
<1>1. /\ snap[p] = disk /\ call[p] \in EndCall /\ end \in EndName /\ end \notin Kind
      /\ K \in SUBSET Key /\ K # {} /\ t \in Token /\ UNCHANGED call
    BY CallCases, KeySetKeys
       DEF End, LockInv, TypeInv, TypeOK, CallsPresent, EndCall, EndName, TombstoneKind, Kind,
           Publish, Reject, Leave
<1>2. CASE /\ end # "released" /\ EndedAlready(disk, K, t, end)
           /\ Leave(p, "reply", ReplayedEpoch(disk, t)) /\ UNCHANGED disk
  <2>1. answer'[p] = ReplayedEpoch(disk, t)
      BY <1>2 DEF Leave, TypeInv, TypeOK
  <2>2. ASSUME NEW k \in K
        PROVE  [kind |-> end, token |-> t, advanced |-> ReplayedEpoch(disk, t)] \in disk.tombstones[k]
    <3>1. PICK b \in disk.tombstones[k] : b.token = t
        BY <1>2 DEF EndedAlready, EndedOn
    <3>2. k \in Key /\ b \in Ends(disk, t) /\ b \in Tombstone
        BY <1>1, <3>1 DEF Ends, SoundSnapshot, Snapshot
    <3>3. \A a \in Ends(disk, t) : a = b
        BY <3>1, <3>2 DEF Ends, SoundSnapshot, ValidSnapshot, ConsistentTerminal
    <3>4. b.kind = end /\ b.advanced = ReplayedEpoch(disk, t)
        BY <1>2, <3>2, <3>3 DEF EndedAlready, ReplayedEpoch
    <3> QED
        BY <3>1, <3>2, <3>4 DEF Tombstone
  <2> QED
      BY <1>1, <1>2, <2>1, <2>2 DEF TrueFor
<1>3. CASE /\ Endable(disk, K, t, end)
           /\ Publish(p, Finished(disk, K, t, end), disk.lastEpoch + 1)
  <2>1. answer'[p] = disk.lastEpoch + 1 /\ disk' = Finished(disk, K, t, end)
      BY <1>3 DEF Publish, Reject, Leave, TypeInv, TypeOK
  <2>2. \A k \in K : EndedAt(disk', disk, t, end, k)
      BY <1>1, <1>3, <2>1, FinishedKeys DEF Endable, SoundSnapshot, FinishedFacts
  <2> QED
      BY <1>1, <2>1, <2>2 DEF TrueFor, EndedAt, EndTombstone, TombstoneKind
<1>4. CASE Reject(p)
    BY <1>4 DEF Reject, Leave, TypeInv, TypeOK
<1> QED
    BY <1>1, <1>2, <1>3, <1>4 DEF End

LEMMA ActivateTrue ==
    ASSUME TypeInv, LockInv, SoundSnapshot(disk), OneEpoch(disk), NEW p \in Procs, Activate(p),
           answer'[p] # 0
    PROVE  TrueFor(disk', call'[p], answer'[p])
<1>1. /\ call[p].name \in Kind /\ UNCHANGED call
      /\ Told(call[p], answer'[p]) = {IssueOf(call[p].keys, call[p].req, call[p].name, answer'[p])}
    BY DEF Activate, Publish, Reject, Leave, Told, IssueOf
<1>2. Owned(disk', call[p].name,
            IssueOf(call[p].keys, call[p].req, call[p].name, answer'[p]).token) = call[p].keys
    BY Telling
<1> QED
    BY <1>1, <1>2 DEF TrueFor, Kind, TombstoneKind

(* AnswerTrue is preserved by every step. *)
LEMMA AnswerStep == Inv /\ Inv' /\ KnownInv /\ AnswerTrue /\ [Next]_vars => AnswerTrue'
<1> SUFFICES ASSUME Inv, Inv', KnownInv, AnswerTrue, [Next]_vars,
                    NEW p \in Procs, pc'[p] = "reply", answer'[p] # 0
             PROVE  TrueFor(disk', call'[p], answer'[p])
    BY DEF AnswerTrue, TrueFor
<1>0. /\ TypeInv /\ LockInv /\ LockInv' /\ SoundSnapshot(disk) /\ OneEpoch(disk) /\ BodiesGuarded
    BY DEF Inv, GuardInv, KnownInv
<1>1. \/ pc[p] = "reply" /\ UNCHANGED <<call[p], answer[p]>>
      \/ Activate(p) \/ End(p)
      \/ pc[p] \in {"body", "deciding"} /\ call'[p] = call[p] /\ call[p].name \in {"guard", "inspect"}
  <2>1. \A q \in Procs : FinishBody(q) => call[q].name = "guard" /\ UNCHANGED call
      BY <1>0 DEF FinishBody, BodiesGuarded, GuardCall
  <2>2. \A q \in Procs : Cancel(q) => answer[q] = 0 /\ UNCHANGED answer
      BY <1>0 DEF Cancel, LockInv
  <2>3. \A q \in Procs : Start(q) => \E c : Begin(q, c)
      BY DEF Start, StartActivate, StartEnd, StartGuard, StartInspect
  <2>4. \A q \in Procs : Activate(q) \/ End(q) => q = p \/ UNCHANGED <<pc[p], call[p], answer[p]>>
      BY <1>0 DEF Activate, End, Publish, Reject, Leave, TypeInv, TypeOK
  <2>5. \A q \in Procs : Admit(q) \/ Refuse(q) \/ Inspect(q) =>
            \/ q = p /\ pc[p] = "deciding" /\ call'[p] = call[p] /\ call[p].name \in {"guard", "inspect"}
            \/ UNCHANGED <<pc[p], call[p], answer[p]>>
      BY <1>0 DEF Admit, Refuse, Inspect, Reject, Leave, TypeInv, TypeOK
  <2>6. \A q \in Procs : AcquireKey(q) \/ LoadState(q) \/ Reply(q) \/ Crash(q) \/ (\E c : Begin(q, c)) =>
            UNCHANGED <<pc[p], call[p], answer[p]>>
      BY <1>0 DEF AcquireKey, LoadState, Reply, Crash, Drop, Begin, TypeInv, TypeOK
  <2>7. \A q \in Procs : FinishBody(q) \/ Cancel(q) =>
            (q = p /\ (pc[p] = "body" \/ Cancel(p))) \/ UNCHANGED <<pc[p], call[p], answer[p]>>
      BY <1>0 DEF FinishBody, Cancel, TypeInv, TypeOK
  <2> QED
      BY <2>1, <2>2, <2>3, <2>4, <2>5, <2>6, <2>7 DEF Next, Step, vars
<1>2. CASE Activate(p)
    BY <1>0, <1>2, ActivateTrue
<1>3. CASE End(p)
    BY <1>0, <1>3, EndTrue
<1>4. CASE call'[p].name \in {"guard", "inspect"}
    BY <1>4 DEF TrueFor, Kind, TombstoneKind
<1>5. CASE pc[p] = "reply" /\ UNCHANGED <<call[p], answer[p]>>
  <2>1. TrueFor(disk, call[p], answer[p]) /\ call[p] \in Call /\ disk.lastEpoch \in Nat
      BY <1>0, <1>5 DEF AnswerTrue, TrueFor, TypeInv, CallsPresent, SoundSnapshot, Snapshot
  <2>2. CASE disk' = disk
      BY <1>5, <2>1, <2>2
  <2>3. CASE disk' # disk /\ call[p].name \notin {"guard", "inspect"}
    <3>1. PICK q \in Procs : /\ pc[q] = "deciding" /\ UNCHANGED call
                             /\ call[q].keys \subseteq LockSet(call[q])
                             /\ WrittenAt(disk', disk, call[q].keys)
        BY <1>0, <2>3, Written
    <3>2. LockSet(call[q]) \subseteq Held(q) /\ LockSet(call[p]) \subseteq Held(p) /\ p # q
        BY <1>0, <1>5, <3>1 DEF LockInv
    <3>3. call[p].keys \subseteq LockSet(call[p])
        BY DEF LockSet, MutationKeys
    <3>4. call[p].keys \cap call[q].keys = {} /\ call[q].keys \in SUBSET Key
        BY <3>1, <3>2, <3>3 DEF Held
    <3>5. \A i \in Told(call[p], answer[p]) : i.token.epoch \in Nat /\ i.token.epoch <= disk.lastEpoch
      <4>1. ASSUME NEW i \in Told(call[p], answer[p])
            PROVE  i.token.epoch \in Nat /\ i.token.epoch <= disk.lastEpoch
        <5>1. Known(i)
            BY <1>5, <4>1 DEF Known
        <5>2. i \in Issue
            BY <1>0, <5>1, KnownIssue
        <5> QED
            BY <5>1, <5>2 DEF KnownInv, Standing, Issue, Token
      <4> QED
          BY <4>1
    <3> QED
        BY <1>5, <2>1, <3>1, <3>4, <3>5, StaysTrue
  <2> QED
      BY <1>4, <1>5, <2>2, <2>3
<1> QED
    BY <1>1, <1>2, <1>3, <1>4, <1>5

(* What a successful call reports is what the file says while the call has its
   locks, a replayed call and a first one alike. *)
THEOREM AnswersTrue == Spec => []AnswerTrue
<1>1. Init => AnswerTrue
    BY DEF Init, AnswerTrue
<1> QED
    BY <1>1, AnswerStep, KnownInvariance, PTL DEF Spec

-------------------------------------------------------------------------------
(* Waiting.                                                                 *)

(* Every set of numbers has a least one. *)
LEMMA LeastNumber == ASSUME NEW S, S \subseteq Nat, S # {}
                     PROVE  \E m \in S : \A k \in S : m <= k
<1> DEFINE R == OpToRel(<, Nat)
<1>0. R = {ss \in Nat \X Nat : ss[1] < ss[2]}
    BY DEF OpToRel
<1>1. IsWellFoundedOn(R, Nat)
    BY NatLessThanWellFounded
<1> HIDE DEF R
<1>2. PICK m \in S : \A k \in S : <<k, m>> \notin R
    BY <1>1, WFMin
<1>3. ASSUME NEW k \in S
      PROVE  m <= k
  <2>1. k \in Nat /\ m \in Nat
      OBVIOUS
  <2>2. <<k, m>> \in Nat \X Nat /\ <<k, m>>[1] = k /\ <<k, m>>[2] = m
      BY <2>1
  <2> QED
      BY <1>0, <1>2, <2>1, <2>2
<1> QED
    BY <1>3

(* The lock a process waits for comes first among those it lacks. *)
LEMMA NextIsFirst ==
    ASSUME NEW p \in Procs, Missing(p) # {}, Missing(p) \subseteq Key
    PROVE  NextKey(p) \in Missing(p) /\ \A j \in Missing(p) : Rank[NextKey(p)] <= Rank[j]
<1> DEFINE S == {Rank[k] : k \in Missing(p)}
<1>1. S \subseteq Nat /\ S # {}
    BY RankAssumption
<1>2. PICK m \in S : \A n \in S : m <= n
    BY <1>1, LeastNumber
<1>3. \E k \in Missing(p) : \A j \in Missing(p) : Rank[k] <= Rank[j]
    BY <1>2
<1> QED
    BY <1>3 DEF NextKey

(* Locks are taken upwards, and nobody keeps one after a call. *)
Climbing == \A p \in Procs :
    /\ pc[p] = "idle" => Held(p) = {}
    /\ pc[p] = "locking" => /\ Held(p) \subseteq LockSet(call[p])
                            /\ \A h \in Held(p), m \in Missing(p) : Rank[h] < Rank[m]

LEMMA LockSetKeys == ASSUME NEW c \in Call PROVE LockSet(c) \in SUBSET Key
    BY CallCases, KeySetKeys, MutationKeysKeys DEF LockSet

LEMMA ClimbingStep == TypeInv /\ Climbing /\ [Next]_vars => Climbing'
<1> SUFFICES ASSUME TypeInv, Climbing, [Next]_vars
             PROVE  Climbing'
    OBVIOUS
<1> USE ProcsAssumption DEF TypeInv, TypeOK
<1>1. CASE UNCHANGED vars
    BY <1>1 DEF vars, Climbing, Held, Missing, LockSet
<1>2. ASSUME NEW p \in Procs, Start(p)
      PROVE  Climbing'
  <2>1. PICK c : Begin(p, c)
      BY <1>2 DEF Start, StartActivate, StartEnd, StartGuard, StartInspect
  <2>2. \A q \in Procs : Held(q)' = Held(q) /\ (q # p => pc'[q] = pc[q] /\ call'[q] = call[q])
      BY <2>1 DEF Begin, Held
  <2>3. Held(p) = {} /\ pc'[p] = "locking"
      BY <2>1 DEF Begin, Climbing
  <2> QED
      BY <2>2, <2>3 DEF Climbing, Missing, LockSet
<1>3. ASSUME NEW p \in Procs, AcquireKey(p)
      PROVE  Climbing'
  <2>1. UNCHANGED <<pc, call>> /\ pc[p] = "locking" /\ Missing(p) # {}
      BY <1>3 DEF AcquireKey
  <2>2. Missing(p) \subseteq Key
      BY <2>1, LockSetKeys DEF Missing, CallsPresent
  <2>3. NextKey(p) \in Missing(p) /\ \A j \in Missing(p) : Rank[NextKey(p)] <= Rank[j]
      BY <2>1, <2>2, NextIsFirst
  <2>4. Held(p)' = Held(p) \cup {NextKey(p)} /\ \A q \in Procs \ {p} : Held(q)' = Held(q)
      BY <1>3, <2>2, <2>3 DEF AcquireKey, Held
  <2>5. \A q \in Procs : LockSet(call[q])' = LockSet(call[q])
      BY <2>1 DEF LockSet
  <2>6. Missing(p)' = Missing(p) \ {NextKey(p)} /\ \A q \in Procs \ {p} : Missing(q)' = Missing(q)
      BY <2>4, <2>5 DEF Missing
  <2>7. \A m \in Missing(p) \ {NextKey(p)} : Rank[NextKey(p)] < Rank[m]
    <3>1. \A m \in Missing(p) : Rank[m] \in Nat /\ Rank[NextKey(p)] \in Nat
        BY <2>2, <2>3, RankAssumption
    <3> QED
        BY <2>2, <2>3, <3>1, RankAssumption
  <2>8. NextKey(p) \in LockSet(call[p])
      BY <2>3 DEF Missing
  <2> QED
      BY <2>1, <2>4, <2>5, <2>6, <2>7, <2>8 DEF Climbing
<1>4. ASSUME NEW p \in Procs,
             LoadState(p) \/ Activate(p) \/ End(p) \/ Admit(p) \/ Refuse(p) \/ Inspect(p)
                 \/ FinishBody(p) \/ Cancel(p)
      PROVE  Climbing'
  <2>1. /\ UNCHANGED <<keyLock, call>> /\ pc'[p] \notin {"idle", "locking"}
        /\ \A q \in Procs \ {p} : pc'[q] = pc[q]
      BY <1>4 DEF LoadState, Activate, End, Admit, Refuse, Inspect, FinishBody, Cancel,
             Publish, Reject, Leave
  <2> QED
      BY <2>1 DEF Climbing, Held, Missing, LockSet
<1>5. ASSUME NEW p \in Procs, Reply(p) \/ Crash(p)
      PROVE  Climbing'
  <2>1. Drop(p)
      BY <1>5 DEF Reply, Crash
  <2>2. Held(p)' = {} /\ \A q \in Procs \ {p} : Held(q)' = Held(q)
      BY <2>1 DEF Drop, Held
  <2>3. pc'[p] = "idle" /\ \A q \in Procs \ {p} : pc'[q] = pc[q] /\ call'[q] = call[q]
      BY <2>1 DEF Drop
  <2> QED
      BY <2>2, <2>3 DEF Climbing, Missing, LockSet
<1> QED
    BY <1>1, <1>2, <1>3, <1>4, <1>5 DEF Next, Step

(* Whenever some call is under way, some process can take its next step without
   waiting for another: the holder of the highest lock that is waited for. *)
THEOREM NoCycleOfWaits ==
    ASSUME NEW Top \in Nat, \A k \in Key : Rank[k] <= Top
    PROVE  Spec => []NoLockCycle
<1>1. ASSUME TypeInv, LockInv, Climbing, NEW p0 \in Procs, pc[p0] # "idle",
             \A p \in Procs : ~CanStep(p)
      PROVE  FALSE
  <2> DEFINE Waiting == {p \in Procs : pc[p] # "idle"}
             S == {Top - Rank[NextKey(p)] : p \in Waiting}
  <2>1. ASSUME NEW p \in Waiting
        PROVE  pc[p] = "locking" /\ call[p] \in Call
      BY <1>1 DEF CanStep, TypeInv, TypeOK, PC, CallsPresent
  <2>2. stateLock = None
      BY <1>1, <2>1 DEF LockInv, TypeInv, TypeOK
  <2>3. ASSUME NEW p \in Waiting
        PROVE  Missing(p) # {} /\ keyLock[NextKey(p)] # None
      BY <1>1, <2>1, <2>2 DEF CanStep
  <2>4. ASSUME NEW p \in Waiting
        PROVE  /\ NextKey(p) \in Missing(p) /\ NextKey(p) \in Key /\ Rank[NextKey(p)] \in Nat
               /\ Top - Rank[NextKey(p)] \in Nat
    <3>1. Missing(p) \subseteq Key
        BY <2>1, LockSetKeys DEF Missing
    <3>2. NextKey(p) \in Missing(p) /\ NextKey(p) \in Key
        BY <2>3, <3>1, NextIsFirst
    <3>3. Rank[NextKey(p)] \in Nat /\ Rank[NextKey(p)] <= Top
        BY <3>2, RankAssumption
    <3> QED
        BY <3>2, <3>3
  <2>5. PICK m \in S : \A n \in S : m <= n
    <3>1. S \subseteq Nat /\ S # {}
        BY <1>1, <2>4
    <3> QED
        BY <3>1, LeastNumber
  <2>6. PICK p \in Waiting : m = Top - Rank[NextKey(p)]
      BY <2>5
  <2>7. PICK q \in Procs : keyLock[NextKey(p)] = q
      BY <1>1, <2>3, <2>4, <2>6 DEF TypeInv, TypeOK
  <2>8. NextKey(p) \in Held(q) /\ q \in Waiting
      BY <1>1, <2>4, <2>6, <2>7 DEF Held, Climbing
  <2>9. Rank[NextKey(p)] < Rank[NextKey(q)]
      BY <1>1, <2>1, <2>4, <2>8 DEF Climbing
  <2>10. Top - Rank[NextKey(p)] <= Top - Rank[NextKey(q)]
      BY <2>5, <2>6, <2>8
  <2> QED
      BY <2>4, <2>6, <2>8, <2>9, <2>10
<1>2. Inv /\ Climbing => NoLockCycle
    BY <1>1 DEF Inv, NoLockCycle
<1>3. Init => Climbing
    BY ProcsAssumption DEF Init, Climbing, Held
<1>4. Inv /\ Climbing /\ [Next]_vars => Climbing'
    BY ClimbingStep DEF Inv
<1> QED
    BY <1>2, <1>3, <1>4, Inductive, PTL DEF Spec
===============================================================================
