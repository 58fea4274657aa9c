---------------------------- MODULE LeaseAuthority ----------------------------
(***************************************************************************)
(* The decisions of the operation-lease authority (internal/lease): what a *)
(* stored snapshot is, when it is valid, and what each of the authority's  *)
(* operations makes of it.  Everything here is a function of one snapshot; *)
(* module Lease adds the processes, the locks and the file.                *)
(***************************************************************************)
EXTENDS Naturals, FiniteSets

CONSTANTS
    Repos,      \* repository identities (one per git common directory)
    Branches,   \* branch names, the same set in every repository
    Ops,        \* operation ids
    Digests,    \* plan fingerprints an operation id can be bound to
    Machines,   \* machine ids
    MaxEpoch,   \* math.MaxUint64, the last epoch that can be allocated
    None        \* nil: no claim, no token, no binding, no process

\* A key is a whole repository or one of its branches.
RepositoryKey(r) == [repository |-> r, branch |-> None]
BranchKey(r, b)  == [repository |-> r, branch |-> b]
Key   == [repository : Repos, branch : Branches \cup {None}]
Token == [op : Ops, digest : Digests, epoch : Nat \ {0}]
Claim == [token : Token, machine : Machines]
Kind  == {"reservation", "fence"}
TombstoneKind == {"aborted", "returned"}
Tombstone == [kind : TombstoneKind, token : Token, advanced : Nat]

\* A record that was never written has epoch 0.
Snapshot == [lastEpoch   : Nat,
             binding     : [Ops -> Digests \cup {None}],
             epoch       : [Key -> Nat],
             reservation : [Key -> Claim \cup {None}],
             fence       : [Key -> Claim \cup {None}],
             tombstones  : [Key -> SUBSET Tombstone]]

ASSUME NoneAssumption ==
    /\ None \notin Repos /\ None \notin Branches /\ None \notin Ops
    /\ None \notin Digests /\ None \notin Token /\ None \notin Claim
ASSUME MaxEpochAssumption == MaxEpoch \in Nat \ {0}

EmptySnapshot ==
    [lastEpoch   |-> 0,
     binding     |-> [o \in Ops |-> None],
     epoch       |-> [k \in Key |-> 0],
     reservation |-> [k \in Key |-> None],
     fence       |-> [k \in Key |-> None],
     tombstones  |-> [k \in Key |-> {}]]

IsRepository(k) == k.branch = None
RepositoryOf(k) == RepositoryKey(k.repository)

\* Seeded fault: a branch no longer brings its repository along.
MutationKeysAlone(K) == K

\* The keys a call locks: each branch brings its repository along, so that
\* everything that touches one repository passes through one lock.
MutationKeys(K) == K \cup {RepositoryOf(k) : k \in K}

\* Keys of the same repository of which one is the repository itself.
Related(j, k) ==
    /\ j.repository = k.repository
    /\ IsRepository(j) \/ IsRepository(k)
Overlap(J, K) == \E j \in J, k \in K : j = k \/ Related(j, k)

-------------------------------------------------------------------------------
(* Reading a snapshot.                                                     *)

Slot(s, kind)   == IF kind = "reservation" THEN s.reservation ELSE s.fence
ActiveClaim(s, k) == IF s.reservation[k] # None THEN s.reservation[k] ELSE s.fence[k]
ActiveKind(s, k)  == IF s.reservation[k] # None THEN "reservation" ELSE "fence"
Active(s, k)    == ActiveClaim(s, k) # None
SameOperation(t, r) == t.op = r.op /\ t.digest = r.digest

\* The keys a token holds under one kind of claim, and those it ended on.
Owned(s, kind, t) == {k \in Key : Slot(s, kind)[k] # None /\ Slot(s, kind)[k].token = t}
Holds(s, t)       == {k \in Key : Active(s, k) /\ ActiveClaim(s, k).token = t}
EndedOn(s, t)     == {k \in Key : \E b \in s.tombstones[k] : b.token = t}
ActiveOp(s, o)    == \E k \in Key : Active(s, k) /\ ActiveClaim(s, k).token.op = o
TerminalOp(s, o)  == \E k \in Key : \E b \in s.tombstones[k] : b.token.op = o

\* What a snapshot must satisfy to be written or loaded.
ValidRecord(s, k) ==
    /\ s.epoch[k] <= s.lastEpoch
    /\ s.reservation[k] = None \/ s.fence[k] = None
    /\ \A kind \in Kind : LET c == Slot(s, kind)[k] IN
          c # None => /\ s.binding[c.token.op] = c.token.digest
                      /\ c.token.epoch = s.epoch[k]
                      /\ \A b \in s.tombstones[k] : b.token # c.token
    /\ \A b \in s.tombstones[k] :
          /\ s.binding[b.token.op] = b.token.digest
          /\ b.token.epoch < b.advanced /\ b.advanced <= s.epoch[k]

ConsistentActive(s) == \A j, k \in Key :
    /\ Active(s, j) /\ Active(s, k)
    /\ ActiveClaim(s, j).token.op = ActiveClaim(s, k).token.op
    => /\ ActiveClaim(s, j) = ActiveClaim(s, k)
       /\ ActiveKind(s, j) = ActiveKind(s, k)

ConsistentTerminal(s) == \A j, k \in Key :
    \A a \in s.tombstones[j], b \in s.tombstones[k] : a.token.op = b.token.op => a = b

ValidSnapshot(s) ==
    /\ \A k \in Key : ValidRecord(s, k)
    /\ ConsistentActive(s)
    /\ ConsistentTerminal(s)
    /\ s.lastEpoch # 0 => \E k \in Key : s.epoch[k] = s.lastEpoch
    /\ \A o \in Ops : ~(ActiveOp(s, o) /\ TerminalOp(s, o))

-------------------------------------------------------------------------------
(* Reserve and Fence: request r = [op, digest, machine] for the keys K.     *)

OperationReusable(s, K, r) ==
    /\ s.binding[r.op] \in {None, r.digest}
    /\ ~TerminalOp(s, r.op)
    /\ \A k \in Key : Active(s, k) /\ ActiveClaim(s, k).token.op = r.op
                      => k \in K /\ ActiveClaim(s, k).token.digest = r.digest

\* Seeded fault: only claims above the request are looked for.
HierarchyFreeAbove(s, K) ==
    \A j \in Key \ K : Active(s, j) /\ IsRepository(j) => \A k \in K : ~Related(j, k)

\* No claim on another key stands above or below a requested one.
HierarchyFree(s, K) == \A j \in Key \ K : Active(s, j) => \A k \in K : ~Related(j, k)

HeldBy(s, k, kind, r) ==
    /\ Active(s, k) /\ ActiveKind(s, k) = kind
    /\ SameOperation(ActiveClaim(s, k).token, r)
    /\ ActiveClaim(s, k).machine = r.machine

\* A replay of a request that already holds every key, under one token.
AlreadyHeld(s, K, r, kind) ==
    /\ \A k \in K : HeldBy(s, k, kind, r)
    /\ \A j, k \in K : ActiveClaim(s, j).token = ActiveClaim(s, k).token

\* All keys unclaimed, or a fence taking over a whole reservation of its own.
Claimable(s, K, r, kind) ==
    \/ \A k \in K : ~Active(s, k)
    \/ kind = "fence" /\ \A k \in K : HeldBy(s, k, "reservation", r)

EpochLeft(s) == s.lastEpoch < MaxEpoch

Bound(s, r) == [s.binding EXCEPT ![r.op] = IF @ = None THEN r.digest ELSE @]

NewToken(s, r) == [op |-> r.op, digest |-> r.digest, epoch |-> s.lastEpoch + 1]

\* A new epoch for the authority and for every key of the call.
Advanced(s, K) ==
    [s EXCEPT !.lastEpoch = @ + 1,
              !.epoch = [k \in Key |-> IF k \in K THEN s.lastEpoch + 1 ELSE @[k]]]

NewClaim(s, r) == [token |-> NewToken(s, r), machine |-> r.machine]

\* Slots after the keys K were given the claim c of one kind.
Filled(slot, K, c) == [k \in Key |-> IF k \in K THEN c ELSE slot[k]]

Activated(s, K, r, kind) ==
    [Advanced(s, K) EXCEPT
        !.binding     = Bound(s, r),
        !.reservation = Filled(@, K, IF kind = "reservation" THEN NewClaim(s, r) ELSE None),
        !.fence       = Filled(@, K, IF kind = "fence" THEN NewClaim(s, r) ELSE None)]

-------------------------------------------------------------------------------
(* Release, Abort and Return of token t on the keys K.                      *)

KindOfEnd(end)     == IF end = "returned" THEN "fence" ELSE "reservation"

\* The tombstones a terminal call of token t finds.
Ends(s, t) == {b \in UNION {s.tombstones[k] : k \in Key} : b.token = t}

\* A replay of a terminal call: every tombstone says the same, on exactly K.
EndedAlready(s, K, t, end) ==
    /\ EndedOn(s, t) = K
    /\ \A b \in Ends(s, t) : b.kind = end
    /\ Cardinality({b.advanced : b \in Ends(s, t)}) = 1

ReplayedEpoch(s, t) == (CHOOSE b \in Ends(s, t) : TRUE).advanced

\* end is "aborted", "returned", or "released", which leaves no tombstone.
Endable(s, K, t, end) ==
    /\ end # "released" => EndedOn(s, t) = {}
    /\ Owned(s, KindOfEnd(end), t) = K

Cleared(s, K, kind) ==
    [Advanced(s, K) EXCEPT
        !.reservation = IF kind = "reservation" THEN Filled(@, K, None) ELSE @,
        !.fence       = IF kind = "fence" THEN Filled(@, K, None) ELSE @]

Finished(s, K, t, end) ==
    LET tomb == [kind |-> end, token |-> t, advanced |-> s.lastEpoch + 1]
    IN  [Cleared(s, K, KindOfEnd(end)) EXCEPT
            !.tombstones = [k \in Key |-> IF k \in K /\ end # "released"
                                          THEN @[k] \cup {tomb} ELSE @[k]]]

-------------------------------------------------------------------------------
(* Guards: token t, or None for an ordinary mutation, on the keys K.        *)

OrdinaryMayRun(s, K) ==
    /\ \A k \in MutationKeys(K) : ~Active(s, k)
    /\ \A j \in Key : RepositoryOf(j) \in K => ~Active(s, j)

OwnerMayRun(s, K, t) ==
    /\ K \cap EndedOn(s, t) = {}
    /\ Holds(s, t) = K

MayRun(s, K, t) == IF t = None THEN OrdinaryMayRun(s, K) ELSE OwnerMayRun(s, K, t)
===============================================================================
