---------------------------- MODULE TaskFlowProofs ----------------------------
(***************************************************************************)
(* What the task life cycle guarantees for every set of processes,         *)
(* actions, habits and faults, whatever the user and the forge do and      *)
(* however often processes crash: two plans never run at once, no work is  *)
(* lost, a task recorded DONE is merged, and so is a branch dev deletes.   *)
(* A task recorded COLD is published if nobody deletes the remote branch,  *)
(* and canonical changes that were put aside come back unless a process    *)
(* crashes.                                                                *)
(*                                                                         *)
(* The invariant FlowInv says what a job relies on at each place of its    *)
(* plan.  It survives the steps of the environment because those keep a    *)
(* checkout, its branch and what both hold (Continues), and the steps of   *)
(* other processes because of the locks.                                   *)
(***************************************************************************)
EXTENDS TaskFlow, TLAPS, SequenceTheorems

-----------------------------------------------------------------------------
(***************************************************************************)
(* What no Git command that dev runs, and nothing the user or the forge    *)
(* does, makes of a repository: an ill-typed one, a checkout without its   *)
(* branch, or one from which work has gone that nobody discarded.          *)
(***************************************************************************)
TypedGit(g) ==
    /\ g \in Repository
    /\ g.tree # None => g.local # None
    /\ g.rebasing => g.tree # None
NothingLost(g) == g.written \ g.dropped \subseteq Reachable(g)
Sound(g) == TypedGit(g) /\ NothingLost(g)

\* u is in one of the places that Reachable looks at.
Kept(g, u) ==
    \/ g.tree # None /\ u \in g.tree
    \/ g.local # None /\ u \in g.local
    \/ g.remote # None /\ u \in g.remote
    \/ u \in g.base \/ u \in g.main \/ u \in g.stash

(* Reachable, place by place. *)
LEMMA KeptReachable ==
    ASSUME NEW g \in Repository
    PROVE  \A u : u \in Reachable(g) <=> Kept(g, u)
<1>1. g.base # None /\ g.main # None /\ g.stash # None
    BY RefAssumption DEF Repository
<1> QED
    BY <1>1 DEF Reachable, Kept

(* A step loses nothing if what it takes from one place is in another. *)
LEMMA KeepsAll ==
    ASSUME NEW g, Sound(g), NEW h, TypedGit(h),
           h.written = g.written, g.dropped \subseteq h.dropped,
           \A u : Kept(g, u) => Kept(h, u) \/ u \in h.dropped
    PROVE  Sound(h)
    BY KeptReachable DEF Sound, TypedGit, NothingLost

-------------------------------------------------------------------------------
(* Git commands.                                                            *)

LEMMA CommitSound ==
    ASSUME NEW g, Sound(g), g.tree # None
    PROVE  Sound(Committed(g))
<1> DEFINE h == Committed(g)
<1>1. TypedGit(h)
    BY RefAssumption DEF Sound, TypedGit, Committed, Repository, Ref, Work
<1>2. \A u : Kept(g, u) => Kept(h, u)
    BY RefAssumption DEF Sound, TypedGit, Committed, Repository, Ref, Work, Kept
<1>3. h.written = g.written /\ h.dropped = g.dropped
    BY DEF Sound, TypedGit, Committed, Repository
<1> QED
    BY <1>1, <1>2, <1>3, KeepsAll

(* git reset --hard: what it takes was given up on request. *)
LEMMA DiscardSound ==
    ASSUME NEW g, Sound(g), g.tree # None
    PROVE  Sound(Discarded(g))
<1> DEFINE h == Discarded(g)
<1>1. TypedGit(h)
    BY RefAssumption DEF Sound, TypedGit, Discarded, Repository, Ref, Work
<1>2. \A u : Kept(g, u) => Kept(h, u) \/ u \in h.dropped
    BY DEF Sound, TypedGit, Discarded, Repository, Ref, Work, Kept
<1>3. h.written = g.written /\ g.dropped \subseteq h.dropped
    BY DEF Sound, TypedGit, Discarded, Repository
<1> QED
    BY <1>1, <1>2, <1>3, KeepsAll

(* git push replaces a branch that the pushed one contains. *)
LEMMA PushSound ==
    ASSUME NEW g, Sound(g), CanPush(g)
    PROVE  Sound(Pushed(g))
<1> DEFINE h == Pushed(g)
<1>1. TypedGit(h)
    BY DEF Sound, TypedGit, Pushed, CanPush, Repository, Ref
<1>2. \A u : Kept(g, u) => Kept(h, u)
    BY DEF Sound, TypedGit, Pushed, CanPush, Repository, Kept
<1>3. h.written = g.written /\ h.dropped = g.dropped
    BY DEF Sound, TypedGit, Pushed, Repository
<1> QED
    BY <1>1, <1>2, <1>3, KeepsAll

(* git fetch changes the remote-tracking ref alone. *)
LEMMA FetchSound ==
    ASSUME NEW g, Sound(g)
    PROVE  Sound(Fetched(g))
<1> DEFINE h == Fetched(g)
<1>1. TypedGit(h)
    BY DEF Sound, TypedGit, Fetched, Repository, Ref
<1>2. \A u : Kept(g, u) => Kept(h, u)
    BY DEF Sound, TypedGit, Fetched, Repository, Kept
<1>3. h.written = g.written /\ h.dropped = g.dropped
    BY DEF Sound, TypedGit, Fetched, Repository
<1> QED
    BY <1>1, <1>2, <1>3, KeepsAll

(* git worktree add gives the new checkout a branch. *)
LEMMA AddSound ==
    ASSUME NEW g, Sound(g), CanAdd(g)
    PROVE  Sound(Added(g))
<1> DEFINE h == Added(g)
<1>1. TypedGit(h)
    BY RefAssumption DEF Sound, TypedGit, Added, CanAdd, Repository, Ref, Work
<1>2. \A u : Kept(g, u) => Kept(h, u)
    BY DEF Sound, TypedGit, Added, CanAdd, Repository, Kept
<1>3. h.written = g.written /\ h.dropped = g.dropped
    BY DEF Sound, TypedGit, Added, Repository
<1> QED
    BY <1>1, <1>2, <1>3, KeepsAll

(* git worktree remove takes a clean checkout. *)
LEMMA RemoveSound ==
    ASSUME NEW g, Sound(g), CanRemove(g), ~g.rebasing
    PROVE  Sound(Removed(g))
<1> DEFINE h == Removed(g)
<1>1. TypedGit(h)
    BY DEF Sound, TypedGit, Removed, Repository, Ref
<1>2. \A u : Kept(g, u) => Kept(h, u)
    BY DEF Sound, TypedGit, Removed, CanRemove, Repository, Kept
<1>3. h.written = g.written /\ h.dropped = g.dropped
    BY DEF Sound, TypedGit, Removed, Repository
<1> QED
    BY <1>1, <1>2, <1>3, KeepsAll

(* A rebase keeps every change, whether it runs in one go or is continued. *)
LEMMA RebaseSound ==
    ASSUME NEW g, Sound(g), g.tree # None
    PROVE  Sound(Rebased(g))
<1> DEFINE h == Rebased(g)
<1>1. TypedGit(h)
    BY RefAssumption DEF Sound, TypedGit, Rebased, Repository, Ref, Work
<1>2. \A u : Kept(g, u) => Kept(h, u)
    BY RefAssumption DEF Sound, TypedGit, Rebased, Repository, Ref, Work, Kept
<1>3. h.written = g.written /\ h.dropped = g.dropped
    BY DEF Sound, TypedGit, Rebased, Repository
<1> QED
    BY <1>1, <1>2, <1>3, KeepsAll

(* A rebase stops, or is over. *)
LEMMA StopSound ==
    ASSUME NEW g, Sound(g), g.tree # None, NEW b \in BOOLEAN
    PROVE  Sound([g EXCEPT !.rebasing = b])
<1> DEFINE h == [g EXCEPT !.rebasing = b]
<1>1. TypedGit(h)
    BY DEF Sound, TypedGit, Repository
<1>2. \A u : Kept(g, u) => Kept(h, u)
    BY DEF Sound, TypedGit, Repository, Kept
<1>3. h.written = g.written /\ h.dropped = g.dropped
    BY DEF Sound, TypedGit, Repository
<1> QED
    BY <1>1, <1>2, <1>3, KeepsAll

LEMMA MergeSound ==
    ASSUME NEW g, Sound(g), CanMerge(g), g.local # None
    PROVE  Sound(Merged(g))
<1> DEFINE h == Merged(g)
<1>1. TypedGit(h)
    BY DEF Sound, TypedGit, Merged, Repository, Ref
<1>2. \A u : Kept(g, u) => Kept(h, u)
    BY DEF Sound, TypedGit, Merged, CanMerge, Repository, Kept
<1>3. h.written = g.written /\ h.dropped = g.dropped
    BY DEF Sound, TypedGit, Merged, Repository
<1> QED
    BY <1>1, <1>2, <1>3, KeepsAll

(* A branch that goes is still in the base or at the remote. *)
LEMMA DeleteSound ==
    ASSUME NEW g, Sound(g), g.tree = None, g.local # None,
           g.local \subseteq g.base \/ (g.remote # None /\ g.local \subseteq g.remote)
    PROVE  Sound(Deleted(g))
<1> DEFINE h == Deleted(g)
<1>1. TypedGit(h)
    BY DEF Sound, TypedGit, Deleted, Repository, Ref
<1>2. \A u : Kept(g, u) => Kept(h, u)
    BY DEF Sound, TypedGit, Deleted, Repository, Kept
<1>3. h.written = g.written /\ h.dropped = g.dropped
    BY DEF Sound, TypedGit, Deleted, Repository
<1> QED
    BY <1>1, <1>2, <1>3, KeepsAll

(* git stash push: the changes move to the stash. *)
LEMMA StashSound ==
    ASSUME NEW g, Sound(g)
    PROVE  Sound(Stashed(g))
<1> DEFINE h == Stashed(g)
<1>1. TypedGit(h)
    BY DEF Sound, TypedGit, Stashed, Repository, Work
<1>2. \A u : Kept(g, u) => Kept(h, u)
    BY DEF Sound, TypedGit, Stashed, Repository, Kept
<1>3. h.written = g.written /\ h.dropped = g.dropped
    BY DEF Sound, TypedGit, Stashed, Repository
<1> QED
    BY <1>1, <1>2, <1>3, KeepsAll

(* git stash apply and drop: they move back. *)
LEMMA RestoreSound ==
    ASSUME NEW g, Sound(g), NEW s \in Work
    PROVE  Sound(Restored(g, s))
<1> DEFINE h == Restored(g, s)
<1>1. TypedGit(h)
    BY DEF Sound, TypedGit, Restored, Repository, Work
<1>2. \A u : Kept(g, u) => Kept(h, u)
    BY DEF Sound, TypedGit, Restored, Repository, Kept
<1>3. h.written = g.written /\ h.dropped = g.dropped
    BY DEF Sound, TypedGit, Restored, Repository
<1> QED
    BY <1>1, <1>2, <1>3, KeepsAll

(* The canonical changes are given up on request. *)
LEMMA DropSound ==
    ASSUME NEW g, Sound(g)
    PROVE  Sound(MainDropped(g))
<1> DEFINE h == MainDropped(g)
<1>1. TypedGit(h)
    BY DEF Sound, TypedGit, MainDropped, Repository, Work
<1>2. \A u : Kept(g, u) => Kept(h, u) \/ u \in h.dropped
    BY DEF Sound, TypedGit, MainDropped, Repository, Kept
<1>3. h.written = g.written /\ g.dropped \subseteq h.dropped
    BY DEF Sound, TypedGit, MainDropped, Repository
<1> QED
    BY <1>1, <1>2, <1>3, KeepsAll
-------------------------------------------------------------------------------
(* The user and the forge.                                                  *)

\* What a process that holds dev's locks can rely on meanwhile: a checkout
\* stays and its branch only grows; without a checkout the branch at most
\* goes; the base only grows; nobody starts a rebase.
Continues(g, h) ==
    /\ g.tree # None => /\ h.tree # None /\ g.local \subseteq h.local
                        /\ g.local \cup g.tree \subseteq h.local \cup h.tree
    /\ g.tree = None => h.tree = None /\ h.local \in {g.local, None}
    /\ g.base \subseteq h.base
    /\ h.rebasing => g.rebasing

(* An edit adds new work to the checkout. *)
LEMMA EditSound ==
    ASSUME NEW g, Sound(g), NEW u \in Patches \ g.written, g.tree # None
    PROVE  Sound([g EXCEPT !.tree = @ \cup {u}, !.written = @ \cup {u}])
<1> DEFINE h == [g EXCEPT !.tree = @ \cup {u}, !.written = @ \cup {u}]
<1>1. TypedGit(h)
    BY RefAssumption DEF Sound, TypedGit, Repository, Ref, Work
<1>2. h.written = g.written \cup {u} /\ h.dropped = g.dropped
    BY DEF Sound, TypedGit, Repository
<1>3. \A v : Kept(g, v) \/ v = u => Kept(h, v)
    BY RefAssumption DEF Sound, TypedGit, Repository, Ref, Work, Kept
<1> HIDE DEF h
<1>4. \A v \in g.written \ g.dropped : Kept(g, v)
    BY KeptReachable DEF Sound, TypedGit, NothingLost
<1>5. \A v \in h.written \ h.dropped : Kept(h, v)
    BY <1>2, <1>3, <1>4
<1>6. \A v : v \in Reachable(h) <=> Kept(h, v)
    BY <1>1, KeptReachable DEF TypedGit
<1>7. NothingLost(h)
    BY <1>5, <1>6 DEF NothingLost
<1> QED
    BY <1>1, <1>7 DEF Sound, h

(* An edit of the canonical checkout. *)
LEMMA EditMainSound ==
    ASSUME NEW g, Sound(g), NEW u \in Patches \ g.written
    PROVE  Sound([g EXCEPT !.main = @ \cup {u}, !.written = @ \cup {u}])
<1> DEFINE h == [g EXCEPT !.main = @ \cup {u}, !.written = @ \cup {u}]
<1>1. TypedGit(h)
    BY DEF Sound, TypedGit, Repository, Ref, Work
<1>2. h.written = g.written \cup {u} /\ h.dropped = g.dropped
    BY DEF Sound, TypedGit, Repository
<1>3. \A v : Kept(g, v) \/ v = u => Kept(h, v)
    BY DEF Sound, TypedGit, Repository, Ref, Work, Kept
<1> HIDE DEF h
<1>4. \A v \in g.written \ g.dropped : Kept(g, v)
    BY KeptReachable DEF Sound, TypedGit, NothingLost
<1>5. \A v \in h.written \ h.dropped : Kept(h, v)
    BY <1>2, <1>3, <1>4
<1>6. \A v : v \in Reachable(h) <=> Kept(h, v)
    BY <1>1, KeptReachable DEF TypedGit
<1>7. NothingLost(h)
    BY <1>5, <1>6 DEF NothingLost
<1> QED
    BY <1>1, <1>7 DEF Sound, h

(* A commit there moves its changes to the base. *)
LEMMA CommitMainSound ==
    ASSUME Sound(git), CommitMain
    PROVE  Sound(git')
<1>1. TypedGit(git')
    BY DEF CommitMain, Sound, TypedGit, Repository, Work
<1>2. \A u : Kept(git, u) => Kept(git', u)
    BY DEF CommitMain, Sound, TypedGit, Repository, Kept
<1>3. git'.written = git.written /\ git'.dropped = git.dropped
    BY DEF CommitMain, Sound, TypedGit, Repository
<1> QED
    BY <1>1, <1>2, <1>3, KeepsAll

(* The forge moves the base forward. *)
LEMMA MergeReviewSound ==
    ASSUME Sound(git), MergeReview
    PROVE  Sound(git')
<1>1. TypedGit(git')
    BY DEF MergeReview, Sound, TypedGit, Repository, Ref
<1>2. \A u : Kept(git, u) => Kept(git', u)
    BY DEF MergeReview, Sound, TypedGit, Repository, Kept
<1>3. git'.written = git.written /\ git'.dropped = git.dropped
    BY DEF MergeReview, Sound, TypedGit, Repository
<1> QED
    BY <1>1, <1>2, <1>3, KeepsAll

(* A published branch is deleted only if it has a copy. *)
LEMMA DeleteRemoteSound ==
    ASSUME Sound(git), DeleteRemote
    PROVE  Sound(git')
<1>1. TypedGit(git')
    BY DEF DeleteRemote, Sound, TypedGit, Repository, Ref
<1>2. \A u : Kept(git, u) => Kept(git', u)
    BY DEF DeleteRemote, Sound, TypedGit, Repository, Kept
<1>3. git'.written = git.written /\ git'.dropped = git.dropped
    BY DEF DeleteRemote, Sound, TypedGit, Repository
<1> QED
    BY <1>1, <1>2, <1>3, KeepsAll

(* Whatever the user and the forge do keeps the repository sound. *)
LEMMA OthersSound ==
    ASSUME Sound(git), Others
    PROVE  Sound(git')
<1>1. CASE Edit \/ EditMain
  <2>1. CASE Edit
    <3>1. PICK u \in Patches \ git.written :
              git' = [git EXCEPT !.tree = @ \cup {u}, !.written = @ \cup {u}]
        BY <2>1 DEF Edit
    <3> QED
        BY <2>1, <3>1, EditSound DEF Edit
  <2>2. CASE EditMain
    <3>1. PICK u \in Patches \ git.written :
              git' = [git EXCEPT !.main = @ \cup {u}, !.written = @ \cup {u}]
        BY <2>2 DEF EditMain
    <3> QED
        BY <3>1, EditMainSound
  <2> QED
      BY <1>1, <2>1, <2>2
<1>2. CASE Commit
    BY <1>2, CommitSound DEF Commit
<1>3. CASE Push \/ Fetch
    BY <1>3, PushSound, FetchSound DEF Push, Fetch
<1>4. CASE DeleteLocal
    BY <1>4, DeleteSound DEF DeleteLocal
<1>5. CASE EndRebase
  <2> DEFINE g == [git EXCEPT !.rebasing = FALSE]
  <2>1. git.tree # None /\ g.tree = git.tree
      BY <1>5 DEF EndRebase, Sound, TypedGit, Repository
  <2>2. Sound(g)
      BY <2>1, StopSound
  <2>3. Sound(Rebased(g))
      BY <2>1, <2>2, RebaseSound
  <2> QED
      BY <1>5, <2>2, <2>3 DEF EndRebase
<1> QED
    BY <1>1, <1>2, <1>3, <1>4, <1>5, CommitMainSound, MergeReviewSound, DeleteRemoteSound
    DEF Others

(* What a job may rely on while others act. *)
LEMMA OthersContinue ==
    ASSUME TypedGit(git), Others
    PROVE  Continues(git, git')
<1>1. CASE Edit
  <2>1. PICK u \in Patches : git' = [git EXCEPT !.tree = @ \cup {u}, !.written = @ \cup {u}]
      BY <1>1 DEF Edit
  <2>2. git.tree # None /\ git.tree \cup {u} # None
      BY <1>1, RefAssumption DEF Edit, TypedGit, Repository, Ref, Work
  <2> QED
      BY <2>1, <2>2 DEF Continues, TypedGit, Repository
<1>5. CASE EditMain \/ Commit
    BY <1>5, RefAssumption
    DEF EditMain, Commit, Committed, Continues, TypedGit, Repository, Ref, Work
<1>2. CASE Push \/ Fetch \/ DeleteRemote \/ DeleteLocal
    BY <1>2 DEF Push, Pushed, CanPush, Fetch, Fetched, DeleteRemote, DeleteLocal, Deleted,
                Continues, TypedGit, Repository
<1>3. CASE CommitMain \/ MergeReview
    BY <1>3 DEF CommitMain, MergeReview, Continues, TypedGit, Repository
<1>4. CASE EndRebase
  <2>1. git.tree # None
      BY <1>4 DEF EndRebase, TypedGit
  <2>2. CASE git' = [git EXCEPT !.rebasing = FALSE]
      BY <2>1, <2>2 DEF Continues, TypedGit, Repository
  <2>3. CASE git' = Rebased([git EXCEPT !.rebasing = FALSE])
      BY <2>1, <2>3 DEF Rebased, Continues, TypedGit, Repository
  <2> QED
      BY <1>4, <2>2, <2>3 DEF EndRebase
<1> QED
    BY <1>1, <1>2, <1>3, <1>4, <1>5 DEF Others

-----------------------------------------------------------------------------
(***************************************************************************)
(* Jobs.                                                                   *)
(***************************************************************************)

\* Every job has an action and a place in its plan; one that waits for a lock
\* has stashed nothing.
Shape(j) == j # None =>
    /\ {"pc", "action", "stashed"} \subseteq DOMAIN j
    /\ j.pc \notin Running => j.stashed = {}
JobShape == DOMAIN job = Procs /\ \A p \in Procs : Shape(job[p])

\* The repository's lock has one holder.
RepoOnce == \A p, q \in Procs : HoldsRepo(p) /\ HoldsRepo(q) => p = q

LockInv == JobShape /\ OneAtATime /\ RepoOnce

(* A step of p leaves the other processes' jobs alone. *)
LEMMA OwnJob ==
    ASSUME JobShape, NEW p \in Procs, Step(p)
    PROVE  /\ DOMAIN job' = Procs
           /\ \A q \in Procs : q # p => job'[q] = job[q]
    BY DEF JobShape, Step, Plan, LockRepo, LockStore, Replan, Check, Act, Refresh, Write,
           Finish, Fail, Restore, RestoreFails, RebaseStops, StashUnnamed, Crash,
           Failed, Goto, End

\* What a step may do to the job of its process: keep both locks as they are,
\* take a free one, or give them back.
Keeps(p) ==
    /\ Shape(job'[p])
    /\ HoldsStore(p)' => HoldsStore(p) \/ \A q \in Procs : ~HoldsStore(q)
    /\ HoldsRepo(p)' => HoldsRepo(p) \/ \A q \in Procs : ~HoldsRepo(q)

(* A job that runs goes on running its action, or ends. *)
LEMMA RunningKeeps ==
    ASSUME JobShape, NEW p \in Procs, HoldsStore(p),
           NEW j, Shape(j), job' = [job EXCEPT ![p] = j],
           j # None => j.pc \in Running /\ j.action = job[p].action
    PROVE  Keeps(p)
<1>1. job'[p] = j
    BY DEF JobShape
<1> QED
    BY <1>1 DEF Keeps, HoldsStore, HoldsRepo

(* A job that ends gives both locks back. *)
LEMMA EndKeeps ==
    ASSUME JobShape, NEW p \in Procs, End(p)
    PROVE  Keeps(p)
<1>1. job'[p] = None
    BY DEF JobShape, End
<1> QED
    BY <1>1 DEF Keeps, Shape, HoldsStore, HoldsRepo

(* A refused job ends, or keeps what it holds to restore its stash. *)
LEMMA FailedKeeps ==
    ASSUME JobShape, NEW p \in Procs, job[p] # None, Failed(p)
    PROVE  Keeps(p)
<1> DEFINE j == [job[p] EXCEPT !.pc = "restore"]
<1>1. CASE job[p].stashed = {}
  <2>1. End(p)
      BY <1>1 DEF Failed, End
  <2> QED
      BY <2>1, EndKeeps
<1>2. CASE job[p].stashed # {}
  <2>1. job' = [job EXCEPT ![p] = j]
      BY <1>2 DEF Failed
  <2>2. HoldsStore(p)
      BY <1>2 DEF JobShape, Shape, HoldsStore
  <2>3. j.pc \in Running /\ j.action = job[p].action /\ Shape(j)
      BY DEF JobShape, Shape, Running
  <2> QED
      BY <2>1, <2>2, <2>3, RunningKeeps
<1> QED
    BY <1>1, <1>2

(* No step takes a lock that another process holds. *)
LEMMA StepKeeps ==
    ASSUME JobShape, NEW p \in Procs, Step(p)
    PROVE  Keeps(p)
<1> DEFINE j == job[p]
<1>0. {"pc", "action", "stashed"} \subseteq DOMAIN j \/ j = None
    BY DEF JobShape, Shape
<1>1. CASE Plan(p)
  <2>1. PICK action, opts : job' = [job EXCEPT ![p] = Approved(action, opts)]
      BY <1>1 DEF Plan
  <2> DEFINE k == Approved(action, opts)
  <2>2. /\ {"pc", "action", "stashed"} \subseteq DOMAIN k /\ k.stashed = {}
        /\ k.pc = IF k.action = "sweep" THEN "want store" ELSE "want repo"
      BY DEF Approved
  <2>3. job'[p] = k
      BY <2>1 DEF JobShape
  <2> QED
      BY <2>2, <2>3 DEF Keeps, Shape, HoldsStore, HoldsRepo, Running
<1>2. CASE LockRepo(p)
  <2>1. job'[p] = [j EXCEPT !.pc = "want store"] /\ j.pc = "want repo" /\ j # None
      BY <1>2 DEF LockRepo, At, Goto, JobShape
  <2>2. Shape(job'[p])
      BY <1>0, <2>1 DEF JobShape, Shape, Running
  <2> QED
      BY <1>0, <1>2, <2>1, <2>2 DEF LockRepo, Keeps, HoldsStore, HoldsRepo, Running
<1>3. CASE LockStore(p)
  <2>1. job'[p] = [j EXCEPT !.pc = IF j.action = "sweep" THEN "act" ELSE "replan"]
        /\ j.pc = "want store" /\ j # None
      BY <1>3 DEF LockStore, At, Goto, JobShape
  <2>2. Shape(job'[p])
      BY <1>0, <2>1 DEF JobShape, Shape, Running
  <2> QED
      BY <1>0, <1>3, <2>1, <2>2 DEF LockStore, Keeps, HoldsStore, HoldsRepo, Running
<1>4. CASE End(p)
    BY <1>4, EndKeeps
<1>5. CASE /\ HoldsStore(p) /\ \E k : /\ job' = [job EXCEPT ![p] = k]
                                      /\ k.pc \in Running /\ k.action = j.action /\ Shape(k)
    BY <1>5, RunningKeeps
<1>6. CASE Replan(p)
  <2> DEFINE k == [j EXCEPT !.pc = "check", !.seen = Observed(git)]
  <2>1. End(p) \/ (job' = [job EXCEPT ![p] = k] /\ HoldsStore(p))
      BY <1>6 DEF Replan, At, HoldsStore, Running
  <2>2. j # None => k.pc \in Running /\ k.action = j.action /\ Shape(k)
      BY <1>0 DEF Shape, Running
  <2> QED
      BY <1>4, <1>5, <2>1, <2>2 DEF HoldsStore
<1>7. CASE Check(p)
  <2> DEFINE k == [j EXCEPT !.pc = "act"]
  <2>1. job' = [job EXCEPT ![p] = k] /\ HoldsStore(p)
      BY <1>7 DEF Check, Goto, At, HoldsStore, Running
  <2>2. j # None => k.pc \in Running /\ k.action = j.action /\ Shape(k)
      BY <1>0 DEF Shape, Running
  <2> QED
      BY <1>5, <2>1, <2>2 DEF HoldsStore
<1>8. CASE Act(p)
  <2>1. HoldsStore(p)
      BY <1>8 DEF Act, At, HoldsStore, Running
  <2> DEFINE k == Acted(j, Head(j.todo), git')
  <2>2. job' = [job EXCEPT ![p] = k]
      BY <1>8 DEF Act
  <2>3. j # None => k.pc \in Running /\ k.action = j.action /\ Shape(k)
      BY <1>0 DEF Acted, Shape, Running
  <2> QED
      BY <1>5, <2>1, <2>2, <2>3 DEF HoldsStore
<1>9. CASE Refresh(p)
  <2>1. HoldsStore(p)
      BY <1>9 DEF Refresh, At, HoldsStore, Running
  <2>2. PICK todo, seen :
            job' = [job EXCEPT ![p] = [j EXCEPT !.pc = "check", !.todo = todo, !.seen = seen]]
      BY <1>9 DEF Refresh
  <2> DEFINE k == [j EXCEPT !.pc = "check", !.todo = todo, !.seen = seen]
  <2>3. j # None => k.pc \in Running /\ k.action = j.action /\ Shape(k)
      BY <1>0 DEF Shape, Running
  <2> QED
      BY <1>5, <2>1, <2>2, <2>3 DEF HoldsStore
<1>10. CASE Write(p) \/ Finish(p) \/ Restore(p) \/ RestoreFails(p) \/ Crash(p)
    BY <1>4, <1>10 DEF Write, Finish, Restore, RestoreFails, Crash
<1>11. CASE Fail(p) \/ RebaseStops(p) \/ StashUnnamed(p)
  <2>1. Failed(p) /\ j # None
      BY <1>11 DEF Fail, RebaseStops, StashUnnamed, At
  <2> QED
      BY <2>1, FailedKeeps
<1> QED
    BY <1>1, <1>2, <1>3, <1>6, <1>7, <1>8, <1>9, <1>10, <1>11 DEF Step

(* At first nobody holds a lock. *)
LEMMA LockInit == Init => LockInv
    BY DEF Init, LockInv, JobShape, Shape, OneAtATime, RepoOnce, HoldsStore, HoldsRepo

(* Every step keeps both locks exclusive. *)
LEMMA LockStep == LockInv /\ [Next]_vars => LockInv'
<1> SUFFICES ASSUME LockInv, [Next]_vars
             PROVE  LockInv'
    OBVIOUS
<1>1. CASE UNCHANGED job
    BY <1>1 DEF LockInv, JobShape, OneAtATime, RepoOnce, HoldsStore, HoldsRepo
<1>2. ASSUME NEW p \in Procs, Step(p)
      PROVE  LockInv'
  <2>1. /\ DOMAIN job' = Procs /\ Keeps(p)
        /\ \A q \in Procs : q # p => job'[q] = job[q]
      BY <1>2, OwnJob, StepKeeps DEF LockInv
  <2>2. \A q \in Procs : q # p => /\ HoldsStore(q)' <=> HoldsStore(q)
                                  /\ HoldsRepo(q)' <=> HoldsRepo(q)
      BY <2>1 DEF HoldsStore, HoldsRepo
  <2>3. JobShape'
      BY <2>1 DEF LockInv, JobShape, Keeps
  <2>4. OneAtATime'
      BY <2>1, <2>2 DEF LockInv, OneAtATime, Keeps
  <2>5. RepoOnce'
      BY <2>1, <2>2 DEF LockInv, RepoOnce, Keeps
  <2> QED
      BY <2>3, <2>4, <2>5 DEF LockInv
<1>3. UNCHANGED job \/ \E p \in Procs : Step(p)
    BY DEF Next, Environment, SetNote, vars
<1> QED
    BY <1>1, <1>2, <1>3

(* Two plans never run their effects at the same time. *)
THEOREM OneAtATimeTheorem == Spec => []OneAtATime
<1>1. LockInv => OneAtATime
    BY DEF LockInv
<1> QED
    BY <1>1, LockInit, LockStep, PTL DEF Spec

-------------------------------------------------------------------------------
(* What the plans contain.                                                  *)

PlanEffects(action) ==
    IF action \in {"ff", "verify"}
    THEN {"commit", "discard", "rebase", "stash", "drop", "switch", "merge",
          "restore", "verify", "update"}
    ELSE IF action = "review" THEN {"commit", "discard", "push", "review"}
    ELSE IF action = "retire" THEN {"remove", "delete branch", "reap"}
    ELSE IF action = "sweep" THEN {"sweep"}
    ELSE {"commit", "discard", "push", "fetch", "create", "remove", "update"}

RetireTodo == {<<"remove", "delete branch", "reap">>, <<"remove", "reap">>,
               <<"delete branch", "reap">>, <<"reap">>, <<>>}

(* Sequences of at most three effects, and their concatenation. *)
LEMMA WhenSeq ==
    ASSUME NEW S, NEW c, NEW e \in S
    PROVE  When(c, e) \in Seq(S)
    BY EmptySeq DEF When

LEMMA ConcatHead ==
    ASSUME NEW S, NEW s \in Seq(S), s # <<>>, NEW t \in Seq(S)
    PROVE  s \o t \in Seq(S) /\ s \o t # <<>> /\ Head(s \o t) = Head(s)
<1>1. Len(s) \in Nat \ {0} /\ Len(t) \in Nat
    BY EmptySeq, LenProperties
<1>2. s \o t \in Seq(S) /\ Len(s \o t) = Len(s) + Len(t) /\ (s \o t)[1] = s[1]
    BY <1>1, ConcatProperties
<1> QED
    BY <1>1, <1>2, EmptySeq

LEMMA Short ==
    ASSUME NEW S, NEW a \in S, NEW b \in S
    PROVE  /\ <<a>> \in Seq(S) /\ <<a, b>> \in Seq(S)
           /\ <<a>> \o <<b>> = <<a, b>>
           /\ <<a>> # <<>> /\ Head(<<a>>) = a /\ Tail(<<a>>) = <<>>
           /\ <<a, b>> # <<>> /\ Head(<<a, b>>) = a /\ Tail(<<a, b>>) = <<b>>
<1>1. <<a>> \in Seq(S) /\ <<a, b>> \in Seq(S)
    OBVIOUS
<1>2. <<a>> # <<>> /\ Head(<<a>>) = a /\ Tail(<<a>>) = <<>>
    OBVIOUS
<1>3. <<a>> \o <<b>> = <<a, b>>
  <2> DEFINE s == <<a>>
             t == <<b>>
             u == <<a, b>>
  <2>1. s \in Seq(S) /\ t \in Seq(S) /\ u \in Seq(S)
        /\ Len(s) = 1 /\ Len(t) = 1 /\ Len(u) = 2 /\ s[1] = a /\ t[1] = b /\ u[1] = a /\ u[2] = b
      OBVIOUS
  <2> HIDE DEF s, t, u
  <2>2. /\ s \o t \in Seq(S) /\ Len(s \o t) = 2
        /\ \A i \in 1..2 : (s \o t)[i] = u[i]
    <3>1. /\ s \o t \in Seq(S) /\ Len(s \o t) = Len(s) + Len(t)
          /\ \A i \in 1..Len(s) + Len(t) :
                (s \o t)[i] = IF i <= Len(s) THEN s[i] ELSE t[i - Len(s)]
        BY <2>1, ConcatProperties
    <3>2. \A i \in 1..2 : i = 1 \/ i = 2
        OBVIOUS
    <3> QED
        BY <2>1, <3>1, <3>2
  <2>3. s \o t = u
      BY <2>1, <2>2, SeqEqual
  <2> QED
      BY <2>3 DEF s, t, u
<1>4. <<a, b>> # <<>> /\ Head(<<a, b>>) = a /\ Tail(<<a, b>>) = <<b>>
    OBVIOUS
<1> QED
    BY <1>1, <1>2, <1>3, <1>4

LEMMA Triple ==
    ASSUME NEW S, NEW a \in S, NEW b \in S, NEW c \in S
    PROVE  /\ <<a, b, c>> \in Seq(S)
           /\ <<a, b>> \o <<c>> = <<a, b, c>>
           /\ <<a, b, c>> # <<>> /\ Head(<<a, b, c>>) = a /\ Tail(<<a, b, c>>) = <<b, c>>
<1>1. <<a, b>> \in Seq(S) /\ <<c>> \in Seq(S)
    OBVIOUS
<1>2. <<a, b, c>> \in Seq(S)
    OBVIOUS
<1>4. <<a, b>> \o <<c>> = <<a, b, c>>
  <2> DEFINE s == <<a, b>>
             t == <<c>>
             u == <<a, b, c>>
  <2>1. s \in Seq(S) /\ t \in Seq(S) /\ u \in Seq(S)
      BY <1>1, <1>2
  <2>4. /\ Len(s) = 2 /\ Len(t) = 1 /\ Len(u) = 3
        /\ s[1] = a /\ s[2] = b /\ t[1] = c /\ u[1] = a /\ u[2] = b /\ u[3] = c
      OBVIOUS
  <2> HIDE DEF s, t, u
  <2>5. /\ s \o t \in Seq(S) /\ Len(s \o t) = 3
        /\ \A i \in 1..3 : (s \o t)[i] = IF i <= 2 THEN s[i] ELSE t[i - 2]
    <3>1. /\ s \o t \in Seq(S) /\ Len(s \o t) = Len(s) + Len(t)
          /\ \A i \in 1..Len(s) + Len(t) :
                (s \o t)[i] = IF i <= Len(s) THEN s[i] ELSE t[i - Len(s)]
        BY <2>1, ConcatProperties
    <3> QED
        BY <2>4, <3>1
  <2>2. /\ s \o t \in Seq(S) /\ Len(s \o t) = 3
        /\ \A i \in 1..3 : (s \o t)[i] = u[i]
    <3>1. (s \o t)[1] = a /\ (s \o t)[2] = b /\ (s \o t)[3] = c
        BY <2>4, <2>5
    <3>2. \A i \in 1..3 : i = 1 \/ i = 2 \/ i = 3
        OBVIOUS
    <3> QED
        BY <2>4, <2>5, <3>1, <3>2
  <2>3. s \o t = u
      BY <2>1, <2>2, <2>4, SeqEqual
  <2> QED
      BY <2>3 DEF s, t, u
<1>5. <<a, b, c>> # <<>> /\ Head(<<a, b, c>>) = a /\ Tail(<<a, b, c>>) = <<b, c>>
    OBVIOUS
<1> QED
    BY <1>2, <1>4, <1>5

(* Sweep has a single effect. *)
LEMMA SweepSeq == <<"sweep">> # <<>> /\ Head(<<"sweep">>) = "sweep"
    OBVIOUS

(* A retirement starts with the removal and ends with the record. *)
LEMMA RetireSeq ==
    ASSUME NEW S, NEW r \in S, NEW x \in S, NEW p \in S, NEW opts
    PROVE  LET todo == (<<r>> \o When(x \in opts, x)) \o <<p>>
           IN  /\ todo \in Seq(S) /\ todo \in {<<r, x, p>>, <<r, p>>}
               /\ todo # <<>> /\ Head(todo) = r
<1>1. CASE x \in opts
  <2>1. When(x \in opts, x) = <<x>>
      BY <1>1 DEF When
  <2>2. <<r>> \o <<x>> = <<r, x>>
      BY Short
  <2>3. /\ <<r, x>> \o <<p>> = <<r, x, p>>
        /\ <<r, x, p>> \in Seq(S) /\ <<r, x, p>> # <<>> /\ Head(<<r, x, p>>) = r
      BY Triple
  <2> QED
      BY <2>1, <2>2, <2>3
<1>2. CASE x \notin opts
  <2>1. When(x \in opts, x) = <<>>
      BY <1>2 DEF When
  <2>2. <<r>> \o <<>> = <<r>>
      BY Short, ConcatEmptySeq
  <2>3. <<r>> \o <<p>> = <<r, p>> /\ <<r, p>> \in Seq(S) /\ <<r, p>> # <<>> /\ Head(<<r, p>>) = r
      BY Short
  <2> QED
      BY <2>1, <2>2, <2>3
<1> QED
    BY <1>1, <1>2

(* A plan that commits does so first. *)
LEMMA FinalizeSeq ==
    ASSUME NEW S, {"commit", "discard"} \subseteq S, NEW opts, NEW g,
           NEW t \in Seq(S)
    PROVE  LET finalize == When(Dirty(g) /\ "commit" \in opts, "commit")
                           \o When(Dirty(g) /\ "discard" \in opts, "discard")
           IN  /\ finalize \o t \in Seq(S)
               /\ Dirty(g) /\ "commit" \in opts
                  => finalize \o t # <<>> /\ Head(finalize \o t) = "commit"
<1> DEFINE c == When(Dirty(g) /\ "commit" \in opts, "commit")
           d == When(Dirty(g) /\ "discard" \in opts, "discard")
<1>1. c \in Seq(S) /\ d \in Seq(S)
    BY WhenSeq
<1>2. Dirty(g) /\ "commit" \in opts => c # <<>> /\ Head(c) = "commit"
    BY DEF When
<1> HIDE DEF c, d
<1>3. c \o d \in Seq(S) /\ (c \o d) \o t \in Seq(S)
    BY <1>1, ConcatProperties
<1>4. c # <<>> => /\ c \o d # <<>> /\ Head(c \o d) = Head(c)
                  /\ (c \o d) \o t # <<>> /\ Head((c \o d) \o t) = Head(c)
    BY <1>1, <1>3, ConcatHead
<1> QED
    BY <1>2, <1>3, <1>4 DEF c, d

(* The effects of an integration. *)
LEMMA IntegrationSeq ==
    ASSUME NEW S, {"rebase", "stash", "drop", "switch", "merge", "restore"} \subseteq S,
           NEW opts, NEW g
    PROVE  IntegrationEffects(opts, g) \in Seq(S)
<1> DEFINE a == When(~(g.base \subseteq g.local), "rebase")
           b == When(g.main # {} /\ "stash" \in opts, "stash")
           c == When(g.main # {} /\ "drop" \in opts, "drop")
           d == <<"switch", "merge">>
           e == When(g.main # {} /\ "stash" \in opts, "restore")
<1>1. a \in Seq(S) /\ b \in Seq(S) /\ c \in Seq(S) /\ e \in Seq(S)
    BY WhenSeq
<1>2. d \in Seq(S)
    OBVIOUS
<1>3. IntegrationEffects(opts, g) = (((a \o b) \o c) \o d) \o e
    BY DEF IntegrationEffects
<1> HIDE DEF a, b, c, d, e
<1>4. a \o b \in Seq(S)
    BY <1>1, ConcatProperties
<1>5. (a \o b) \o c \in Seq(S)
    BY <1>1, <1>4, ConcatProperties
<1>6. ((a \o b) \o c) \o d \in Seq(S)
    BY <1>2, <1>5, ConcatProperties
<1> QED
    BY <1>1, <1>3, <1>6, ConcatProperties

(* What a plan consists of, per action; a completion that commits commits      *)
(* first.                                                                   *)
LEMMA EffectsTyped ==
    ASSUME NEW action \in Action, NEW opts, NEW g
    PROVE  LET todo == Effects(action, opts, g)
           IN  /\ todo \in Seq(PlanEffects(action))
               /\ action = "retire" => todo \in RetireTodo /\ todo # <<>> /\ Head(todo) = "remove"
               /\ action = "sweep" => todo = <<"sweep">>
               /\ action \in Completion /\ Dirty(g) /\ "commit" \in opts
                  => todo # <<>> /\ Head(todo) = "commit"
<1> DEFINE S == PlanEffects(action)
           todo == Effects(action, opts, g)
           c == When(Dirty(g) /\ "commit" \in opts, "commit")
           d == When(Dirty(g) /\ "discard" \in opts, "discard")
           push == When("push" \in opts, "push")
<1>0. Completion = {"ff", "verify", "review"}
    BY DEF Completion
<1>1. CASE action \in {"warm", "cold"}
  <2>1. S = {"commit", "discard", "push", "fetch", "create", "remove", "update"}
      BY <1>0, <1>1 DEF PlanEffects
  <2> DEFINE t == IF action = "warm" THEN <<"update">> ELSE <<"remove", "update">>
  <2>2. todo = ((c \o d) \o push) \o t
      BY <1>1 DEF Effects
  <2>6. "push" \in S /\ "remove" \in S /\ "update" \in S /\ {"commit", "discard"} \subseteq S
      BY <2>1
  <2> HIDE DEF todo, S
  <2>3. push \in Seq(S) /\ t \in Seq(S)
      BY <2>6, WhenSeq, Short
  <2>4. (c \o d) \o push \in Seq(S)
      BY <2>3, <2>6, FinalizeSeq
  <2> HIDE DEF c, d, push, t
  <2>5. todo \in Seq(S)
      BY <2>2, <2>3, <2>4, ConcatProperties
  <2> QED
      BY <1>0, <1>1, <2>5 DEF todo, S
<1>2. CASE action = "resume"
  <2>1. S = {"commit", "discard", "push", "fetch", "create", "remove", "update"}
      BY <1>0, <1>2 DEF PlanEffects
  <2> DEFINE a == When("fetch" \in opts, "fetch")
             b == When(g.tree = None, "create")
             t == <<"update">>
  <2>2. todo = (a \o b) \o t
      BY <1>2 DEF Effects
  <2>6. "fetch" \in S /\ "create" \in S /\ "update" \in S
      BY <2>1
  <2> HIDE DEF todo, S
  <2>3. a \in Seq(S) /\ b \in Seq(S) /\ t \in Seq(S)
      BY <2>6, WhenSeq, Short
  <2> HIDE DEF a, b, t
  <2>4. a \o b \in Seq(S)
      BY <2>3, ConcatProperties
  <2>5. todo \in Seq(S)
      BY <2>2, <2>3, <2>4, ConcatProperties
  <2> QED
      BY <1>0, <1>2, <2>5 DEF todo, S
<1>3. CASE action \in {"ff", "verify"}
  <2>1. S = {"commit", "discard", "rebase", "stash", "drop", "switch", "merge",
             "restore", "verify", "update"}
      BY <1>3 DEF PlanEffects
  <2> DEFINE i == IF Integrates(opts, g) THEN IntegrationEffects(opts, g) ELSE <<>>
             u == <<"update">>
             v == <<"verify", "update">>
  <2>2. todo = IF action = "ff" THEN ((c \o d) \o i) \o u ELSE (c \o d) \o v
      BY <1>3 DEF Effects
  <2>3. u \in Seq(S) /\ v \in Seq(S)
      BY <2>1
  <2>4. i \in Seq(S)
      BY <2>1, IntegrationSeq, EmptySeq
  <2>5. {"commit", "discard"} \subseteq S
      BY <2>1
  <2> HIDE DEF S, i, u, v
  <2>6. \A t \in Seq(S) : /\ (c \o d) \o t \in Seq(S)
                          /\ Dirty(g) /\ "commit" \in opts
                             => (c \o d) \o t # <<>> /\ Head((c \o d) \o t) = "commit"
      BY <2>5, FinalizeSeq
  <2> HIDE DEF c, d, todo
  <2>7. ((c \o d) \o i) \o u \in Seq(S)
      BY <2>3, <2>4, <2>6, ConcatProperties
  <2>8. Dirty(g) /\ "commit" \in opts
        => ((c \o d) \o i) \o u # <<>> /\ Head(((c \o d) \o i) \o u) = "commit"
      BY <2>3, <2>4, <2>6, ConcatHead
  <2>9. /\ todo \in Seq(S)
        /\ Dirty(g) /\ "commit" \in opts => todo # <<>> /\ Head(todo) = "commit"
      BY <2>2, <2>3, <2>6, <2>7, <2>8
  <2> QED
      BY <1>3, <2>9 DEF todo, S
<1>6. CASE action = "review"
  <2>1. S = {"commit", "discard", "push", "review"}
      BY <1>6 DEF PlanEffects
  <2> DEFINE w == <<"push", "review">>
  <2>2. todo = (c \o d) \o w
      BY <1>6 DEF Effects
  <2>3. w \in Seq(S) /\ {"commit", "discard"} \subseteq S
      BY <2>1
  <2> HIDE DEF S, w
  <2>4. /\ (c \o d) \o w \in Seq(S)
        /\ Dirty(g) /\ "commit" \in opts
           => (c \o d) \o w # <<>> /\ Head((c \o d) \o w) = "commit"
      BY <2>3, FinalizeSeq
  <2> HIDE DEF c, d, todo
  <2> QED
      BY <1>6, <2>2, <2>4 DEF todo, S
<1>4. CASE action = "retire"
  <2> DEFINE r == "remove"
             x == "delete branch"
             p == "reap"
  <2>1. todo = (<<r>> \o When(x \in opts, x)) \o <<p>>
      BY <1>4 DEF Effects
  <2>2. r \in S /\ x \in S /\ p \in S
      BY <1>0, <1>4 DEF PlanEffects
  <2> HIDE DEF todo, S, r, x, p
  <2>5. /\ todo \in Seq(S) /\ todo \in {<<r, x, p>>, <<r, p>>}
        /\ todo # <<>> /\ Head(todo) = r
    <3>1. LET k == (<<r>> \o When(x \in opts, x)) \o <<p>>
          IN  /\ k \in Seq(S) /\ k \in {<<r, x, p>>, <<r, p>>}
              /\ k # <<>> /\ Head(k) = r
        BY <2>2, RetireSeq
    <3> QED
        BY <2>1, <3>1
  <2> QED
      BY <1>0, <1>4, <2>5 DEF RetireTodo, todo, S, r, x, p
<1>5. CASE action = "sweep"
  <2>1. todo = <<"sweep">>
      BY <1>5 DEF Effects
  <2>2. "sweep" \in S
      BY <1>0, <1>5 DEF PlanEffects
  <2> HIDE DEF todo, S
  <2>3. todo \in Seq(S)
      BY <2>1, <2>2, Short
  <2> QED
      BY <1>0, <1>5, <2>1, <2>3 DEF todo, S
<1> QED
    BY <1>0, <1>1, <1>2, <1>3, <1>4, <1>5, <1>6 DEF Action

-------------------------------------------------------------------------------
(* What is true of a job whose repository is g.                             *)

Waiting == {"want repo", "want store", "replan"}
Begun   == {"check", "act", "refresh"}

\* The job is at one of the given places of one of the given effects.
Doing(j, pcs, effects) == j.pc \in pcs /\ j.todo # <<>> /\ Head(j.todo) \in effects

TodoOK(j) ==
    /\ j.todo \in Seq(PlanEffects(j.action))
    /\ j.pc \in {"act", "refresh"} => j.todo # <<>>
    /\ j.pc = "refresh" => Head(j.todo) \notin Ends
    /\ j.action = "retire" => /\ j.todo \in RetireTodo
                              /\ j.pc \in Waiting => j.todo # <<>> /\ Head(j.todo) = "remove"
    /\ j.action = "sweep" => j.todo = <<"sweep">>

\* What works on the checkout has it, until it has acted.
NeedsTree == {"commit", "discard", "remove", "rebase", "merge"}
TreeOK(j, g) == Doing(j, {"act"}, NeedsTree) => CheckedOut(g)

\* From the check of the removal on, the branch to be deleted is in the base.
SeenMerged(j) == j.seen.local # None /\ j.seen.local \subseteq j.seen.base
RetireOK(j, g) == j.action = "retire" =>
    /\ Doing(j, {"act", "refresh"}, {"remove"}) => SeenMerged(j)
    /\ Doing(j, {"check", "act"}, {"delete branch"}) => SeenMerged(j) /\ g.tree = None
    /\ Doing(j, {"act"}, {"delete branch"}) => g.local = None \/ g.local \subseteq g.base

\* The approved work is committed, or about to be.
Covered(j, g) ==
    \/ j.work \subseteq g.local
    \/ j.todo # <<>> /\ Head(j.todo) = "commit" /\ j.work \subseteq g.local \cup g.tree
CompleteOK(j, g) == j.action \in Completion =>
    /\ j.pc \in Waiting => CheckedOut(j.seen) /\ j.seen.local # None /\ Covered(j, j.seen)
    /\ j.pc \in Begun => g.tree # None
    /\ j.pc \in {"check", "act"} => Covered(j, g)
    /\ j.pc = "refresh" => j.work \subseteq g.local
    /\ Doing(j, {"act"}, {"update"}) => j.work \subseteq g.base

JobOK(j, g) == j \in Job /\ TodoOK(j) /\ TreeOK(j, g) /\ RetireOK(j, g) /\ CompleteOK(j, g)
JobsOK == \A p \in Procs : job[p] # None => JobOK(job[p], git)

FlowInv == LockInv /\ Sound(git) /\ rec \in {None} \cup Record /\ JobsOK

(* What the user and the forge do disturbs nothing that a job relies on. *)
LEMMA OthersJob ==
    ASSUME NEW j, NEW g, NEW h, TypedGit(g), TypedGit(h), Continues(g, h), JobOK(j, g)
    PROVE  JobOK(j, h)
<1>1. TreeOK(j, h)
    BY DEF JobOK, TreeOK, CheckedOut, Continues
<1>2. RetireOK(j, h)
  <2>1. ASSUME Doing(j, {"act"}, {"delete branch"}), j.action = "retire"
        PROVE  h.local = None \/ h.local \subseteq h.base
    <3>1. g.tree = None /\ (g.local = None \/ g.local \subseteq g.base)
        BY <2>1 DEF JobOK, RetireOK, Doing
    <3>2. h.local \in {g.local, None} /\ g.base \subseteq h.base
        BY <3>1 DEF Continues
    <3> QED
        BY <3>1, <3>2
  <2>2. g.tree = None => h.tree = None
      BY DEF Continues
  <2> QED
      BY <2>1, <2>2 DEF JobOK, RetireOK
<1>3. CompleteOK(j, h)
  <2> SUFFICES ASSUME j.action \in Completion
               PROVE  CompleteOK(j, h)
      BY DEF CompleteOK
  <2>1. g.base \subseteq h.base
      BY DEF Continues
  <2>2. j.pc \in Begun => /\ h.tree # None /\ g.local \subseteq h.local
                          /\ g.local \cup g.tree \subseteq h.local \cup h.tree
      BY DEF JobOK, CompleteOK, Continues
  <2>3. j.pc \in {"check", "act"} => Covered(j, h)
    <3> SUFFICES ASSUME j.pc \in {"check", "act"}
                 PROVE  Covered(j, h)
        OBVIOUS
    <3>1. Covered(j, g)
        BY DEF JobOK, CompleteOK
    <3>2. j.pc \in Begun
        BY DEF Begun
    <3> QED
        BY <2>2, <3>1, <3>2 DEF Covered
  <2>4. j.pc = "refresh" => j.work \subseteq h.local
      BY <2>2 DEF JobOK, CompleteOK, Begun
  <2>5. Doing(j, {"act"}, {"update"}) => j.work \subseteq h.base
      BY <2>1 DEF JobOK, CompleteOK
  <2> QED
      BY <2>2, <2>3, <2>4, <2>5 DEF JobOK, CompleteOK
<1> QED
    BY <1>1, <1>2, <1>3 DEF JobOK

(* A job that has not begun relies on nothing. *)
LEMMA IdleJob ==
    ASSUME NEW j, NEW g, NEW h, JobOK(j, g), j.pc \notin Begun
    PROVE  JobOK(j, h)
<1>1. TreeOK(j, h) /\ RetireOK(j, h)
    BY DEF TreeOK, RetireOK, Doing, Begun
<1>2. CompleteOK(j, h)
    BY DEF JobOK, CompleteOK, Doing, Begun
<1> QED
    BY <1>1, <1>2 DEF JobOK

-------------------------------------------------------------------------------
(* Each step leaves its own job in order.                                   *)

LEMMA ObservedTyped ==
    ASSUME NEW g \in Repository
    PROVE  /\ Observed(g) \in Repository
           /\ \A f \in {"tree", "rebasing", "local", "upstream", "tracking", "rewritten",
                        "base", "main"} : Observed(g)[f] = g[f]
    BY DEF Observed, Repository, Ref, Work

LEMMA RetireOptions ==
    ASSUME NEW action, NEW g, action = "retire"
    PROVE  Options(action, g) = SUBSET {"delete branch"}
    BY DEF Options

(* The options offered are options. *)
LEMMA OptionsTyped ==
    ASSUME NEW action \in Action, NEW g, NEW opts \in Options(action, g)
    PROVE  opts \subseteq Option
<1>1. CASE action \in {"warm", "cold"}
  <2>1. CASE action = "warm"
    <3>1. opts \subseteq {"commit", "push"}
        BY <2>1 DEF Options
    <3> QED
        BY <3>1 DEF Option
  <2>2. CASE action = "cold"
    <3>1. opts \subseteq {"commit", "push"}
        BY <2>2 DEF Options
    <3> QED
        BY <3>1 DEF Option
  <2> QED
      BY <1>1, <2>1, <2>2
<1>2. CASE action = "resume"
  <2>1. opts \subseteq {"fetch"}
      BY <1>2 DEF Options
  <2> QED
      BY <2>1 DEF Option
<1>3. CASE action = "retire"
  <2>1. Options(action, g) = SUBSET {"delete branch"}
      BY <1>3, RetireOptions
  <2> QED
      BY <2>1 DEF Option
<1>4. CASE action = "ff"
  <2>1. opts \subseteq {"commit", "discard", "stash", "drop"}
      BY <1>4 DEF Options
  <2> QED
      BY <2>1 DEF Option
<1>5. CASE action \in {"verify", "review"}
  <2>1. opts \in {{}, {"commit"}, {"discard"}}
      BY <1>5 DEF Options
  <2> QED
      BY <2>1 DEF Option
<1>6. CASE action = "sweep"
  <2>1. opts = {}
      BY <1>6 DEF Options
  <2> QED
      BY <2>1
<1> QED
    BY <1>1, <1>2, <1>3, <1>4, <1>5, <1>6 DEF Action

(* An approved plan is in order: a completion covers the work it is about. *)
LEMMA PlanJob ==
    ASSUME Sound(git), rec \in Record, NEW action \in Actions,
           NEW opts \in Options(action, git), Ready(action, opts, rec, git)
    PROVE  JobOK(Approved(action, opts), git)
<1> DEFINE k == Approved(action, opts)
           todo == Effects(action, opts, git)
<1>0. git \in Repository /\ action \in Action
    BY ActionsAssumption DEF Sound, TypedGit
<1>1. /\ k.action = action /\ k.opts = opts /\ k.rec = rec /\ k.seen = Observed(git)
      /\ k.todo = todo /\ k.touched = FALSE /\ k.stashed = {} /\ k.restored = FALSE
      /\ k.pc = IF action = "sweep" THEN "want store" ELSE "want repo"
      /\ k.work = WorkOf(opts)
      /\ k = [pc |-> k.pc, action |-> k.action, opts |-> k.opts, rec |-> k.rec,
              work |-> k.work, seen |-> k.seen, todo |-> k.todo, touched |-> k.touched,
              stashed |-> k.stashed, restored |-> k.restored]
    BY DEF Approved
<1> HIDE DEF k
<1>2. /\ todo \in Seq(PlanEffects(action))
      /\ action = "retire" => todo \in RetireTodo /\ todo # <<>> /\ Head(todo) = "remove"
      /\ action = "sweep" => todo = <<"sweep">>
      /\ action \in Completion /\ Dirty(git) /\ "commit" \in opts
         => todo # <<>> /\ Head(todo) = "commit"
    BY <1>0, EffectsTyped
<1> HIDE DEF todo
<1>3. k \in Job
  <2>1. opts \in SUBSET Option
      BY <1>0, OptionsTyped
  <2>2. k.work \in Work
      BY <1>0, <1>1 DEF WorkOf, AllWork, Repository, Ref, Work
  <2>3. PlanEffects(action) \subseteq Effect
      BY DEF PlanEffects, Effect
  <2>4. todo \in Seq(Effect)
      BY <1>2, <2>3, SeqMonotonic
  <2>5. k.seen \in Repository
      BY <1>0, <1>1, ObservedTyped
  <2>6. k.stashed \in Work
      BY <1>1 DEF Work
  <2>7. k.pc \in PC
      BY <1>1 DEF PC
  <2> QED
      BY <1>0, <1>1, <2>1, <2>2, <2>4, <2>5, <2>6, <2>7 DEF Job
<1>4. TodoOK(k)
    BY <1>1, <1>2 DEF TodoOK
<1>5. TreeOK(k, git) /\ RetireOK(k, git)
    BY <1>1 DEF TreeOK, RetireOK, Doing
<1>6. CompleteOK(k, git)
  <2> SUFFICES ASSUME action \in Completion
               PROVE  CompleteOK(k, git)
      BY <1>1 DEF CompleteOK
  <2>1. CheckedOut(git) /\ (Dirty(git) => opts \cap {"commit", "discard"} # {})
      BY DEF Ready, ReadyToComplete, Completion
  <2>2. git.tree # None /\ git.local # None
      BY <2>1 DEF CheckedOut, Sound, TypedGit
  <2>3. WorkOf(opts) = (git.local \cup git.tree)
                       \ (IF "discard" \in opts THEN git.tree \ git.local ELSE {})
    <3>1. AllWork = git.local \cup git.tree
        BY <2>2 DEF AllWork
    <3> QED
        BY <3>1 DEF WorkOf
  <2>4. \/ k.work \subseteq git.local
        \/ k.todo # <<>> /\ Head(k.todo) = "commit" /\ k.work \subseteq git.local \cup git.tree
    <3>1. CASE ~Dirty(git)
        BY <1>1, <2>2, <2>3, <3>1 DEF Dirty
    <3>2. CASE "discard" \in opts
        BY <1>1, <2>3, <3>2
    <3>3. CASE Dirty(git) /\ "commit" \in opts
        BY <1>1, <1>2, <2>3, <3>3
    <3> QED
        BY <2>1, <3>1, <3>2, <3>3
  <2>5. /\ k.seen.tree = git.tree /\ k.seen.local = git.local
        /\ k.seen.rebasing = git.rebasing
      BY <1>0, <1>1, ObservedTyped
  <2>6. CheckedOut(k.seen) /\ Covered(k, k.seen)
      BY <2>1, <2>4, <2>5 DEF CheckedOut, Covered
  <2>7. k.pc = "want repo"
      BY <1>1 DEF Completion
  <2> QED
      BY <2>2, <2>5, <2>6, <2>7 DEF CompleteOK, Begun, Doing
<1> QED
    BY <1>3, <1>4, <1>5, <1>6 DEF JobOK, k

(* The plan made again under the locks is: the repository is the one approved. *)
LEMMA ReplanJob ==
    ASSUME Sound(git), NEW j, JobOK(j, git), j.pc = "replan", SamePlan(j),
           Ready(j.action, j.opts, rec, git)
    PROVE  JobOK([j EXCEPT !.pc = "check", !.seen = Observed(git)], git)
<1> DEFINE k == [j EXCEPT !.pc = "check", !.seen = Observed(git)]
<1>0. j \in Job /\ git \in Repository
    BY DEF JobOK, Sound, TypedGit
<1>1. /\ k.pc = "check" /\ k.action = j.action /\ k.todo = j.todo /\ k.work = j.work
      /\ k.seen = Observed(git)
    BY <1>0 DEF Job
<1>2. k \in Job
    BY <1>0, ObservedTyped DEF Job, PC
<1> HIDE DEF k
<1>3. TodoOK(k) /\ TreeOK(k, git)
    BY <1>1 DEF JobOK, TodoOK, TreeOK, Doing, Waiting
<1>4. RetireOK(k, git)
  <2>1. j.action = "retire" => Head(j.todo) = "remove"
      BY DEF JobOK, TodoOK, Waiting
  <2> QED
      BY <1>1, <2>1 DEF RetireOK, Doing
<1>5. CompleteOK(k, git)
  <2> SUFFICES ASSUME j.action \in Completion
               PROVE  CompleteOK(k, git)
      BY <1>1 DEF CompleteOK
  <2>1. CheckedOut(git)
      BY DEF Ready, ReadyToComplete, Completion
  <2>2. j.seen.tree # None /\ Covered(j, j.seen)
      BY DEF JobOK, CompleteOK, Waiting, CheckedOut
  <2>3. git.tree = j.seen.tree /\ git.local = j.seen.local
      BY <2>1, <2>2 DEF SamePlan, Same, SameTree, SameRefs, CheckedOut
  <2>4. Covered(k, git)
      BY <1>1, <2>2, <2>3 DEF Covered
  <2> QED
      BY <1>1, <2>1, <2>4 DEF CompleteOK, Doing, Waiting, CheckedOut
<1> QED
    BY <1>2, <1>3, <1>4, <1>5 DEF JobOK, k

(* What the checks before an effect establish. *)
LEMMA CheckJob ==
    ASSUME Sound(git), NEW j, JobOK(j, git), j.pc = "check", j.todo # <<>>,
           Boundary(j, Head(j.todo))
    PROVE  JobOK([j EXCEPT !.pc = "act"], git)
<1> DEFINE k == [j EXCEPT !.pc = "act"]
           effect == Head(j.todo)
<1>0. j \in Job /\ git \in Repository /\ (git.tree # None => git.local # None)
    BY DEF JobOK, Sound, TypedGit
<1>1. /\ k.pc = "act" /\ k.action = j.action /\ k.todo = j.todo /\ k.work = j.work
      /\ k.seen = j.seen
    BY <1>0 DEF Job
<1>2. k \in Job
    BY <1>0 DEF Job, PC
<1>3. effect \in PlanEffects(j.action)
    BY HeadTailProperties DEF JobOK, TodoOK
<1> HIDE DEF k
<1>4. TodoOK(k)
    BY <1>1 DEF JobOK, TodoOK, Waiting
<1>5. TreeOK(k, git)
  <2>1. CASE effect \in {"commit", "discard", "rebase"}
      BY <2>1 DEF Boundary, Same, TreeOK
  <2>2. CASE effect = "remove"
      BY <2>2 DEF Boundary, ColdReady, Same, TreeOK
  <2>3. CASE effect = "merge"
      BY <2>3 DEF Boundary, FastForward, Same, TreeOK
  <2> QED
      BY <1>1, <2>1, <2>2, <2>3 DEF TreeOK, Doing, NeedsTree
<1>6. RetireOK(k, git)
  <2> SUFFICES ASSUME j.action = "retire"
               PROVE  RetireOK(k, git)
      BY <1>1 DEF RetireOK
  <2>1. CASE effect = "remove"
    <3>1. Same(j) /\ ReadyToRetire(git)
        BY <2>1 DEF Boundary
    <3>2. git.local = j.seen.local /\ git.base = j.seen.base /\ git.local # None
        BY <1>0, <3>1 DEF Same, SameRefs, CheckedOut
    <3>3. SeenMerged(k)
        BY <1>1, <3>1, <3>2 DEF ReadyToRetire, Contained, SeenMerged
    <3> QED
        BY <1>1, <2>1, <3>3 DEF RetireOK, Doing
  <2>2. CASE effect = "delete branch"
    <3>1. SeenMerged(j) /\ git.tree = None
        BY <2>2 DEF JobOK, RetireOK, Doing
    <3>2. git.local = j.seen.local /\ git.base = j.seen.base
        BY <2>2 DEF Boundary
    <3> QED
        BY <1>1, <2>2, <3>1, <3>2 DEF RetireOK, Doing, SeenMerged
  <2>3. CASE effect \notin {"remove", "delete branch"}
      BY <1>1, <2>3 DEF RetireOK, Doing
  <2> QED
      BY <2>1, <2>2, <2>3
<1>7. CompleteOK(k, git)
  <2> SUFFICES ASSUME j.action \in Completion
               PROVE  CompleteOK(k, git)
      BY <1>1 DEF CompleteOK
  <2>1. git.tree # None /\ Covered(j, git)
      BY DEF JobOK, CompleteOK, Begun
  <2>2. Covered(k, git)
      BY <1>1, <2>1 DEF Covered
  <2>3. ASSUME effect = "update"
        PROVE  j.work \subseteq git.base
    <3>1. j.action \in {"ff", "verify"}
        BY <1>3, <2>3 DEF PlanEffects, Completion
    <3>2. Contained(git)
        BY <2>3, <3>1 DEF Boundary, BeforeUpdate, Integrated
    <3> QED
        BY <2>1, <2>3, <3>2 DEF Covered, Contained
  <2> QED
      BY <1>1, <2>1, <2>2, <2>3 DEF CompleteOK, Doing, Waiting
<1> QED
    BY <1>2, <1>4, <1>5, <1>6, <1>7 DEF JobOK, k

(* A job that runs may wait for its locks, or restore a stash, in any state.   *)
LEMMA ElsewhereJob ==
    ASSUME NEW j, JobOK(j, git), NEW pc,
           \/ j.pc \in Waiting /\ pc \in Waiting
           \/ pc = "restore"
           \/ j.pc = "want store" /\ j.action = "sweep" /\ pc = "act"
    PROVE  JobOK([j EXCEPT !.pc = pc], git)
<1> DEFINE k == [j EXCEPT !.pc = pc]
<1>0. j \in Job
    BY DEF JobOK
<1>1. /\ k.pc = pc /\ k.action = j.action /\ k.todo = j.todo /\ k.work = j.work
      /\ k.seen = j.seen
    BY <1>0 DEF Job
<1>2. k \in Job
    BY <1>0 DEF Job, PC, Waiting
<1>3. pc = "act" => j.todo # <<>> /\ Head(j.todo) = "sweep"
  <2>1. pc = "act" => j.todo = <<"sweep">>
      BY DEF JobOK, TodoOK, Waiting
  <2> QED
      BY <2>1, SweepSeq
<1> HIDE DEF k
<1>4. TodoOK(k)
    BY <1>1, <1>3 DEF JobOK, TodoOK, Waiting
<1>5. TreeOK(k, git) /\ RetireOK(k, git)
    BY <1>1, <1>3 DEF TreeOK, RetireOK, Doing, NeedsTree, Waiting
<1>6. CompleteOK(k, git)
  <2>1. CASE pc \in Waiting
      BY <1>1, <2>1 DEF JobOK, CompleteOK, Covered, Doing, Waiting, Begun
  <2>2. CASE pc = "restore"
      BY <1>1, <2>2 DEF CompleteOK, Doing, Waiting, Begun
  <2>3. CASE j.action = "sweep"
      BY <1>1, <2>3 DEF CompleteOK, Completion
  <2> QED
      BY <2>1, <2>2, <2>3
<1> QED
    BY <1>2, <1>4, <1>5, <1>6 DEF JobOK, k

(* An effect that Git can run loses no work: the checks before it saw to what  *)
(* Git does not.                                                            *)
LEMMA ActSound ==
    ASSUME Sound(git), NEW j, JobOK(j, git), j.pc = "act",
           NEW effect, effect = Head(j.todo), effect \notin Ends,
           Possible(j, effect), NEW h \in Results(j, effect)
    PROVE  Sound(h)
<1>0. /\ git \in Repository /\ (git.tree # None => git.local # None)
      /\ j \in Job /\ j.todo # <<>> /\ effect \in PlanEffects(j.action)
    BY HeadTailProperties DEF JobOK, TodoOK, Sound, TypedGit
<1>1. effect \in NeedsTree => CheckedOut(git)
    BY <1>0 DEF JobOK, TreeOK, Doing
<1>2. CASE effect = "commit"
    BY <1>1, <1>2, CommitSound DEF Results, NeedsTree, CheckedOut
<1>3. CASE effect = "discard"
    BY <1>1, <1>3, DiscardSound DEF Results, NeedsTree, CheckedOut
<1>4. CASE effect = "push"
    BY <1>4, PushSound DEF Results, Possible
<1>5. CASE effect = "fetch"
    BY <1>5, FetchSound DEF Results
<1>6. CASE effect = "create"
    BY <1>6, AddSound DEF Results, Possible
<1>7. CASE effect = "remove"
    BY <1>1, <1>7, RemoveSound DEF Results, Possible, NeedsTree, CheckedOut
<1>8. CASE effect = "rebase"
    BY <1>1, <1>8, RebaseSound DEF Results, NeedsTree, CheckedOut
<1>9. CASE effect = "stash"
    BY <1>9, StashSound DEF Results
<1>10. CASE effect = "drop"
    BY <1>10, DropSound DEF Results
<1>11. CASE effect = "merge"
    BY <1>0, <1>1, <1>11, MergeSound DEF Results, Possible, NeedsTree, CheckedOut
<1>12. CASE effect = "restore"
  <2>1. j.stashed \in Work
      BY <1>0 DEF Job
  <2> QED
      BY <1>12, <2>1, RestoreSound DEF Results
<1>13. CASE effect = "delete branch"
  <2>1. j.action = "retire"
      BY <1>0, <1>13 DEF PlanEffects, Completion
  <2>2. git.tree = None /\ (git.local = None \/ git.local \subseteq git.base)
      BY <1>0, <1>13, <2>1 DEF JobOK, RetireOK, Doing
  <2>3. git.local # None
      BY <1>13 DEF Possible, CanDelete
  <2>4. Sound(Deleted(git))
      BY <2>2, <2>3, DeleteSound
  <2> QED
      BY <1>13, <2>4 DEF Results
<1>14. CASE effect \in {"switch", "verify", "review"}
    BY <1>14 DEF Results
<1> QED
    BY <1>0, <1>2, <1>3, <1>4, <1>5, <1>6, <1>7, <1>8, <1>9, <1>10, <1>11, <1>12, <1>13, <1>14
    DEF PlanEffects, Ends

(* The effects of a completion keep the checkout and what is committed, and a  *)
(* commit commits the rest.                                                  *)
LEMMA ActCompletes ==
    ASSUME TypedGit(git), NEW j, NEW effect \in PlanEffects(j.action), j.action \in Completion,
           git.tree # None, effect \notin Ends, Possible(j, effect), NEW h \in Results(j, effect)
    PROVE  /\ h.tree # None /\ git.local \subseteq h.local
           /\ effect = "commit" => git.local \cup git.tree \subseteq h.local
<1>0. git \in Repository /\ git.local # None
    BY DEF TypedGit
<1>1. CASE effect = "commit"
    BY <1>0, <1>1, RefAssumption DEF Results, Committed, Repository, Ref, Work
<1>2. CASE effect = "discard"
    BY <1>0, <1>2, RefAssumption DEF Results, Discarded, Repository, Work
<1>3. CASE effect = "push"
    BY <1>0, <1>3 DEF Results, Pushed, Repository
<1>4. CASE effect = "rebase"
    BY <1>0, <1>4 DEF Results, Rebased, Repository
<1>5. CASE effect = "stash"
    BY <1>0, <1>5 DEF Results, Stashed, Repository
<1>6. CASE effect = "drop"
    BY <1>0, <1>6 DEF Results, MainDropped, Repository
<1>7. CASE effect = "merge"
    BY <1>0, <1>7 DEF Results, Merged, Repository
<1>8. CASE effect = "restore"
    BY <1>0, <1>8 DEF Results, Restored, Repository
<1>9. CASE effect \in {"switch", "verify", "review"}
    BY <1>0, <1>9 DEF Results
<1> QED
    BY <1>1, <1>2, <1>3, <1>4, <1>5, <1>6, <1>7, <1>8, <1>9
    DEF PlanEffects, Completion, Ends

(* Only the deletion of the branch deletes it. *)
LEMMA ActKeepsBranch ==
    ASSUME git \in Repository, git.local # None, NEW j, NEW effect,
           NEW h \in Results(j, effect), Sound(h), h.local = None, Possible(j, effect)
    PROVE  effect = "delete branch"
<1> SUFFICES ASSUME effect # "delete branch"
             PROVE  h.local # None
    OBVIOUS
<1>1. CASE effect = "commit"
    BY <1>1, RefAssumption DEF Results, Committed, Repository, Ref, Work, Sound, TypedGit
<1>2. CASE effect \in {"discard", "push", "fetch"}
    BY <1>2 DEF Results, Discarded, Pushed, Fetched, Repository
<1>3. CASE effect \in {"create", "remove"}
    BY <1>3 DEF Results, Added, Removed, Repository
<1>4. CASE effect = "rebase"
    BY <1>4, RefAssumption DEF Results, Rebased, Repository, Ref, Work
<1>5. CASE effect \in {"stash", "drop", "merge", "restore"}
    BY <1>5 DEF Results, Stashed, MainDropped, Merged, Restored, Repository
<1> QED
    BY <1>1, <1>2, <1>3, <1>4, <1>5 DEF Results

(* An effect leaves its own job in order. *)
LEMMA ActJob ==
    ASSUME Sound(git), NEW j, JobOK(j, git), j.pc = "act",
           NEW effect, effect = Head(j.todo), effect \notin Ends,
           Possible(j, effect), NEW h \in Results(j, effect), Sound(h)
    PROVE  JobOK(Acted(j, effect, h), h)
<1> DEFINE k == Acted(j, effect, h)
<1>0. /\ j \in Job /\ git \in Repository /\ h \in Repository
      /\ j.todo # <<>> /\ effect \in PlanEffects(j.action)
    BY HeadTailProperties DEF JobOK, TodoOK, Sound, TypedGit
<1>1. /\ k.pc = "refresh" /\ k.action = j.action /\ k.todo = j.todo /\ k.work = j.work
      /\ effect # "commit" => k.seen = j.seen
    BY <1>0 DEF Job, Acted, Repository
<1>2. k \in Job
  <2>1. j.seen \in Repository /\ h.local \in Ref /\ git.main \in Work /\ {} \in Work
      BY <1>0 DEF Job, Repository, Work
  <2>2. [j.seen EXCEPT !.local = h.local] \in Repository
      BY <2>1 DEF Repository
  <2> QED
      BY <1>0, <2>1, <2>2 DEF Job, PC, Acted, Repository
<1> HIDE DEF k
<1>3. TodoOK(k) /\ TreeOK(k, h)
    BY <1>1 DEF JobOK, TodoOK, TreeOK, Doing, Waiting
<1>4. RetireOK(k, h)
    BY <1>1 DEF JobOK, RetireOK, Doing, SeenMerged
<1>5. CompleteOK(k, h)
  <2> SUFFICES ASSUME j.action \in Completion
               PROVE  CompleteOK(k, h)
      BY <1>1 DEF CompleteOK
  <2>1. git.tree # None /\ Covered(j, git)
      BY DEF JobOK, CompleteOK, Begun
  <2>2. /\ h.tree # None /\ git.local \subseteq h.local
        /\ effect = "commit" => git.local \cup git.tree \subseteq h.local
      BY <1>0, <2>1, ActCompletes DEF Sound
  <2>3. j.work \subseteq h.local
      BY <2>1, <2>2 DEF Covered
  <2> QED
      BY <1>1, <2>2, <2>3 DEF CompleteOK, Doing, Waiting
<1> QED
    BY <1>2, <1>3, <1>4, <1>5 DEF JobOK, k

(* What is adopted after an effect is what the next check needs. *)
LEMMA RefreshJob ==
    ASSUME Sound(git), NEW j, JobOK(j, git), j.pc = "refresh", Verified(j, Head(j.todo))
    PROVE  JobOK([j EXCEPT !.pc = "check", !.todo = Tail(@), !.seen = Adopted(j, Head(j.todo))],
                 git)
<1> DEFINE effect == Head(j.todo)
           k == [j EXCEPT !.pc = "check", !.todo = Tail(@), !.seen = Adopted(j, effect)]
<1>0. /\ j \in Job /\ git \in Repository
      /\ j.todo # <<>> /\ j.todo \in Seq(PlanEffects(j.action)) /\ effect \notin Ends
    BY DEF JobOK, TodoOK, Sound, TypedGit
<1>1. /\ k.pc = "check" /\ k.action = j.action /\ k.todo = Tail(j.todo) /\ k.work = j.work
      /\ k.seen = Adopted(j, effect)
    BY <1>0 DEF Job
<1>2. Adopted(j, effect) \in Repository
  <2>1. j.seen \in Repository /\ Observed(git) \in Repository
      BY <1>0, ObservedTyped DEF Job
  <2>2. /\ [j.seen EXCEPT !.main = git.main] \in Repository
        /\ [j.seen EXCEPT !.base = git.base] \in Repository
        /\ [Observed(git) EXCEPT !.main = j.seen.main] \in Repository
      BY <1>0, <2>1 DEF Repository
  <2> QED
      BY <2>1, <2>2 DEF Adopted
<1>3. Tail(j.todo) \in Seq(PlanEffects(j.action)) /\ Tail(j.todo) \in Seq(Effect)
    BY <1>0, HeadTailProperties DEF Job
<1>4. k \in Job
    BY <1>0, <1>2, <1>3 DEF Job, PC
<1>5. j.action = "retire" =>
        /\ Tail(j.todo) \in RetireTodo
        /\ Tail(j.todo) # <<>> /\ Head(Tail(j.todo)) = "delete branch" => effect = "remove"
  <2> DEFINE r == "remove"
             x == "delete branch"
             p == "reap"
  <2> SUFFICES ASSUME j.action = "retire"
               PROVE  /\ Tail(j.todo) \in RetireTodo
                      /\ Tail(j.todo) # <<>> /\ Head(Tail(j.todo)) = x => effect = r
      OBVIOUS
  <2>1. RetireTodo = {<<r, x, p>>, <<r, p>>, <<x, p>>, <<p>>, <<>>}
      BY DEF RetireTodo
  <2>2. j.todo \in RetireTodo /\ p # x
      BY DEF JobOK, TodoOK
  <2>3. r \in Effect /\ x \in Effect /\ p \in Effect
      BY DEF Effect
  <2> HIDE DEF r, x, p
  <2>4. CASE j.todo = <<r, x, p>>
    <3>1. Tail(<<r, x, p>>) = <<x, p>> /\ Head(<<r, x, p>>) = r
        BY <2>3, Triple
    <3> QED
        BY <2>1, <2>4, <3>1
  <2>5. CASE j.todo = <<r, p>>
    <3>1. Tail(<<r, p>>) = <<p>> /\ Head(<<r, p>>) = r
        BY <2>3, Short
    <3> QED
        BY <2>1, <2>5, <3>1
  <2>6. CASE j.todo = <<x, p>>
    <3>1. Tail(<<x, p>>) = <<p>> /\ Head(<<p>>) = p
        BY <2>3, Short
    <3> QED
        BY <2>1, <2>2, <2>6, <3>1
  <2>7. CASE j.todo = <<p>>
    <3>1. Tail(<<p>>) = <<>>
        BY <2>3, Short
    <3> QED
        BY <2>1, <2>7, <3>1
  <2> QED
      BY <1>0, <2>1, <2>2, <2>4, <2>5, <2>6, <2>7
<1>6. j.action # "sweep"
  <2>1. j.action = "sweep" => j.todo = <<"sweep">>
      BY DEF JobOK, TodoOK
  <2> QED
      BY <1>0, <2>1, SweepSeq DEF Ends
<1> HIDE DEF k, effect
<1>7. TodoOK(k) /\ TreeOK(k, git)
    BY <1>1, <1>3, <1>5, <1>6 DEF TodoOK, TreeOK, Doing, Waiting
<1>8. RetireOK(k, git)
  <2> SUFFICES ASSUME j.action = "retire", Doing(k, {"check"}, {"delete branch"})
               PROVE  SeenMerged(k) /\ git.tree = None
      BY <1>1 DEF RetireOK, Doing
  <2>1. effect = "remove"
      BY <1>1, <1>5 DEF Doing
  <2>2. SeenMerged(j)
      BY <1>0, <2>1 DEF JobOK, RetireOK, Doing, effect
  <2>3. git.tree = None
      BY <2>1 DEF Verified, effect
  <2>4. Adopted(j, effect) = j.seen
      BY <2>1 DEF Adopted
  <2> QED
      BY <1>1, <2>2, <2>3, <2>4 DEF SeenMerged
<1>9. CompleteOK(k, git)
    BY <1>1 DEF JobOK, CompleteOK, Covered, Doing, Begun, Waiting
<1> QED
    BY <1>4, <1>7, <1>8, <1>9 DEF JobOK, k, effect

(* A review handoff aside, a plan ends by a record of the proper type. *)
LEMMA RecordTyped ==
    ASSUME NEW j \in Job
    PROVE  AfterRecord(j) \in Record
<1>1. Target(j.action) \in State
    BY DEF Target, State, Job, Action
<1> QED
    BY <1>1 DEF AfterRecord, Job, Record

(* A refused job ends, or goes on to restore its stash. *)
LEMMA FailedJob ==
    ASSUME FlowInv, NEW p \in Procs, job[p] # None, Failed(p), job'[p] # None, NEW h
    PROVE  /\ JobOK(job'[p], h)
           /\ job'[p] = [job[p] EXCEPT !.pc = "restore"]
<1> DEFINE k == [job[p] EXCEPT !.pc = "restore"]
<1>1. job'[p] = k
    BY DEF FlowInv, LockInv, JobShape, Failed
<1>2. JobOK(k, git)
    BY ElsewhereJob DEF FlowInv, JobsOK
<1>3. k.pc \notin Begun
  <2>1. job[p] \in Job
      BY DEF FlowInv, JobsOK, JobOK
  <2> QED
      BY <2>1 DEF Job, Begun
<1> HIDE DEF k
<1>4. JobOK(k, h)
    BY <1>2, <1>3, IdleJob
<1> QED
    BY <1>1, <1>4 DEF k

(* A step of p keeps the repository sound and its own job in order. *)
LEMMA OwnStep ==
    ASSUME FlowInv, NEW p \in Procs, Step(p)
    PROVE  Sound(git') /\ (job'[p] # None => JobOK(job'[p], git'))
<1> DEFINE j == job[p]
<1>0. /\ Sound(git) /\ DOMAIN job = Procs
      /\ j # None => JobOK(j, git) /\ j \in Job
    BY DEF FlowInv, LockInv, JobShape, JobsOK, JobOK
<1>1. CASE Plan(p)
  <2>1. PICK action \in Actions :
          \E opts \in Options(action, git) :
             /\ Ready(action, opts, rec, git)
             /\ job' = [job EXCEPT ![p] = Approved(action, opts)]
      BY <1>1 DEF Plan
  <2>2. PICK opts \in Options(action, git) :
             /\ Ready(action, opts, rec, git)
             /\ job' = [job EXCEPT ![p] = Approved(action, opts)]
      BY <2>1
  <2>3. rec \in Record /\ git' = git
      BY <1>1 DEF Plan, FlowInv
  <2>4. JobOK(Approved(action, opts), git)
      BY <1>0, <2>2, <2>3, PlanJob
  <2> QED
      BY <1>0, <2>2, <2>3, <2>4
<1>2. CASE LockRepo(p) \/ LockStore(p)
  <2>1. PICK pc :
          /\ job' = [job EXCEPT ![p].pc = pc] /\ git' = git /\ j # None
          /\ \/ j.pc \in Waiting /\ pc \in Waiting
             \/ j.pc = "want store" /\ j.action = "sweep" /\ pc = "act"
    <3>1. CASE LockRepo(p)
        BY <3>1 DEF LockRepo, At, Goto, Waiting
    <3>2. CASE LockStore(p) /\ j.action = "sweep"
        BY <3>2 DEF LockStore, At, Goto, Waiting
    <3>3. CASE LockStore(p) /\ j.action # "sweep"
        BY <3>3 DEF LockStore, At, Goto, Waiting
    <3> QED
        BY <1>2, <3>1, <3>2, <3>3
  <2>2. JobOK([j EXCEPT !.pc = pc], git)
      BY <1>0, <2>1, ElsewhereJob
  <2> QED
      BY <1>0, <2>1, <2>2
<1>3. CASE Replan(p)
  <2>1. CASE End(p)
      BY <1>0, <1>3, <2>1 DEF Replan, End
  <2>2. CASE ~End(p)
    <3>1. /\ j # None /\ j.pc = "replan" /\ SamePlan(j) /\ git' = git
          /\ Ready(j.action, j.opts, rec, git)
          /\ job' = [job EXCEPT ![p].pc = "check", ![p].seen = Observed(git)]
        BY <1>3, <2>2 DEF Replan, At
    <3>2. JobOK([j EXCEPT !.pc = "check", !.seen = Observed(git)], git)
        BY <1>0, <3>1, ReplanJob
    <3> QED
        BY <1>0, <3>1, <3>2
  <2> QED
      BY <2>1, <2>2
<1>4. CASE Check(p)
  <2>1. /\ j # None /\ j.pc = "check" /\ j.todo # <<>> /\ Boundary(j, Head(j.todo))
        /\ git' = git /\ job' = [job EXCEPT ![p].pc = "act"]
      BY <1>4 DEF Check, At, Goto
  <2>2. JobOK([j EXCEPT !.pc = "act"], git)
      BY <1>0, <2>1, CheckJob
  <2> QED
      BY <1>0, <2>1, <2>2
<1>5. CASE Act(p)
  <2> DEFINE effect == Head(j.todo)
  <2>1. /\ j # None /\ j.pc = "act" /\ effect \notin Ends /\ Possible(j, effect)
        /\ git' \in Results(j, effect)
        /\ job' = [job EXCEPT ![p] = Acted(j, effect, git')]
      BY <1>5 DEF Act, At
  <2>2. Sound(git')
      BY <1>0, <2>1, ActSound
  <2>3. JobOK(Acted(j, effect, git'), git')
      BY <1>0, <2>1, <2>2, ActJob
  <2> QED
      BY <1>0, <2>1, <2>2, <2>3
<1>6. CASE Refresh(p)
  <2> DEFINE k == [j EXCEPT !.pc = "check", !.todo = Tail(@), !.seen = Adopted(j, Head(j.todo))]
  <2>1. /\ j # None /\ j.pc = "refresh" /\ Verified(j, Head(j.todo)) /\ git' = git
        /\ job'[p] = k
      BY <1>0, <1>6 DEF Refresh, At
  <2>2. JobOK(k, git)
      BY <1>0, <2>1, RefreshJob
  <2> QED
      BY <1>0, <2>1, <2>2
<1>7. CASE Write(p) \/ Finish(p) \/ RestoreFails(p) \/ Crash(p)
    BY <1>0, <1>7 DEF Write, Finish, RestoreFails, Crash, End
<1>8. CASE Fail(p)
  <2>1. j # None /\ Failed(p) /\ git' = git
      BY <1>8 DEF Fail
  <2> QED
      BY <1>0, <2>1, FailedJob
<1>9. CASE Restore(p)
  <2>1. j # None /\ git' = Restored(git, j.stashed) /\ job'[p] = None
      BY <1>0, <1>9 DEF Restore, At, End
  <2>2. j.stashed \in Work
      BY <1>0, <2>1 DEF Job
  <2> QED
      BY <1>0, <2>1, <2>2, RestoreSound
<1>10. CASE RebaseStops(p)
  <2>1. j # None /\ Failed(p) /\ CanRebase(git) /\ git' = [git EXCEPT !.rebasing = TRUE]
      BY <1>10 DEF RebaseStops, At, Stopped
  <2>2. git.tree # None
      BY <2>1, RefAssumption DEF CanRebase, Work
  <2>3. Sound(git')
      BY <1>0, <2>1, <2>2, StopSound
  <2> QED
      BY <2>1, <2>3, FailedJob
<1>11. CASE StashUnnamed(p)
  <2>1. j # None /\ Failed(p) /\ git' = Stashed(git)
      BY <1>11 DEF StashUnnamed, At
  <2> QED
      BY <1>0, <2>1, StashSound, FailedJob
<1> QED
    BY <1>1, <1>2, <1>3, <1>4, <1>5, <1>6, <1>7, <1>8, <1>9, <1>10, <1>11 DEF Step

(* Only a process that holds the task store's lock touches the repository. *)
LEMMA LockedGit ==
    ASSUME NEW p \in Procs, Step(p)
    PROVE  git' = git \/ HoldsStore(p)
<1>1. CASE \/ Plan(p) \/ LockRepo(p) \/ LockStore(p) \/ Replan(p) \/ Check(p) \/ Refresh(p)
           \/ Write(p) \/ Finish(p) \/ Fail(p) \/ RestoreFails(p) \/ Crash(p)
    BY <1>1 DEF Plan, LockRepo, LockStore, Replan, Check, Refresh, Write, Finish, Fail,
                RestoreFails, Crash
<1>2. CASE Act(p) \/ Restore(p) \/ RebaseStops(p) \/ StashUnnamed(p)
    BY <1>2 DEF Act, Restore, RebaseStops, StashUnnamed, At, HoldsStore, Running
<1> QED
    BY <1>1, <1>2 DEF Step

(* The record keeps its type. *)
LEMMA RecordStep ==
    ASSUME FlowInv, NEW p \in Procs, Step(p)
    PROVE  rec' \in {None} \cup Record
<1>1. CASE Write(p)
  <2>1. rec' \in {AfterRecord(job[p]), None} /\ job[p] # None
      BY <1>1 DEF Write, At
  <2>2. AfterRecord(job[p]) \in Record
      BY <2>1, RecordTyped DEF FlowInv, JobsOK, JobOK
  <2> QED
      BY <2>1, <2>2
<1>2. CASE ~Write(p)
  <2>1. rec' = rec
      BY <1>2 DEF Step, Plan, LockRepo, LockStore, Replan, Check, Act, Refresh, Finish, Fail,
                  Restore, RestoreFails, RebaseStops, StashUnnamed, Crash
  <2> QED
      BY <2>1 DEF FlowInv
<1> QED
    BY <1>1, <1>2

(* The invariant holds initially. *)
LEMMA FlowInit == Init => FlowInv
<1> SUFFICES ASSUME Init
             PROVE  FlowInv
    OBVIOUS
<1>1. TypedGit(git)
    BY DEF Init, NewRepository, TypedGit, Repository, Ref, Work
<1>2. NothingLost(git)
    BY DEF Init, NewRepository, NothingLost
<1>3. rec \in Record
    BY MaxNotesAssumption DEF Init, Record, State
<1>4. JobsOK
    BY DEF Init, JobsOK
<1> QED
    BY <1>1, <1>2, <1>3, <1>4, LockInit DEF FlowInv, Sound

(* Every step of a process, a user or the forge keeps the invariant. *)
LEMMA FlowStep == FlowInv /\ [Next]_vars => FlowInv'
<1> SUFFICES ASSUME FlowInv, [Next]_vars
             PROVE  FlowInv'
    OBVIOUS
<1>0. LockInv'
    BY LockStep DEF FlowInv
<1>1. CASE Environment
  <2>1. Sound(git') /\ rec' = rec /\ job' = job
      BY <1>1, OthersSound DEF Environment, FlowInv
  <2>2. Continues(git, git') /\ TypedGit(git) /\ TypedGit(git')
      BY <1>1, <2>1, OthersContinue DEF Environment, FlowInv, Sound
  <2>3. ASSUME NEW p \in Procs, job[p] # None
        PROVE  JobOK(job[p], git')
      BY <2>2, <2>3, OthersJob DEF FlowInv, JobsOK
  <2>4. JobsOK'
      BY <2>1, <2>3 DEF JobsOK
  <2> QED
      BY <1>0, <2>1, <2>4 DEF FlowInv
<1>2. CASE SetNote
  <2>1. git' = git /\ job' = job /\ rec \in Record /\ rec' = [rec EXCEPT !.notes = @ + 1]
        /\ rec.notes < MaxNotes
      BY <1>2 DEF SetNote, FlowInv
  <2>2. rec' \in Record
      BY <2>1, MaxNotesAssumption DEF Record
  <2> QED
      BY <1>0, <2>1, <2>2 DEF FlowInv, JobsOK
<1>3. ASSUME NEW p \in Procs, Step(p)
      PROVE  FlowInv'
  <2>1. Sound(git') /\ (job'[p] # None => JobOK(job'[p], git')) /\ rec' \in {None} \cup Record
      BY <1>3, OwnStep, RecordStep
  <2>2. ASSUME NEW q \in Procs, q # p, job'[q] # None
        PROVE  JobOK(job'[q], git')
    <3>1. job'[q] = job[q] /\ JobOK(job[q], git)
        BY <1>3, <2>2, OwnJob DEF FlowInv, LockInv, JobsOK
    <3>2. CASE git' = git
        BY <3>1, <3>2
    <3>3. CASE HoldsStore(p)
      <4>1. ~HoldsStore(q)
          BY <2>2, <3>3 DEF FlowInv, LockInv, OneAtATime
      <4>2. job[q].pc \notin Begun
          BY <2>2, <3>1, <4>1 DEF HoldsStore, Begun, Running
      <4> QED
          BY <3>1, <4>2, IdleJob
    <3> QED
        BY <1>3, <3>2, <3>3, LockedGit
  <2>3. JobsOK'
      BY <2>1, <2>2 DEF JobsOK
  <2> QED
      BY <1>0, <2>1, <2>3 DEF FlowInv
<1>4. CASE UNCHANGED vars
    BY <1>0, <1>4 DEF vars, FlowInv, JobsOK
<1> QED
    BY <1>1, <1>2, <1>3, <1>4 DEF Next

(* The invariant of the life cycle. *)
LEMMA FlowAlways == Spec => []FlowInv
    BY FlowInit, FlowStep, PTL DEF Spec

-------------------------------------------------------------------------------
(* What follows of it.                                                      *)

(* Every variable keeps its type, and no command, effect or refusal leaves a    *)
(* checkout without its branch.                                                *)
THEOREM TypeCorrect == Spec => []TypeOK
<1>1. FlowInv => TypeOK
  <2> SUFFICES ASSUME FlowInv
               PROVE  TypeOK
      OBVIOUS
  <2>1. git \in Repository /\ (git.tree # None => git.local # None)
      BY DEF FlowInv, Sound, TypedGit
  <2>2. ASSUME NEW p \in Procs, job[p] # None
        PROVE  /\ job[p].pc \in PC /\ job[p].rec \in Record /\ job[p].seen \in Repository
               /\ \A i \in DOMAIN job[p].todo : job[p].todo[i] \in Effect
    <3>1. job[p] \in Job
        BY <2>2 DEF FlowInv, JobsOK, JobOK
    <3>2. /\ job[p].pc \in PC /\ job[p].rec \in Record /\ job[p].seen \in Repository
          /\ job[p].todo \in Seq(Effect)
        BY <3>1 DEF Job
    <3> HIDE DEF Effect
    <3>3. \A i \in DOMAIN job[p].todo : job[p].todo[i] \in Effect
        BY <3>2
    <3> QED
        BY <3>2, <3>3
  <2> QED
      BY <2>1, <2>2 DEF TypeOK, FlowInv
<1> QED
    BY <1>1, FlowAlways, PTL

(* The effects of a plan lose no work, wherever the process stops and whatever  *)
(* the user and the forge do between its steps: what was written and not      *)
(* discarded on request stays in a checkout, a branch or a stash.              *)
THEOREM NoWorkLostTheorem == Spec => []NoWorkLost
<1>1. FlowInv => NoWorkLost
    BY DEF FlowInv, Sound, NothingLost, NoWorkLost
<1> QED
    BY <1>1, FlowAlways, PTL

(* A retirement deletes no branch that is not in the base branch: `git branch  *)
(* -d` accepts one that is only in its upstream, the checks before it do not.  *)
THEOREM DeletedIsMergedTheorem == Spec => DeletedIsMerged
<1> DEFINE A == job' # job /\ git.local # None /\ git'.local = None
                   => git.local \subseteq git.base
<1>1. FlowInv /\ [Next]_vars => [A]_vars
  <2> SUFFICES ASSUME FlowInv, Next, job' # job, git.local # None, git'.local = None
               PROVE  git.local \subseteq git.base
      OBVIOUS
  <2>1. PICK p \in Procs : Step(p)
      BY DEF Next, Environment, SetNote
  <2>2. git \in Repository /\ git' # git
      BY DEF FlowInv, Sound, TypedGit
  <2>0. Sound(git')
      BY <2>1, OwnStep
  <2>3. CASE Act(p)
    <3> DEFINE j == job[p]
               effect == Head(j.todo)
    <3>1. /\ j # None /\ j.pc = "act" /\ effect \notin Ends /\ Possible(j, effect)
          /\ git' \in Results(j, effect) /\ JobOK(j, git)
        BY <2>3 DEF Act, At, FlowInv, JobsOK
    <3>2. effect = "delete branch"
        BY <2>0, <2>2, <3>1, ActKeepsBranch
    <3>3. j.todo # <<>> /\ effect \in PlanEffects(j.action)
        BY <3>1, HeadTailProperties DEF JobOK, TodoOK
    <3>4. j.action = "retire"
        BY <3>2, <3>3 DEF PlanEffects
    <3> QED
        BY <3>1, <3>2, <3>3, <3>4 DEF JobOK, RetireOK, Doing
  <2>4. CASE Restore(p) \/ RebaseStops(p) \/ StashUnnamed(p)
    <3>1. git'.local = git.local
        BY <2>2, <2>4 DEF Restore, RebaseStops, StashUnnamed, Restored, Stopped, Stashed,
                          Repository
    <3> QED
        BY <3>1
  <2>5. CASE \/ Plan(p) \/ LockRepo(p) \/ LockStore(p) \/ Replan(p) \/ Check(p) \/ Refresh(p)
             \/ Write(p) \/ Finish(p) \/ Fail(p) \/ RestoreFails(p) \/ Crash(p)
      BY <2>2, <2>5 DEF Plan, LockRepo, LockStore, Replan, Check, Refresh, Write, Finish,
                        Fail, RestoreFails, Crash
  <2> QED
      BY <2>1, <2>3, <2>4, <2>5 DEF Step
<1> QED
    BY <1>1, FlowAlways, PTL DEF Spec, DeletedIsMerged

(* A task is recorded DONE only when the approved work, with the uncommitted    *)
(* changes that the plan committed, is in the base branch at that moment.      *)
THEOREM ApprovedIsMergedTheorem == Spec => ApprovedIsMerged
<1> DEFINE A == \A p \in Procs : Records(p, "done") => job[p].work \subseteq git.base
<1>1. FlowInv /\ [Next]_vars => [A]_vars
  <2> SUFFICES ASSUME FlowInv, Next, NEW p \in Procs, Records(p, "done")
               PROVE  job[p].work \subseteq git.base
      OBVIOUS
  <2> DEFINE j == job[p]
  <2>1. j # None /\ job'[p] = None /\ rec' # rec /\ rec' # None /\ rec'.state = "done"
      BY DEF Records
  <2>2. PICK q \in Procs : Step(q)
      BY <2>1 DEF Next, Environment, SetNote
  <2>3. q = p
      BY <2>1, <2>2, OwnJob DEF FlowInv, LockInv
  <2>4. Write(p)
      BY <2>1, <2>2, <2>3 DEF Step, Plan, LockRepo, LockStore, Replan, Check, Act, Refresh,
             Finish, Fail, Restore, RestoreFails, RebaseStops, StashUnnamed, Crash
  <2>5. /\ JobOK(j, git) /\ j.pc = "act" /\ Head(j.todo) = "update"
        /\ rec' = AfterRecord(j)
      BY <2>1, <2>4 DEF Write, At, FlowInv, JobsOK
  <2>6. /\ j.todo # <<>> /\ j.action \in Action /\ "update" \in PlanEffects(j.action)
        /\ rec'.state = Target(j.action)
    <3>1. j.todo # <<>> /\ j.todo \in Seq(PlanEffects(j.action)) /\ j \in Job
        BY <2>5 DEF JobOK, TodoOK
    <3>2. rec'.state = Target(j.action)
        BY <2>5, <3>1 DEF AfterRecord, Job, Record
    <3> QED
        BY <2>5, <3>1, <3>2, HeadTailProperties DEF Job
  <2>7. j.action \in Completion
      BY <2>1, <2>6 DEF Target, PlanEffects, Completion, Action
  <2> QED
      BY <2>5, <2>6, <2>7 DEF JobOK, CompleteOK, Doing
<1> QED
    BY <1>1, FlowAlways, PTL DEF Spec, ApprovedIsMerged

-----------------------------------------------------------------------------
(***************************************************************************)
(* What a cold park relies on while no remote branch is deleted.           *)
(***************************************************************************)

\* The remote-tracking ref is the remote branch, and an upstream exists.
RemoteOK(g) == g.tracking = g.remote /\ (g.upstream => g.tracking # None)

\* u is in the checkout or on the branch, published, or discarded on request.
Held(g, u) ==
    \/ g.tree # None /\ u \in g.tree
    \/ g.local # None /\ u \in g.local
    \/ g.tracking # None /\ u \in g.tracking
    \/ u \in g.dropped

\* Nothing published is withdrawn, and no discarding undone.
Grows(g, h) ==
    /\ g.tracking # None => h.tracking # None /\ g.tracking \subseteq h.tracking
    /\ g.dropped \subseteq h.dropped

Moves(g, h) == RemoteOK(h) /\ Grows(g, h) /\ \A u : Held(g, u) => Held(h, u)

(* A commit, a discarding and a removal of a clean checkout. *)
LEMMA TreeMoves ==
    ASSUME NEW g, TypedGit(g), RemoteOK(g)
    PROVE  /\ g.tree # None => Moves(g, Committed(g))
           /\ Moves(g, Discarded(g)) \/ g.tree = None
           /\ g.tree = {} => Moves(g, Removed(g))
<1>1. ASSUME g.tree # None  PROVE Moves(g, Committed(g))
  <2>1. g.local \cup g.tree # None /\ g.local # None
      BY <1>1, RefAssumption DEF TypedGit, Repository, Ref, Work
  <2> QED
      BY <1>1, <2>1, RefAssumption
      DEF TypedGit, Repository, Committed, RemoteOK, Grows, Held, Moves
<1>2. ASSUME g.tree # None  PROVE Moves(g, Discarded(g))
    BY <1>2 DEF TypedGit, Repository, Discarded, RemoteOK, Grows, Held, Moves
<1>3. ASSUME g.tree = {}  PROVE Moves(g, Removed(g))
    BY <1>3 DEF TypedGit, Repository, Removed, RemoteOK, Grows, Held, Moves
<1> QED
    BY <1>1, <1>2, <1>3

(* A push, a fetch and a new checkout. *)
LEMMA RemoteMoves ==
    ASSUME NEW g, TypedGit(g), RemoteOK(g)
    PROVE  /\ CanPush(g) => Moves(g, Pushed(g))
           /\ Moves(g, Fetched(g))
           /\ CanAdd(g) => Moves(g, Added(g))
<1>1. ASSUME CanPush(g)  PROVE Moves(g, Pushed(g))
    BY <1>1 DEF TypedGit, Repository, CanPush, Pushed, RemoteOK, Grows, Held, Moves
<1>2. Moves(g, Fetched(g))
    BY DEF TypedGit, Repository, Fetched, RemoteOK, Grows, Held, Moves
<1>3. ASSUME CanAdd(g)  PROVE Moves(g, Added(g))
  <2>1. CASE g.local # None
      BY <1>3, <2>1 DEF CanAdd, TypedGit, Repository, Added, RemoteOK, Grows, Held, Moves
  <2>2. CASE g.local = None
      BY <1>3, <2>2 DEF CanAdd, TypedGit, Repository, Added, RemoteOK, Grows, Held, Moves
  <2> QED
      BY <2>1, <2>2
<1> QED
    BY <1>1, <1>2, <1>3

(* What acts on the base branch and the canonical checkout. *)
LEMMA BaseMoves ==
    ASSUME NEW g, TypedGit(g), RemoteOK(g)
    PROVE  /\ g.tree # None => Moves(g, Rebased(g))
           /\ \A b \in BOOLEAN : Moves(g, [g EXCEPT !.rebasing = b])
           /\ Moves(g, Merged(g)) /\ Moves(g, Stashed(g)) /\ Moves(g, MainDropped(g))
           /\ \A s : Moves(g, Restored(g, s))
           /\ Moves(g, g)
<1>1. ASSUME g.tree # None  PROVE Moves(g, Rebased(g))
  <2>1. g.local \cup g.base # None /\ g.local # None
      BY <1>1, RefAssumption DEF TypedGit, Repository, Ref, Work
  <2> QED
      BY <1>1, <2>1 DEF TypedGit, Repository, Rebased, RemoteOK, Grows, Held, Moves
<1>2. \A b \in BOOLEAN : Moves(g, [g EXCEPT !.rebasing = b])
    BY DEF TypedGit, Repository, RemoteOK, Grows, Held, Moves
<1>3. Moves(g, Merged(g)) /\ Moves(g, Stashed(g)) /\ Moves(g, g)
    BY DEF TypedGit, Repository, Merged, Stashed, RemoteOK, Grows, Held, Moves
<1>4. Moves(g, MainDropped(g))
    BY DEF TypedGit, Repository, MainDropped, RemoteOK, Grows, Held, Moves
<1>5. \A s : Moves(g, Restored(g, s))
    BY DEF TypedGit, Repository, Restored, RemoteOK, Grows, Held, Moves
<1> QED
    BY <1>1, <1>2, <1>3, <1>4, <1>5

(* What the user and the forge do, but for deleting the remote branch. *)
LEMMA OthersMove ==
    ASSUME TypedGit(git), RemoteOK(git), Others, "delete remote" \notin Habits
    PROVE  Moves(git, git')
<1>1. CASE Edit
  <2>1. PICK u \in Patches : git' = [git EXCEPT !.tree = @ \cup {u}, !.written = @ \cup {u}]
      BY <1>1 DEF Edit
  <2>2. git.tree # None /\ git.tree \cup {u} # None
      BY <1>1, RefAssumption DEF Edit, TypedGit, Repository, Ref, Work
  <2> QED
      BY <2>1, <2>2 DEF TypedGit, Repository, RemoteOK, Grows, Held, Moves
<1>2. CASE EditMain \/ CommitMain \/ MergeReview
    BY <1>2 DEF EditMain, CommitMain, MergeReview, TypedGit, Repository, RemoteOK, Grows, Held,
                Moves
<1>3. CASE Commit \/ Push \/ Fetch
    BY <1>3, TreeMoves, RemoteMoves DEF Commit, Push, Fetch
<1>4. CASE DeleteLocal
    BY <1>4 DEF DeleteLocal, Deleted, TypedGit, Repository, RemoteOK, Grows, Held, Moves
<1>5. CASE EndRebase
  <2> DEFINE g == [git EXCEPT !.rebasing = FALSE]
  <2>1. g.tree # None /\ TypedGit(g) /\ Moves(git, g)
      BY <1>5, BaseMoves DEF EndRebase, TypedGit, Repository
  <2>2. Moves(g, Rebased(g))
      BY <2>1, BaseMoves DEF Moves
  <2>3. Moves(git, Rebased(g))
    <3> HIDE DEF g
    <3> QED
      BY <2>1, <2>2 DEF Moves, Grows
  <2> QED
      BY <1>5, <2>1, <2>3 DEF EndRebase
<1> QED
    BY <1>1, <1>2, <1>3, <1>4, <1>5 DEF Others, DeleteRemote, Does
-----------------------------------------------------------------------------
\* A cold park removes the checkout and then writes the record, and that is the
\* end of its plan.
ColdOrder(s) ==
    /\ Len(s) >= 1
    /\ \A i \in 1..Len(s) : /\ s[i] = "update" <=> i = Len(s)
                            /\ s[i] = "remove" <=> i = Len(s) - 1

\* The approved work is published or was discarded on request.
Safe(j, g) == g.tracking # None /\ \A u \in j.work : u \in g.tracking \/ u \in g.dropped

\* The check before the removal has passed.
Past(j) == Head(j.todo) = "update" \/ Doing(j, {"act", "refresh"}, {"remove"})

ParkOK(j, g, r) ==
    /\ j.rec # None /\ j.rec.state \in Source(j.action)
    /\ j.pc \in Begun /\ j.action # "sweep" => r = j.rec
    /\ j.action = "cold" =>
          /\ ColdOrder(j.todo)
          /\ Past(j) => Safe(j, g)
          /\ r # None /\ r.state # "done" => \A u \in j.work : Held(g, u)

ParkInv == RemoteOK(git) /\ \A p \in Procs : job[p] # None => ParkOK(job[p], git, rec)

(* The plan of a cold park. *)
LEMMA ColdSeq ==
    ASSUME NEW opts, NEW g
    PROVE  LET todo == Effects("cold", opts, g)
           IN  ColdOrder(todo) /\ todo # <<>> /\ Head(todo) # "update"
<1> DEFINE c == When(Dirty(g) /\ "commit" \in opts, "commit")
           d == When(Dirty(g) /\ "discard" \in opts, "discard")
           x == When("push" \in opts, "push")
           t == <<"remove", "update">>
           S == {"commit", "discard", "push"}
           todo == ((c \o d) \o x) \o t
<1>1. Effects("cold", opts, g) = todo
    BY DEF Effects
<1>2. c \in Seq(S) /\ d \in Seq(S) /\ x \in Seq(S)
    BY WhenSeq
<1>3. /\ t \in Seq({"remove", "update"}) /\ Len(t) = 2 /\ t[1] = "remove" /\ t[2] = "update"
    OBVIOUS
<1> DEFINE a == (c \o d) \o x
<1> HIDE DEF c, d, x, t
<1>4. a \in Seq(S)
    BY <1>2, ConcatProperties
<1> DEFINE E == S \cup {"remove", "update"}
<1>5. a \in Seq(E) /\ t \in Seq(E) /\ Len(a) \in Nat /\ \A i \in 1..Len(a) : a[i] \in S
    BY <1>3, <1>4, SeqMonotonic, LenProperties, ElementOfSeq
<1> HIDE DEF E
<1>6. /\ todo = a \o t /\ Len(todo) = Len(a) + 2 /\ todo \in Seq(E)
      /\ \A i \in 1..Len(a) + 2 :
            todo[i] = IF i <= Len(a) THEN a[i] ELSE t[i - Len(a)]
  <2> HIDE DEF a
  <2>1. /\ Len(a \o t) = Len(a) + Len(t) /\ a \o t \in Seq(E)
        /\ \A i \in 1..Len(a) + Len(t) :
              (a \o t)[i] = IF i <= Len(a) THEN a[i] ELSE t[i - Len(a)]
      BY <1>5, ConcatProperties
  <2>2. todo = a \o t
      BY DEF a
  <2> HIDE DEF todo
  <2>3. Len(a) + Len(t) = Len(a) + 2
      BY <1>3
  <2> QED
      BY <2>1, <2>2, <2>3
<1> HIDE DEF a
<1> DEFINE n == Len(a)
<1>7. \A i \in 1..n : todo[i] \in S
    BY <1>5, <1>6
<1>8. todo[n + 1] = "remove" /\ todo[n + 2] = "update"
    BY <1>3, <1>5, <1>6
<1>9. ColdOrder(todo)
  <2> SUFFICES ASSUME NEW i \in 1..n + 2
               PROVE  /\ todo[i] = "update" <=> i = n + 2
                      /\ todo[i] = "remove" <=> i = n + 1
      BY <1>5, <1>6 DEF ColdOrder
  <2>1. i \in 1..n \/ i = n + 1 \/ i = n + 2
      BY <1>5
  <2> QED
      BY <1>5, <1>7, <1>8, <2>1
<1>10. todo # <<>> /\ Head(todo) # "update"
  <2>1. todo # <<>> /\ Head(todo) = todo[1]
      BY <1>5, <1>6, EmptySeq
  <2>2. 1 \in 1..n \/ 1 = n + 1
      BY <1>5
  <2> QED
      BY <1>7, <1>8, <2>1, <2>2
<1> HIDE DEF todo
<1> QED
    BY <1>1, <1>9, <1>10

(* The order of what is left when the first effect is done. *)
LEMMA ColdTail ==
    ASSUME NEW S, NEW s \in Seq(S), ColdOrder(s), Head(s) # "update"
    PROVE  ColdOrder(Tail(s)) /\ (Head(Tail(s)) = "update" => Head(s) = "remove")
<1> DEFINE n == Len(s)
           t == Tail(s)
<1>1. n \in Nat /\ n >= 1 /\ s # <<>>
    BY EmptySeq, LenProperties DEF ColdOrder
<1>2. \A i \in 1..n : (s[i] = "update" <=> i = n) /\ (s[i] = "remove" <=> i = n - 1)
    BY DEF ColdOrder
<1>3. /\ t \in Seq(S) /\ Len(t) = n - 1 /\ Head(s) = s[1]
      /\ \A i \in 1..n - 1 : t[i] = s[i + 1]
    BY <1>1, HeadTailProperties
<1>4. n >= 2
  <2>1. s[1] # "update" /\ 1 \in 1..n
      BY <1>1, <1>3
  <2>2. n # 1
      BY <1>2, <2>1
  <2> HIDE DEF n
  <2> QED
      BY <1>1, <2>2
<1>5. t # <<>> /\ Head(t) = t[1] /\ t[1] = s[2]
  <2>1. Len(t) >= 1
    <3> HIDE DEF n
    <3> QED
      BY <1>1, <1>3, <1>4
  <2>2. t # <<>> /\ Head(t) = t[1]
    <3> HIDE DEF t
    <3> QED
      BY <1>3, <2>1, EmptySeq
  <2>3. t[1] = s[2]
    <3> HIDE DEF n
    <3> QED
      BY <1>1, <1>3, <1>4
  <2> QED
      BY <2>2, <2>3
<1> DEFINE m == Len(t)
<1>6. m = n - 1
    BY <1>3
<1> HIDE DEF n, t, m
<1>7. \A i \in 1..m : (t[i] = "update" <=> i = m) /\ (t[i] = "remove" <=> i = m - 1)
  <2> SUFFICES ASSUME NEW i \in 1..m
               PROVE  (t[i] = "update" <=> i = m) /\ (t[i] = "remove" <=> i = m - 1)
      OBVIOUS
  <2>1. i + 1 \in 1..n /\ t[i] = s[i + 1]
      BY <1>1, <1>3, <1>6
  <2>2. (s[i + 1] = "update" <=> i + 1 = n) /\ (s[i + 1] = "remove" <=> i + 1 = n - 1)
      BY <1>2, <2>1
  <2> QED
      BY <1>1, <1>6, <2>1, <2>2
<1>8. t[1] = "update" => s[1] = "remove"
  <2>1. 2 \in 1..n /\ 1 \in 1..n
      BY <1>1, <1>4
  <2>2. s[2] = "update" => n = 2
      BY <1>2, <2>1
  <2>3. n = 2 => s[1] = "remove"
      BY <1>2, <2>1
  <2> QED
      BY <1>5, <2>2, <2>3
<1>9. ColdOrder(t)
    BY <1>1, <1>4, <1>6, <1>7 DEF ColdOrder, m
<1> QED
    BY <1>3, <1>5, <1>8, <1>9 DEF t

(* A job relies on the same of a repository from which nothing is withdrawn. *)
LEMMA ParkStays ==
    ASSUME NEW j, NEW g, NEW h, NEW r, ParkOK(j, g, r),
           Grows(g, h), (\A u : Held(g, u) => Held(h, u)) \/ r = None \/ r.state = "done"
    PROVE  ParkOK(j, h, r)
    BY DEF ParkOK, Grows, Safe

(* What a step of p does to the repository. *)
LEMMA StepMoves ==
    ASSUME FlowInv, ParkInv, NEW p \in Procs, Step(p)
    PROVE  \/ Moves(git, git')
           \/ /\ RemoteOK(git') /\ Grows(git, git')
              /\ rec.state = "done" /\ rec' = rec
<1> DEFINE j == job[p]
           effect == Head(j.todo)
<1>0. /\ TypedGit(git) /\ RemoteOK(git)
      /\ j # None => JobOK(j, git) /\ ParkOK(j, git, rec)
    BY DEF FlowInv, Sound, JobsOK, ParkInv
<1>1. CASE Act(p)
  <2>1. /\ j # None /\ j.pc = "act" /\ effect \notin Ends /\ Possible(j, effect)
        /\ git' \in Results(j, effect) /\ rec' = rec
      BY <1>1 DEF Act, At
  <2>2. /\ j.todo # <<>> /\ effect \in PlanEffects(j.action)
        /\ effect \in NeedsTree => git.tree # None
    <3> HIDE DEF j
    <3>0. j.pc = "act" /\ JobOK(j, git)
        BY <1>0, <2>1
    <3>1. j.todo # <<>> /\ j.todo \in Seq(PlanEffects(j.action)) /\ TreeOK(j, git)
        BY <3>0 DEF JobOK, TodoOK
    <3> QED
        BY <3>0, <3>1, HeadTailProperties DEF TreeOK, Doing, CheckedOut
  <2>3. CASE effect \in {"commit", "discard", "remove"}
      BY <1>0, <2>1, <2>2, <2>3, TreeMoves DEF Results, Possible, NeedsTree, CanRemove
  <2>4. CASE effect \in {"push", "fetch", "create"}
      BY <1>0, <2>1, <2>4, RemoteMoves, BaseMoves DEF Results, Possible
  <2>5. CASE effect \in {"rebase", "stash", "drop", "merge", "restore"}
      BY <1>0, <2>1, <2>2, <2>5, BaseMoves DEF Results, NeedsTree
  <2>6. CASE effect = "delete branch"
    <3>1. j.action = "retire" /\ rec.state = "done"
      <4>1. j.action = "retire"
          BY <2>2, <2>6 DEF PlanEffects
      <4>2. j.rec \in Record /\ rec = j.rec /\ rec.state \in Source("retire")
          BY <1>0, <2>1, <4>1 DEF ParkOK, JobOK, Job, Begun
      <4> QED
          BY <4>1, <4>2 DEF Source
    <3>2. git' = Deleted(git)
        BY <2>1, <2>6 DEF Results
    <3> QED
        BY <1>0, <2>1, <3>1, <3>2 DEF Deleted, TypedGit, Repository, RemoteOK, Grows
  <2>7. CASE effect \in {"switch", "verify", "review", "update", "reap", "sweep"}
      BY <1>0, <2>1, <2>7, BaseMoves DEF Results
  <2> QED
      BY <2>2, <2>3, <2>4, <2>5, <2>6, <2>7 DEF PlanEffects
<1>2. CASE Restore(p) \/ StashUnnamed(p)
    BY <1>0, <1>2, BaseMoves DEF Restore, StashUnnamed
<1>3. CASE RebaseStops(p)
    BY <1>0, <1>3, BaseMoves DEF RebaseStops, Stopped
<1>4. CASE \/ Plan(p) \/ LockRepo(p) \/ LockStore(p) \/ Replan(p) \/ Check(p) \/ Refresh(p)
           \/ Write(p) \/ Finish(p) \/ Fail(p) \/ RestoreFails(p) \/ Crash(p)
  <2>1. git' = git
      BY <1>4 DEF Plan, LockRepo, LockStore, Replan, Check, Refresh, Write, Finish,
                  Fail, RestoreFails, Crash
  <2> QED
      BY <1>0, <2>1, BaseMoves
<1> QED
    BY <1>1, <1>2, <1>3, <1>4 DEF Step

(* A new plan. *)
LEMMA ParkPlan ==
    ASSUME rec \in Record, rec # None, NEW action \in Actions, NEW opts,
           Ready(action, opts, rec, git)
    PROVE  ParkOK(Approved(action, opts), git, rec)
<1> DEFINE k == Approved(action, opts)
<1>1. /\ k.action = action /\ k.rec = rec /\ k.work = WorkOf(opts)
      /\ k.todo = Effects(action, opts, git) /\ k.pc \in Waiting
    BY DEF Approved, Waiting
<1> HIDE DEF k
<1>2. rec.state \in Source(action)
    BY DEF Ready
<1>3. k.pc \notin Begun /\ ~Doing(k, {"act", "refresh"}, {"remove"})
    BY <1>1 DEF Waiting, Begun, Doing
<1>4. action = "cold" => ColdOrder(k.todo) /\ Head(k.todo) # "update"
    BY <1>1, ColdSeq
<1>5. \A u \in k.work : Held(git, u)
    BY <1>1 DEF WorkOf, AllWork, Held
<1>6. ParkOK(k, git, rec)
    BY <1>1, <1>2, <1>3, <1>4, <1>5 DEF ParkOK, Past
<1> QED
    BY <1>6 DEF k

(* A job that moves on without passing the check of its removal. *)
LEMMA ParkElsewhere ==
    ASSUME NEW j, NEW g, NEW r, ParkOK(j, g, r), NEW k,
           k.rec = j.rec, k.action = j.action, k.work = j.work, k.todo = j.todo,
           k.pc \in Begun => j.pc \in Begun \/ k.action = "sweep" \/ r = j.rec,
           k.action = "cold" /\ k.pc \in {"act", "refresh"}
               => j.pc \in {"act", "refresh"} \/ Head(j.todo) # "remove" \/ Safe(j, g)
    PROVE  ParkOK(k, g, r)
<1>1. Safe(k, g) <=> Safe(j, g)
    BY DEF Safe
<1>2. k.action = "cold" /\ Past(k) => Past(j) \/ Safe(j, g)
    BY DEF Past, Doing
<1> QED
    BY <1>1, <1>2 DEF ParkOK

(* The check before the removal: all of the branch is published. *)
LEMMA ParkCheck ==
    ASSUME TypedGit(git), RemoteOK(git), NEW j, j \in Job, ParkOK(j, git, rec), j.pc = "check",
           j.action = "cold", Head(j.todo) = "remove", Boundary(j, "remove")
    PROVE  Safe(j, git)
<1>1. ColdReady(j)
    BY DEF Boundary
<1>2. git.tree = {} /\ git.tracking # None /\ git.local # None /\ git.local \subseteq git.tracking
    BY <1>1 DEF ColdReady, Same, CheckedOut, Dirty, Published, NotAhead, RemoteOK, TypedGit
<1>3. rec = j.rec /\ rec.state # "done"
    BY DEF ParkOK, Begun, Source
<1>4. \A u \in j.work : Held(git, u)
    BY <1>3 DEF ParkOK
<1> QED
    BY <1>2, <1>4 DEF Held, Safe

(* A step of p keeps its own job in order. *)
LEMMA ParkOwn ==
    ASSUME FlowInv, ParkInv, NEW p \in Procs, Step(p), job'[p] # None
    PROVE  ParkOK(job'[p], git, rec) /\ rec' = rec
<1> DEFINE j == job[p]
<1>0. /\ TypedGit(git) /\ RemoteOK(git) /\ DOMAIN job = Procs /\ rec \in {None} \cup Record
      /\ j # None => j \in Job /\ TodoOK(j) /\ ParkOK(j, git, rec)
    BY DEF FlowInv, LockInv, JobShape, Sound, JobsOK, JobOK, ParkInv
<1>1. CASE Plan(p)
  <2>1. PICK action \in Actions :
          \E opts \in Options(action, git) :
             /\ Ready(action, opts, rec, git)
             /\ job' = [job EXCEPT ![p] = Approved(action, opts)]
      BY <1>1 DEF Plan
  <2>2. PICK opts \in Options(action, git) :
             /\ Ready(action, opts, rec, git)
             /\ job' = [job EXCEPT ![p] = Approved(action, opts)]
      BY <2>1
  <2>3. rec \in Record /\ rec # None /\ rec' = rec
      BY <1>0, <1>1 DEF Plan
  <2> QED
      BY <1>0, <2>2, <2>3, ParkPlan
<1>2. CASE LockRepo(p) \/ LockStore(p)
  <2>1. PICK pc :
          /\ job' = [job EXCEPT ![p].pc = pc] /\ rec' = rec /\ j # None
          /\ pc \in Waiting \/ (j.action = "sweep" /\ pc = "act")
    <3>1. CASE LockRepo(p)
        BY <3>1 DEF LockRepo, At, Goto, Waiting
    <3>2. CASE LockStore(p) /\ j.action = "sweep"
        BY <3>2 DEF LockStore, At, Goto, Waiting
    <3>3. CASE LockStore(p) /\ j.action # "sweep"
        BY <3>3 DEF LockStore, At, Goto, Waiting
    <3> QED
        BY <1>2, <3>1, <3>2, <3>3
  <2> DEFINE k == [j EXCEPT !.pc = pc]
  <2>2. /\ job'[p] = k /\ k.rec = j.rec /\ k.action = j.action /\ k.work = j.work
        /\ k.todo = j.todo /\ k.pc = pc
      BY <1>0, <2>1 DEF Job
  <2> HIDE DEF k, j
  <2>3. ParkOK(k, git, rec)
      BY <1>0, <2>1, <2>2, ParkElsewhere DEF Waiting, Begun
  <2> QED
      BY <2>1, <2>2, <2>3
<1>3. CASE Replan(p)
  <2>1. /\ j # None /\ j.pc = "replan" /\ SamePlan(j) /\ rec' = rec
        /\ job' = [job EXCEPT ![p].pc = "check", ![p].seen = Observed(git)]
      BY <1>0, <1>3 DEF Replan, At, End
  <2> DEFINE k == [j EXCEPT !.pc = "check", !.seen = Observed(git)]
  <2>2. /\ job'[p] = k /\ k.rec = j.rec /\ k.action = j.action /\ k.work = j.work
        /\ k.todo = j.todo /\ k.pc = "check" /\ rec = j.rec
      BY <1>0, <2>1 DEF Job, SamePlan
  <2> HIDE DEF k, j
  <2>3. ParkOK(k, git, rec)
      BY <1>0, <2>1, <2>2, ParkElsewhere
  <2> QED
      BY <2>1, <2>2, <2>3
<1>4. CASE Check(p)
  <2>1. /\ j # None /\ j.pc = "check" /\ j.todo # <<>> /\ Boundary(j, Head(j.todo))
        /\ rec' = rec /\ job' = [job EXCEPT ![p].pc = "act"]
      BY <1>4 DEF Check, At, Goto
  <2> DEFINE k == [j EXCEPT !.pc = "act"]
  <2>2. /\ job'[p] = k /\ k.rec = j.rec /\ k.action = j.action /\ k.work = j.work
        /\ k.todo = j.todo /\ k.pc = "act"
      BY <1>0, <2>1 DEF Job
  <2> HIDE DEF k, j
  <2>3. j.action = "cold" /\ Head(j.todo) = "remove" => Safe(j, git)
      BY <1>0, <2>1, ParkCheck
  <2>4. ParkOK(k, git, rec)
      BY <1>0, <2>1, <2>2, <2>3, ParkElsewhere DEF Begun
  <2> QED
      BY <2>1, <2>2, <2>4
<1>5. CASE Act(p)
  <2> DEFINE k == Acted(j, Head(j.todo), git')
  <2>1. j # None /\ j.pc = "act" /\ job' = [job EXCEPT ![p] = k] /\ rec' = rec
      BY <1>5 DEF Act, At
  <2>2. /\ job'[p] = k /\ k.rec = j.rec /\ k.action = j.action /\ k.work = j.work
        /\ k.todo = j.todo /\ k.pc = "refresh"
      BY <1>0, <2>1 DEF Job, Acted
  <2> HIDE DEF k, j
  <2>3. ParkOK(k, git, rec)
      BY <1>0, <2>1, <2>2, ParkElsewhere DEF Begun
  <2> QED
      BY <2>1, <2>2, <2>3
<1>6. CASE Refresh(p)
  <2> DEFINE k == [j EXCEPT !.pc = "check", !.todo = Tail(@), !.seen = Adopted(j, Head(j.todo))]
  <2>1. j # None /\ j.pc = "refresh" /\ job'[p] = k /\ rec' = rec
      BY <1>0, <1>6 DEF Refresh, At
  <2>2. /\ k.rec = j.rec /\ k.action = j.action /\ k.work = j.work
        /\ k.todo = Tail(j.todo) /\ k.pc = "check"
      BY <1>0, <2>1 DEF Job
  <2> HIDE DEF k, j
  <2>3. ASSUME j.action = "cold"
        PROVE  ColdOrder(k.todo) /\ (Past(k) => Safe(k, git))
    <3>1. j.todo \in Seq(PlanEffects(j.action)) /\ j.todo # <<>> /\ Head(j.todo) # "update"
        BY <1>0, <2>1 DEF TodoOK, Ends
    <3>2. ColdOrder(k.todo) /\ (Head(k.todo) = "update" => Head(j.todo) = "remove")
        BY <1>0, <2>1, <2>2, <2>3, <3>1, ColdTail DEF ParkOK
    <3>3. Past(k) => Past(j)
        BY <2>1, <2>2, <3>1, <3>2 DEF Past, Doing
    <3> QED
        BY <1>0, <2>1, <2>2, <2>3, <3>2, <3>3 DEF ParkOK, Safe
  <2>4. ParkOK(k, git, rec)
      BY <1>0, <2>1, <2>2, <2>3 DEF ParkOK, Begun
  <2> QED
      BY <2>1, <2>4
<1>7. CASE Write(p) \/ Finish(p) \/ RestoreFails(p) \/ Crash(p) \/ Restore(p)
    BY <1>0, <1>7 DEF Write, Finish, RestoreFails, Crash, Restore, End
<1>8. CASE Fail(p) \/ RebaseStops(p) \/ StashUnnamed(p)
  <2> DEFINE k == [j EXCEPT !.pc = "restore"]
  <2>1. j # None /\ Failed(p) /\ rec' = rec
      BY <1>8 DEF Fail, RebaseStops, StashUnnamed, At
  <2>2. job'[p] = k
      BY <1>0, <2>1 DEF Failed
  <2>3. /\ k.rec = j.rec /\ k.action = j.action /\ k.work = j.work
        /\ k.todo = j.todo /\ k.pc = "restore"
      BY <1>0, <2>1 DEF Job
  <2> HIDE DEF k, j
  <2>4. ParkOK(k, git, rec)
      BY <1>0, <2>1, <2>3, ParkElsewhere DEF Begun
  <2> QED
      BY <2>1, <2>2, <2>4
<1> QED
    BY <1>1, <1>2, <1>3, <1>4, <1>5, <1>6, <1>7, <1>8 DEF Step

(* Once a task is recorded DONE it stays so, or its record goes; and only who holds *)
(* the task store's lock changes it.                                            *)
LEMMA DoneStays ==
    ASSUME FlowInv, ParkInv, NEW p \in Procs, Step(p), rec' # rec
    PROVE  HoldsStore(p) /\ Write(p) /\ (rec' # None /\ rec'.state # "done"
                                            => rec # None /\ rec.state # "done")
<1> DEFINE j == job[p]
<1>1. Write(p)
    BY DEF Step, Plan, LockRepo, LockStore, Replan, Check, Act, Refresh,
           Finish, Fail, Restore, RestoreFails, RebaseStops, StashUnnamed, Crash
<1>2. j # None /\ j.pc = "act" /\ rec = j.rec
    BY <1>1 DEF Write, At
<1>3. ASSUME rec' # None PROVE rec # None /\ rec.state # "done"
  <2>1. Head(j.todo) = "update"
      BY <1>1, <1>3 DEF Write
  <2>2. j \in Job /\ TodoOK(j) /\ ParkOK(j, git, rec)
      BY <1>2 DEF FlowInv, JobsOK, JobOK, ParkInv
  <2> HIDE DEF j
  <2>3. j.todo # <<>> /\ j.todo \in Seq(PlanEffects(j.action)) /\ j.action \in Action
      BY <1>2, <2>2 DEF TodoOK, Job
  <2>4. "update" \in PlanEffects(j.action)
      BY <2>1, <2>3, HeadTailProperties
  <2>5. j.action \notin {"retire", "sweep"}
      BY <2>3, <2>4 DEF PlanEffects
  <2>6. "done" \notin Source(j.action)
      BY <2>3, <2>5 DEF Source, Action
  <2> QED
      BY <1>2, <2>2, <2>6 DEF ParkOK
<1> QED
    BY <1>1, <1>2, <1>3 DEF HoldsStore, Running

LEMMA ParkInit == Init => ParkInv
    BY DEF Init, ParkInv, RemoteOK, NewRepository

LEMMA ParkStep ==
    ASSUME "delete remote" \notin Habits, FlowInv, ParkInv, [Next]_vars
    PROVE  ParkInv'
<1>0. /\ TypedGit(git) /\ RemoteOK(git)
      /\ \A p \in Procs : job[p] # None => ParkOK(job[p], git, rec)
    BY DEF FlowInv, Sound, ParkInv
<1>1. CASE Environment
  <2>1. Moves(git, git') /\ rec' = rec /\ job' = job
      BY <1>0, <1>1, OthersMove DEF Environment
  <2> QED
      BY <1>0, <2>1, ParkStays DEF ParkInv, Moves
<1>2. CASE SetNote
  <2>1. git' = git /\ job' = job /\ rec # None /\ rec.state = rec'.state
        /\ \A p \in Procs : ~HoldsStore(p)
      BY <1>2 DEF SetNote, FlowInv, Record
  <2>2. ASSUME NEW p \in Procs, job[p] # None
        PROVE  ParkOK(job[p], git, rec')
    <3>1. job[p].pc \notin Begun
        BY <2>1, <2>2 DEF HoldsStore, Running, Begun
    <3> QED
        BY <1>0, <2>1, <2>2, <3>1 DEF ParkOK
  <2> QED
      BY <1>0, <2>1, <2>2 DEF ParkInv
<1>3. ASSUME NEW p \in Procs, Step(p)
      PROVE  ParkInv'
  <2>1. \/ Moves(git, git')
        \/ /\ RemoteOK(git') /\ Grows(git, git')
           /\ rec.state = "done" /\ rec' = rec
      BY <1>3, StepMoves
  <2>2. job'[p] # None => ParkOK(job'[p], git, rec) /\ rec' = rec
      BY <1>3, ParkOwn
  <2>3. ASSUME NEW q \in Procs, q # p, job'[q] # None
        PROVE  ParkOK(job'[q], git, rec')
    <3>1. job'[q] = job[q] /\ ParkOK(job[q], git, rec)
        BY <1>0, <1>3, <2>3, OwnJob DEF FlowInv, LockInv
    <3>2. CASE rec' # rec
      <4>1. HoldsStore(p) /\ (rec' # None /\ rec'.state # "done"
                                 => rec # None /\ rec.state # "done")
          BY <1>3, <3>2, DoneStays
      <4>2. ~HoldsStore(q)
          BY <2>3, <4>1 DEF FlowInv, LockInv, OneAtATime
      <4>3. job[q].pc \notin Begun
          BY <2>3, <3>1, <4>2 DEF HoldsStore, Running, Begun
      <4> QED
          BY <3>1, <4>1, <4>3 DEF ParkOK
    <3> QED
        BY <3>1, <3>2
  <2>4. ASSUME NEW q \in Procs, job'[q] # None
        PROVE  ParkOK(job'[q], git, rec')
      BY <2>2, <2>3, <2>4
  <2>5. ASSUME NEW q \in Procs, job'[q] # None
        PROVE  ParkOK(job'[q], git', rec')
    <3>1. ParkOK(job'[q], git, rec')
        BY <2>4, <2>5
    <3>2. CASE Moves(git, git')
        BY <3>1, <3>2, ParkStays DEF Moves
    <3>3. CASE Grows(git, git') /\ rec.state = "done" /\ rec' = rec
        BY <3>1, <3>3, ParkStays
    <3> QED
        BY <2>1, <3>2, <3>3
  <2> QED
      BY <2>1, <2>5 DEF ParkInv, Moves
<1>4. CASE UNCHANGED vars
    BY <1>4, <1>0 DEF vars, ParkInv
<1> QED
    BY <1>1, <1>2, <1>3, <1>4 DEF Next

(* A cold park that ends with its record has published the work the user       *)
(* approved, however often the processes crash and whatever the user does in   *)
(* between, if nobody deletes the branch at the remote: of a remote branch that *)
(* is gone Git reports no commits ahead, and the check before the removal     *)
(* passes (CheckedIsPublished).                                                 *)
THEOREM ApprovedIsPublishedTheorem ==
    ASSUME "delete remote" \notin Habits
    PROVE  Spec => ApprovedIsPublished
<1> DEFINE A == \A p \in Procs :
                   Records(p, "cold") =>
                       git.tracking # None /\ job[p].work \ git.dropped \subseteq git.tracking
<1>1. FlowInv /\ ParkInv /\ [Next]_vars => [A]_vars
  <2> SUFFICES ASSUME FlowInv, ParkInv, Next, NEW p \in Procs, Records(p, "cold")
               PROVE  git.tracking # None /\ job[p].work \ git.dropped \subseteq git.tracking
      OBVIOUS
  <2> DEFINE j == job[p]
  <2>1. j # None /\ job'[p] = None /\ rec' # rec /\ rec' # None /\ rec'.state = "cold"
      BY DEF Records
  <2>2. PICK q \in Procs : Step(q)
      BY <2>1 DEF Next, Environment, SetNote
  <2>3. q = p
      BY <2>1, <2>2, OwnJob DEF FlowInv, LockInv
  <2>4. Write(p)
      BY <2>1, <2>2, <2>3, DoneStays
  <2>5. /\ j \in Job /\ ParkOK(j, git, rec) /\ Head(j.todo) = "update"
        /\ rec' = AfterRecord(j)
      BY <2>1, <2>4 DEF Write, At, FlowInv, JobsOK, JobOK, ParkInv
  <2>6. j.action = "cold"
    <3>1. rec'.state = Target(j.action) /\ j.action \in Action
        BY <2>5 DEF AfterRecord, Job, Record
    <3> QED
        BY <2>1, <3>1 DEF Target, Action
  <2> QED
      BY <2>5, <2>6 DEF ParkOK, Past, Safe
<1>2. Spec => [](FlowInv /\ ParkInv)
  <2>1. FlowInv /\ ParkInv /\ [Next]_vars => (FlowInv /\ ParkInv)'
      BY FlowStep, ParkStep
  <2>2. Init => FlowInv /\ ParkInv
      BY FlowInit, ParkInit
  <2> QED
      BY <2>1, <2>2, PTL DEF Spec
<1> QED
    BY <1>1, <1>2, PTL DEF Spec, ApprovedIsPublished

-----------------------------------------------------------------------------
(***************************************************************************)
(* What becomes of the canonical changes that a plan puts aside.           *)
(***************************************************************************)

\* Only the restoring and the record are left, but for what ends no plan.
Between == {"commit", "discard", "rebase", "drop", "switch", "merge", "verify", "push", "fetch",
            "create", "remove", "review", "delete branch"}
Pending(s) ==
    /\ Len(s) >= 2 /\ s[Len(s)] = "update" /\ s[Len(s) - 1] = "restore"
    /\ \A i \in 1..Len(s) - 2 : s[i] \in Between

\* A stash is followed by a restoring.
StashOrder(s) == \A i \in 1..Len(s) : s[i] = "stash" =>
    /\ i + 2 <= Len(s) /\ s[Len(s)] = "update" /\ s[Len(s) - 1] = "restore"
    /\ \A k \in i + 1..Len(s) - 2 : s[k] \in Between

\* The same of a plan without its record, and without what follows the merge.
StashLast(s) == \A i \in 1..Len(s) : s[i] = "stash" =>
    /\ i + 1 <= Len(s) /\ s[Len(s)] = "restore"
    /\ \A k \in i + 1..Len(s) - 1 : s[k] \in Between
StashMid(s) == \A i, k \in 1..Len(s) : s[i] = "stash" /\ i < k => s[k] \in Between

StashOK(j) ==
    /\ StashOrder(j.todo)
    /\ j.stashed # {} => \/ j.pc = "restore"
                         \/ j.pc \in {"check", "act"} /\ Pending(j.todo)
                         \/ j.pc = "refresh" /\ Pending(Tail(j.todo))

StashInv == \A p \in Procs : job[p] # None => StashOK(job[p])

(* What is left when the first effect is done. *)
LEMMA PendingTail ==
    ASSUME NEW S, NEW s \in Seq(S), s # <<>>
    PROVE  /\ StashOrder(s) => StashOrder(Tail(s))
           /\ StashOrder(s) /\ Head(s) = "stash" => Pending(Tail(s))
           /\ Pending(s) /\ Head(s) # "restore" => Pending(Tail(s))
           /\ Pending(s) => Head(s) \in Between \cup {"restore"}
<1> DEFINE n == Len(s)
           t == Tail(s)
           m == Len(t)
<1>1. n \in Nat /\ n >= 1
    BY EmptySeq, LenProperties
<1>2. /\ t \in Seq(S) /\ Len(t) = n - 1 /\ Head(s) = s[1]
      /\ \A i \in 1..n - 1 : t[i] = s[i + 1]
    BY <1>1, HeadTailProperties
<1>3. m = n - 1
    BY <1>2
<1>4. /\ StashOrder(s) <=> \A i \in 1..n : s[i] = "stash" =>
            /\ i + 2 <= n /\ s[n] = "update" /\ s[n - 1] = "restore"
            /\ \A k \in i + 1..n - 2 : s[k] \in Between
      /\ StashOrder(t) <=> \A i \in 1..m : t[i] = "stash" =>
            /\ i + 2 <= m /\ t[m] = "update" /\ t[m - 1] = "restore"
            /\ \A k \in i + 1..m - 2 : t[k] \in Between
      /\ Pending(s) <=> /\ n >= 2 /\ s[n] = "update" /\ s[n - 1] = "restore"
                        /\ \A i \in 1..n - 2 : s[i] \in Between
      /\ Pending(t) <=> /\ m >= 2 /\ t[m] = "update" /\ t[m - 1] = "restore"
                        /\ \A i \in 1..m - 2 : t[i] \in Between
    BY DEF StashOrder, Pending
<1> HIDE DEF n, t, m
<1>5. ASSUME StashOrder(s) PROVE StashOrder(t)
  <2> SUFFICES ASSUME NEW i \in 1..m, t[i] = "stash"
               PROVE  /\ i + 2 <= m /\ t[m] = "update" /\ t[m - 1] = "restore"
                      /\ \A k \in i + 1..m - 2 : t[k] \in Between
      BY <1>4
  <2>1. i + 1 \in 1..n /\ s[i + 1] = "stash"
      BY <1>1, <1>2, <1>3
  <2>2. /\ i + 1 + 2 <= n /\ s[n] = "update" /\ s[n - 1] = "restore"
        /\ \A k \in i + 1 + 1..n - 2 : s[k] \in Between
      BY <1>4, <1>5, <2>1
  <2>3. i + 2 <= m /\ m \in 1..n - 1 /\ m - 1 \in 1..n - 1
      BY <1>1, <1>3, <2>2
  <2>4. t[m] = s[m + 1] /\ t[m - 1] = s[(m - 1) + 1]
      BY <1>2, <2>3
  <2>5. t[m] = "update" /\ t[m - 1] = "restore"
      BY <1>1, <1>3, <2>2, <2>4
  <2>6. ASSUME NEW k \in i + 1..m - 2 PROVE t[k] \in Between
    <3>1. k \in 1..n - 1 /\ k + 1 \in i + 1 + 1..n - 2
        BY <1>1, <1>3
    <3> QED
        BY <1>2, <2>2, <3>1
  <2> QED
      BY <2>3, <2>5, <2>6
<1>6. ASSUME StashOrder(s), s[1] = "stash" PROVE Pending(t)
  <2>1. /\ 1 + 2 <= n /\ s[n] = "update" /\ s[n - 1] = "restore"
        /\ \A k \in 1 + 1..n - 2 : s[k] \in Between
      BY <1>1, <1>4, <1>6
  <2>2. m >= 2 /\ m \in 1..n - 1 /\ m - 1 \in 1..n - 1
      BY <1>1, <1>3, <2>1
  <2>3. t[m] = s[m + 1] /\ t[m - 1] = s[(m - 1) + 1]
      BY <1>2, <2>2
  <2>4. t[m] = "update" /\ t[m - 1] = "restore"
      BY <1>1, <1>3, <2>1, <2>3
  <2>5. ASSUME NEW k \in 1..m - 2 PROVE t[k] \in Between
    <3>1. k \in 1..n - 1 /\ k + 1 \in 1 + 1..n - 2
        BY <1>1, <1>3
    <3> QED
        BY <1>2, <2>1, <3>1
  <2> QED
      BY <1>4, <2>2, <2>4, <2>5
<1>7. ASSUME Pending(s), s[1] # "restore" PROVE Pending(t)
  <2>1. /\ n >= 2 /\ s[n] = "update" /\ s[n - 1] = "restore"
        /\ \A i \in 1..n - 2 : s[i] \in Between
      BY <1>4, <1>7
  <2>0. n # 2
      BY <1>7, <2>1
  <2>2. m >= 2 /\ m \in 1..n - 1 /\ m - 1 \in 1..n - 1
      BY <1>1, <1>3, <2>0, <2>1
  <2>3. t[m] = s[m + 1] /\ t[m - 1] = s[(m - 1) + 1]
      BY <1>2, <2>2
  <2>4. t[m] = "update" /\ t[m - 1] = "restore"
      BY <1>1, <1>3, <2>1, <2>3
  <2>5. ASSUME NEW k \in 1..m - 2 PROVE t[k] \in Between
    <3>1. k \in 1..n - 1 /\ k + 1 \in 1..n - 2
        BY <1>1, <1>3
    <3> QED
        BY <1>2, <2>1, <3>1
  <2> QED
      BY <1>4, <2>2, <2>4, <2>5
<1>8. ASSUME Pending(s) PROVE s[1] \in Between \cup {"restore"}
  <2>1. /\ n >= 2 /\ s[n - 1] = "restore"
        /\ \A i \in 1..n - 2 : s[i] \in Between
      BY <1>4, <1>8
  <2>2. 1 \in 1..n - 2 \/ 1 = n - 1
      BY <1>1, <2>1
  <2> QED
      BY <2>1, <2>2
<1> QED
    BY <1>2, <1>5, <1>6, <1>7, <1>8 DEF t

(* A plan that stashes nothing. *)
LEMMA NoStash ==
    ASSUME NEW S, NEW s \in Seq(S), "stash" \notin S
    PROVE  StashOrder(s) /\ StashLast(s)
<1>1. \A i \in 1..Len(s) : s[i] # "stash"
    BY ElementOfSeq
<1> QED
    BY <1>1 DEF StashOrder, StashLast

(* Putting two pieces of a plan together. *)
LEMMA Pieces ==
    ASSUME NEW E, NEW s \in Seq(E), NEW t \in Seq(E)
    PROVE  /\ s \o t \in Seq(E) /\ Len(s) \in Nat /\ Len(t) \in Nat
           /\ Len(s \o t) = Len(s) + Len(t)
           /\ \A i \in 1..Len(s) : (s \o t)[i] = s[i]
           /\ \A i \in 1..Len(t) : (s \o t)[Len(s) + i] = t[i]
           /\ \A i \in 1..Len(s) + Len(t) :
                 i \in 1..Len(s) \/ \E k \in 1..Len(t) : i = Len(s) + k
<1>1. Len(s) \in Nat /\ Len(t) \in Nat
    BY LenProperties
<1> DEFINE n == Len(s)
           m == Len(t)
           w == s \o t
<1>2. /\ w \in Seq(E) /\ Len(w) = n + m
      /\ \A i \in 1..n + m : w[i] = IF i <= n THEN s[i] ELSE t[i - n]
    BY ConcatProperties
<1>3. n \in Nat /\ m \in Nat
    BY <1>1
<1> HIDE DEF n, m, w
<1>4. ASSUME NEW i \in 1..n PROVE w[i] = s[i]
    BY <1>2, <1>3
<1>5. ASSUME NEW i \in 1..m PROVE w[n + i] = t[i]
  <2>1. n + i \in 1..n + m /\ ~(n + i <= n) /\ (n + i) - n = i
      BY <1>3
  <2> QED
      BY <1>2, <2>1
<1>6. ASSUME NEW i \in 1..n + m PROVE i \in 1..n \/ \E k \in 1..m : i = n + k
  <2>1. CASE i <= n
      BY <2>1, <1>3
  <2>2. CASE ~(i <= n)
    <3>1. i - n \in 1..m /\ i = n + (i - n)
        BY <2>2, <1>3
    <3> QED
        BY <3>1
  <2> QED
      BY <2>1, <2>2
<1> QED
    BY <1>2, <1>3, <1>4, <1>5, <1>6 DEF n, m, w

LEMMA MidAppend ==
    ASSUME NEW E, NEW s \in Seq(E), StashMid(s), NEW t \in Seq(E),
           \A i \in 1..Len(t) : t[i] \in Between
    PROVE  StashMid(s \o t)
<1> DEFINE n == Len(s)
           m == Len(t)
           w == s \o t
<1>1. /\ n \in Nat /\ m \in Nat /\ Len(w) = n + m
      /\ \A i \in 1..n : w[i] = s[i]
      /\ \A i \in 1..m : w[n + i] = t[i]
      /\ \A i \in 1..n + m : i \in 1..n \/ \E k \in 1..m : i = n + k
    BY Pieces
<1>2. /\ \A i, k \in 1..n : s[i] = "stash" /\ i < k => s[k] \in Between
      /\ \A i \in 1..m : t[i] \in Between
    BY DEF StashMid
<1> HIDE DEF n, m, w
<1>3. ASSUME NEW i \in 1..n + m, NEW k \in 1..n + m, w[i] = "stash", i < k
      PROVE  w[k] \in Between
  <2>1. CASE k \in 1..n
      BY <1>1, <1>2, <1>3, <2>1
  <2>2. CASE \E x \in 1..m : k = n + x
      BY <1>1, <1>2, <2>2
  <2> QED
      BY <1>1, <2>1, <2>2
<1> QED
    BY <1>1, <1>3 DEF StashMid, w

LEMMA MidPrepend ==
    ASSUME NEW E, NEW t \in Seq(E), NEW s \in Seq(E), \A i \in 1..Len(s) : s[i] # "stash"
    PROVE  (StashMid(t) => StashMid(s \o t)) /\ (StashLast(t) => StashLast(s \o t))
<1> DEFINE n == Len(s)
           m == Len(t)
           w == s \o t
<1>1. /\ n \in Nat /\ m \in Nat /\ Len(w) = n + m
      /\ \A i \in 1..n : w[i] = s[i] /\ s[i] # "stash"
      /\ \A i \in 1..m : w[n + i] = t[i]
      /\ \A i \in 1..n + m : i \in 1..n \/ \E k \in 1..m : i = n + k
    BY Pieces
<1>2. /\ StashMid(t) <=> \A i, k \in 1..m : t[i] = "stash" /\ i < k => t[k] \in Between
      /\ StashLast(t) <=> \A i \in 1..m : t[i] = "stash" =>
            /\ i + 1 <= m /\ t[m] = "restore" /\ \A k \in i + 1..m - 1 : t[k] \in Between
    BY DEF StashMid, StashLast
<1>3. /\ StashMid(w) <=> \A i, k \in 1..Len(w) : w[i] = "stash" /\ i < k => w[k] \in Between
      /\ StashLast(w) <=> \A i \in 1..Len(w) : w[i] = "stash" =>
            /\ i + 1 <= Len(w) /\ w[Len(w)] = "restore"
            /\ \A k \in i + 1..Len(w) - 1 : w[k] \in Between
    BY DEF StashMid, StashLast
<1> HIDE DEF n, m, w
<1>4. ASSUME NEW i \in 1..n + m, w[i] = "stash"
      PROVE  \E x \in 1..m : i = n + x /\ t[x] = "stash"
    BY <1>1, <1>4
<1>5. ASSUME StashMid(t), NEW i \in 1..n + m, NEW k \in 1..n + m, w[i] = "stash", i < k
      PROVE  w[k] \in Between
  <2>1. PICK x \in 1..m : i = n + x /\ t[x] = "stash"
      BY <1>4, <1>5
  <2>2. k \notin 1..n
      BY <1>1, <1>5, <2>1
  <2>3. PICK y \in 1..m : k = n + y
      BY <1>1, <1>5, <2>2
  <2>4. x < y
      BY <1>1, <1>5, <2>1, <2>3
  <2> QED
      BY <1>1, <1>2, <1>5, <2>1, <2>3, <2>4
<1>6. ASSUME StashLast(t), NEW i \in 1..n + m, w[i] = "stash"
      PROVE  /\ i + 1 <= n + m /\ w[n + m] = "restore"
             /\ \A k \in i + 1..(n + m) - 1 : w[k] \in Between
  <2>1. PICK x \in 1..m : i = n + x /\ t[x] = "stash"
      BY <1>4, <1>6
  <2>2. /\ x + 1 <= m /\ t[m] = "restore" /\ \A k \in x + 1..m - 1 : t[k] \in Between
      BY <1>2, <1>6, <2>1
  <2>3. ASSUME NEW k \in i + 1..(n + m) - 1 PROVE w[k] \in Between
    <3>1. k - n \in x + 1..m - 1 /\ k - n \in 1..m /\ k = n + (k - n)
        BY <1>1, <2>1, <2>2
    <3>2. w[n + (k - n)] = t[k - n]
        BY <1>1, <3>1
    <3> QED
        BY <2>2, <3>1, <3>2
  <2>4. m \in 1..m /\ i + 1 <= n + m
      BY <1>1, <2>1, <2>2
  <2> QED
      BY <1>1, <2>2, <2>3, <2>4
<1>7. StashMid(t) => StashMid(w)
    BY <1>1, <1>3, <1>5
<1>8. StashLast(t) => StashLast(w)
    BY <1>1, <1>3, <1>6
<1> QED
    BY <1>7, <1>8 DEF w

LEMMA Closing ==
    ASSUME NEW E, {"restore", "update"} \subseteq E, NEW s \in Seq(E)
    PROVE  /\ StashMid(s) => StashLast(s \o <<"restore">>)
           /\ StashLast(s) => StashOrder(s \o <<"update">>)
<1> DEFINE n == Len(s)
<1>1. ASSUME NEW e \in E
      PROVE  /\ n \in Nat /\ Len(s \o <<e>>) = n + 1
             /\ \A i \in 1..n : (s \o <<e>>)[i] = s[i]
             /\ (s \o <<e>>)[n + 1] = e
  <2> DEFINE t == <<e>>
  <2>1. t \in Seq(E) /\ Len(t) = 1 /\ t[1] = e
      OBVIOUS
  <2>4. t \in Seq(E)
      BY <2>1
  <2> HIDE DEF t, n
  <2>2. /\ Len(s) \in Nat /\ Len(s \o t) = Len(s) + Len(t)
        /\ \A i \in 1..Len(s) : (s \o t)[i] = s[i]
        /\ \A i \in 1..Len(t) : (s \o t)[Len(s) + i] = t[i]
      BY <2>4, Pieces
  <2>3. (s \o t)[Len(s) + 1] = t[1] /\ Len(s \o t) = Len(s) + 1
      BY <2>1, <2>2
  <2> QED
      BY <2>1, <2>2, <2>3 DEF t, n
<1>2. ASSUME StashMid(s) PROVE StashLast(s \o <<"restore">>)
  <2> DEFINE w == s \o <<"restore">>
  <2>1. /\ n \in Nat /\ Len(w) = n + 1 /\ \A i \in 1..n : w[i] = s[i]
        /\ w[n + 1] = "restore"
      BY <1>1
  <2>2. \A i, k \in 1..n : s[i] = "stash" /\ i < k => s[k] \in Between
      BY <1>2 DEF StashMid
  <2> HIDE DEF n, w
  <2>3. ASSUME NEW i \in 1..n + 1, w[i] = "stash"
        PROVE  i + 1 <= n + 1 /\ \A k \in i + 1..(n + 1) - 1 : w[k] \in Between
    <3>1. i \in 1..n
        BY <2>1, <2>3
    <3>2. \A k \in i + 1..n : k \in 1..n /\ i < k
        BY <2>1, <3>1
    <3> QED
        BY <2>1, <2>2, <2>3, <3>1, <3>2
  <2>4. StashLast(w)
      BY <2>1, <2>3 DEF StashLast
  <2> QED
      BY <2>4 DEF w
<1>3. ASSUME StashLast(s) PROVE StashOrder(s \o <<"update">>)
  <2> DEFINE w == s \o <<"update">>
  <2>1. /\ n \in Nat /\ Len(w) = n + 1 /\ \A i \in 1..n : w[i] = s[i]
        /\ w[n + 1] = "update"
      BY <1>1
  <2>2. \A i \in 1..n : s[i] = "stash" =>
            /\ i + 1 <= n /\ s[n] = "restore" /\ \A k \in i + 1..n - 1 : s[k] \in Between
      BY <1>3 DEF StashLast
  <2> HIDE DEF n, w
  <2>3. ASSUME NEW i \in 1..n + 1, w[i] = "stash"
        PROVE  /\ i + 2 <= n + 1 /\ w[n + 1] = "update" /\ w[(n + 1) - 1] = "restore"
               /\ \A k \in i + 1..(n + 1) - 2 : w[k] \in Between
    <3>1. i \in 1..n /\ s[i] = "stash"
        BY <2>1, <2>3
    <3>2. i + 1 <= n /\ s[n] = "restore" /\ \A k \in i + 1..n - 1 : s[k] \in Between
        BY <2>2, <3>1
    <3>3. w[n] = "restore" /\ (n + 1) - 1 = n /\ (n + 1) - 2 = n - 1
        BY <2>1, <3>1, <3>2
    <3>4. \A k \in i + 1..n - 1 : k \in 1..n
        BY <2>1, <3>1
    <3> QED
        BY <2>1, <3>1, <3>2, <3>3, <3>4
  <2>4. StashOrder(w)
      BY <2>1, <2>3 DEF StashOrder
  <2> QED
      BY <2>4 DEF w
<1> QED
    BY <1>2, <1>3

(* The plans of the life cycle: only an integration puts changes aside, and it *)
(* then ends with their restoring and the record.                             *)
LEMMA StashSeq ==
    ASSUME NEW action \in Action, NEW opts, NEW g
    PROVE  StashOrder(Effects(action, opts, g))
<1> DEFINE todo == Effects(action, opts, g)
           c == When(Dirty(g) /\ "commit" \in opts, "commit")
           d == When(Dirty(g) /\ "discard" \in opts, "discard")
<1>1. CASE action \notin {"ff", "verify"}
  <2>1. todo \in Seq(PlanEffects(action))
      BY EffectsTyped
  <2>2. "stash" \notin PlanEffects(action)
      BY <1>1 DEF PlanEffects
  <2> QED
      BY <2>1, <2>2, NoStash
<1>2. CASE action = "verify"
  <2> DEFINE S == {"commit", "discard", "verify", "update"}
             v == <<"verify", "update">>
  <2>1. todo = (c \o d) \o v
      BY <1>2 DEF Effects
  <2>2. v \in Seq(S) /\ {"commit", "discard"} \subseteq S /\ "stash" \notin S
      OBVIOUS
  <2> HIDE DEF S, v
  <2>3. (c \o d) \o v \in Seq(S)
      BY <2>2, FinalizeSeq
  <2> HIDE DEF c, d
  <2> QED
      BY <2>1, <2>2, <2>3, NoStash
<1>3. CASE action = "ff"
  <2> DEFINE i == IF Integrates(opts, g) THEN IntegrationEffects(opts, g) ELSE <<>>
             u == <<"update">>
             a == When(~(g.base \subseteq g.local), "rebase")
             b == When(g.main # {} /\ "stash" \in opts, "stash")
             x == When(g.main # {} /\ "drop" \in opts, "drop")
             y == <<"switch", "merge">>
             e == When(g.main # {} /\ "stash" \in opts, "restore")
             S == {"commit", "discard", "rebase", "drop", "switch", "merge", "update"}
             E == S \cup {"stash", "restore"}
  <2>1. todo = ((c \o d) \o i) \o u
      BY <1>3 DEF Effects
  <2>2. i = IF Integrates(opts, g) THEN (((a \o b) \o x) \o y) \o e ELSE <<>>
      BY DEF IntegrationEffects
  <2>3. /\ c \in Seq(S) /\ d \in Seq(S) /\ a \in Seq(S) /\ x \in Seq(S)
        /\ y \in Seq(S) /\ u \in Seq(S) /\ <<>> \in Seq(S)
      BY WhenSeq, EmptySeq
  <2>4. /\ "stash" \notin S /\ S \subseteq E /\ {"restore", "update", "stash"} \subseteq E
      OBVIOUS
  <2>5. CASE ~(g.main # {} /\ "stash" \in opts) \/ ~Integrates(opts, g)
    <3>1. Integrates(opts, g) => b = <<>> /\ e = <<>>
        BY <2>5 DEF When
    <3> HIDE DEF todo, c, d, i, u, a, b, x, y, e, S, E
    <3>2. c \o d \in Seq(S)
        BY <2>3, ConcatProperties
    <3>3. i \in Seq(S)
      <4>1. CASE ~Integrates(opts, g)
          BY <2>2, <2>3, <4>1
      <4>2. CASE Integrates(opts, g)
        <5>1. a \o b \in Seq(S)
            BY <2>3, <3>1, <4>2, ConcatProperties
        <5>2. (a \o b) \o x \in Seq(S)
            BY <2>3, <5>1, ConcatProperties
        <5>3. ((a \o b) \o x) \o y \in Seq(S)
            BY <2>3, <5>2, ConcatProperties
        <5>4. (((a \o b) \o x) \o y) \o e \in Seq(S)
            BY <2>3, <3>1, <4>2, <5>3, ConcatProperties
        <5> QED
            BY <2>2, <4>2, <5>4
      <4> QED
          BY <4>1, <4>2
    <3>4. (c \o d) \o i \in Seq(S)
        BY <3>2, <3>3, ConcatProperties
    <3>5. todo \in Seq(S)
        BY <2>1, <2>3, <3>4, ConcatProperties
    <3> QED
        BY <2>4, <3>5, NoStash DEF todo
  <2>6. CASE g.main # {} /\ "stash" \in opts /\ Integrates(opts, g)
    <3>1. b = <<"stash">> /\ e = <<"restore">> /\ u = <<"update">>
        BY <2>6 DEF When
    <3>2. /\ \A k \in 1..Len(x) : x[k] \in Between
          /\ \A k \in 1..Len(y) : y[k] \in Between
      <4>1. x \in Seq(Between)
          BY WhenSeq DEF Between
      <4>2. y \in Seq(Between)
        <5>1. "switch" \in Between /\ "merge" \in Between
            BY DEF Between
        <5> QED
            BY <5>1, Short
      <4> QED
          BY <4>1, <4>2, ElementOfSeq
    <3>0. StashMid(b) /\ b \in Seq(E)
      <4> DEFINE w == <<"stash">>
      <4>1. w \in Seq(E) /\ Len(w) = 1
          BY <2>4
      <4> HIDE DEF w
      <4>2. StashMid(w)
          BY <4>1 DEF StashMid
      <4> QED
          BY <3>1, <4>1, <4>2 DEF w
    <3> HIDE DEF todo, c, d, i, u, a, b, x, y, e, S
    <3>3. /\ c \in Seq(E) /\ d \in Seq(E) /\ a \in Seq(E) /\ x \in Seq(E) /\ y \in Seq(E)
        BY <2>3, <2>4, SeqMonotonic
    <3>4. /\ c \o d \in Seq(E) /\ c \o d \in Seq(S)
        BY <2>3, <3>3, ConcatProperties
    <3>5. /\ \A k \in 1..Len(a) : a[k] # "stash"
          /\ \A k \in 1..Len(c \o d) : (c \o d)[k] # "stash"
        BY <2>3, <2>4, <3>4, ElementOfSeq
    <3> HIDE DEF E
    <3>6. StashMid(a \o b) /\ a \o b \in Seq(E)
        BY <3>0, <3>3, <3>5, MidPrepend, ConcatProperties
    <3>7. StashMid((a \o b) \o x) /\ (a \o b) \o x \in Seq(E)
        BY <3>2, <3>3, <3>6, MidAppend, ConcatProperties
    <3>8. StashMid(((a \o b) \o x) \o y) /\ ((a \o b) \o x) \o y \in Seq(E)
        BY <3>2, <3>3, <3>7, MidAppend, ConcatProperties
    <3>9. StashLast(i) /\ i \in Seq(E)
      <4>1. StashLast((((a \o b) \o x) \o y) \o <<"restore">>)
          BY <2>4, <3>8, Closing
      <4>2. <<"restore">> \in Seq(E)
          BY <2>4, Short
      <4>3. (((a \o b) \o x) \o y) \o <<"restore">> \in Seq(E)
          BY <3>8, <4>2, ConcatProperties
      <4> QED
          BY <2>2, <2>6, <3>1, <4>1, <4>3
    <3>10. StashLast((c \o d) \o i) /\ (c \o d) \o i \in Seq(E)
        BY <3>4, <3>5, <3>9, MidPrepend, ConcatProperties
    <3>11. StashOrder(((c \o d) \o i) \o <<"update">>)
        BY <2>4, <3>10, Closing
    <3> QED
        BY <2>1, <3>1, <3>11 DEF todo
  <2> QED
      BY <2>5, <2>6
<1> QED
    BY <1>1, <1>2, <1>3

(* A step of p keeps its own job in order. *)
LEMMA StashOwn ==
    ASSUME FlowInv, StashInv, NEW p \in Procs, Step(p), job'[p] # None
    PROVE  StashOK(job'[p])
<1> DEFINE j == job[p]
<1>0. /\ DOMAIN job = Procs /\ rec \in {None} \cup Record
      /\ j # None => /\ j \in Job /\ TodoOK(j) /\ StashOK(j)
                     /\ j.pc \notin Running => j.stashed = {}
    BY DEF FlowInv, LockInv, JobShape, Shape, JobsOK, JobOK, StashInv
<1>1. CASE Plan(p)
  <2>1. PICK action \in Actions :
          \E opts \in Options(action, git) : job' = [job EXCEPT ![p] = Approved(action, opts)]
      BY <1>1 DEF Plan
  <2>2. PICK opts : job'[p] = Approved(action, opts)
      BY <1>0, <2>1
  <2>4. /\ Approved(action, opts).todo = Effects(action, opts, git)
        /\ Approved(action, opts).stashed = {}
      BY DEF Approved
  <2>3. job'[p].todo = Effects(action, opts, git) /\ job'[p].stashed = {}
      BY <2>2, <2>4
  <2> QED
      BY <2>3, StashSeq, ActionsAssumption DEF StashOK
<1>2. CASE LockRepo(p) \/ LockStore(p)
  <2>1. PICK pc : /\ job' = [job EXCEPT ![p].pc = pc]
                  /\ j # None /\ j.pc \in {"want repo", "want store"}
    <3>1. CASE LockRepo(p)
        BY <3>1 DEF LockRepo, At, Goto
    <3>2. CASE LockStore(p)
        BY <3>2 DEF LockStore, At, Goto
    <3> QED
        BY <1>2, <3>1, <3>2
  <2>2. job'[p].todo = j.todo /\ job'[p].stashed = {}
      BY <1>0, <2>1 DEF Job, Running
  <2> QED
      BY <1>0, <2>1, <2>2 DEF StashOK
<1>3. CASE Replan(p)
  <2>1. /\ j # None /\ j.pc = "replan"
        /\ job' = [job EXCEPT ![p].pc = "check", ![p].seen = Observed(git)]
      BY <1>0, <1>3 DEF Replan, At, End
  <2>2. j.stashed = {}
      BY <1>0, <2>1 DEF StashOK
  <2>3. job'[p].todo = j.todo /\ job'[p].stashed = {}
      BY <1>0, <2>1, <2>2 DEF Job
  <2> QED
      BY <1>0, <2>1, <2>3 DEF StashOK
<1>4. CASE Check(p)
  <2>1. j # None /\ j.pc = "check" /\ job' = [job EXCEPT ![p].pc = "act"]
      BY <1>4 DEF Check, At, Goto
  <2>2. job'[p].todo = j.todo /\ job'[p].stashed = j.stashed /\ job'[p].pc = "act"
      BY <1>0, <2>1 DEF Job
  <2> QED
      BY <1>0, <2>1, <2>2 DEF StashOK
<1>5. CASE Act(p)
  <2> DEFINE k == Acted(j, Head(j.todo), git')
  <2>1. j # None /\ j.pc = "act" /\ job' = [job EXCEPT ![p] = k]
      BY <1>5 DEF Act, At
  <2>2. /\ job'[p] = k /\ k.todo = j.todo /\ k.pc = "refresh"
        /\ Head(j.todo) = "restore" => k.stashed = {}
        /\ Head(j.todo) \notin {"stash", "restore"} => k.stashed = j.stashed
      BY <1>0, <2>1 DEF Job, Acted
  <2> HIDE DEF k, j
  <2>3. j.todo \in Seq(PlanEffects(j.action)) /\ j.todo # <<>>
      BY <1>0, <2>1 DEF TodoOK
  <2>4. k.stashed # {} => Pending(Tail(j.todo))
    <3>1. CASE Head(j.todo) = "stash"
        BY <1>0, <2>1, <2>3, <3>1, PendingTail DEF StashOK
    <3>2. CASE Head(j.todo) \notin {"stash", "restore"}
        BY <1>0, <2>1, <2>2, <2>3, <3>2, PendingTail DEF StashOK
    <3> QED
        BY <2>2, <3>1, <3>2
  <2> QED
      BY <1>0, <2>1, <2>2, <2>4 DEF StashOK
<1>6. CASE Refresh(p)
  <2> DEFINE k == [j EXCEPT !.pc = "check", !.todo = Tail(@), !.seen = Adopted(j, Head(j.todo))]
  <2>1. j # None /\ j.pc = "refresh" /\ job'[p] = k
      BY <1>0, <1>6 DEF Refresh, At
  <2>2. k.todo = Tail(j.todo) /\ k.pc = "check" /\ k.stashed = j.stashed
      BY <1>0, <2>1 DEF Job
  <2> HIDE DEF k, j
  <2>3. j.todo \in Seq(PlanEffects(j.action)) /\ j.todo # <<>>
      BY <1>0, <2>1 DEF TodoOK
  <2>4. StashOrder(k.todo)
      BY <1>0, <2>1, <2>2, <2>3, PendingTail DEF StashOK
  <2> QED
      BY <1>0, <2>1, <2>2, <2>4 DEF StashOK
<1>7. CASE Write(p) \/ Finish(p) \/ RestoreFails(p) \/ Crash(p) \/ Restore(p)
    BY <1>0, <1>7 DEF Write, Finish, RestoreFails, Crash, Restore, End
<1>8. CASE Fail(p) \/ RebaseStops(p) \/ StashUnnamed(p)
  <2>1. j # None /\ Failed(p)
      BY <1>8 DEF Fail, RebaseStops, StashUnnamed, At
  <2>2. job'[p].todo = j.todo /\ job'[p].pc = "restore"
      BY <1>0, <2>1 DEF Failed, Job
  <2> QED
      BY <1>0, <2>1, <2>2 DEF StashOK
<1> QED
    BY <1>1, <1>2, <1>3, <1>4, <1>5, <1>6, <1>7, <1>8 DEF Step

LEMMA StashStep == FlowInv /\ StashInv /\ [Next]_vars => StashInv'
<1> SUFFICES ASSUME FlowInv, StashInv, [Next]_vars
             PROVE  StashInv'
    OBVIOUS
<1>1. CASE job' = job
    BY <1>1 DEF StashInv
<1>2. ASSUME NEW p \in Procs, Step(p)
      PROVE  StashInv'
  <2>1. job'[p] # None => StashOK(job'[p])
      BY <1>2, StashOwn
  <2>2. \A q \in Procs : q # p => job'[q] = job[q]
      BY <1>2, OwnJob DEF FlowInv, LockInv
  <2> QED
      BY <2>1, <2>2 DEF StashInv
<1> QED
    BY <1>1, <1>2 DEF Next, Environment, SetNote, vars

(* A job ends with canonical changes still put aside only in a crash, or once it *)
(* has tried to restore them.                                                   *)
LEMMA StashEnds ==
    ASSUME FlowInv, StashInv, NEW p \in Procs, Step(p), ~Crash(p),
           job[p] # None, job[p].stashed # {}, job'[p] = None
    PROVE  Restoring(p)
<1> DEFINE j == job[p]
<1>0. /\ DOMAIN job = Procs /\ Sound(git) /\ JobOK(j, git)
      /\ j \in Job /\ TodoOK(j) /\ StashOK(j) /\ j.pc \in Running /\ j.pc # "replan"
    BY DEF FlowInv, LockInv, JobShape, Shape, JobsOK, JobOK, StashInv, StashOK
<1>1. ~Plan(p) /\ ~LockRepo(p) /\ ~LockStore(p) /\ ~Replan(p)
    BY <1>0 DEF Plan, LockRepo, LockStore, Replan, At, Running
<1>2. ~Check(p)
  <2> SUFFICES ASSUME Check(p)  PROVE FALSE
      OBVIOUS
  <2>1. job'[p] = [j EXCEPT !.pc = "act"]
      BY <1>0 DEF Check, Goto
  <2>2. [j EXCEPT !.pc = "act"] \in Job
      BY <1>0 DEF Job, PC
  <2> QED
      BY <2>1, <2>2, JobAssumption
<1>3. ~Act(p)
  <2> SUFFICES ASSUME Act(p)  PROVE FALSE
      OBVIOUS
  <2> DEFINE effect == Head(j.todo)
  <2>1. /\ j # None /\ j.pc = "act" /\ effect \notin Ends /\ Possible(j, effect)
        /\ git' \in Results(j, effect)
        /\ job' = [job EXCEPT ![p] = Acted(j, effect, git')]
      BY DEF Act, At
  <2>2. Sound(git')
      BY <1>0, <2>1, ActSound
  <2>3. JobOK(Acted(j, effect, git'), git')
      BY <1>0, <2>1, <2>2, ActJob
  <2> QED
      BY <1>0, <2>1, <2>3, JobAssumption DEF JobOK
<1>4. ~Refresh(p)
  <2> SUFFICES ASSUME Refresh(p)  PROVE FALSE
      OBVIOUS
  <2> DEFINE k == [j EXCEPT !.pc = "check", !.todo = Tail(@), !.seen = Adopted(j, Head(j.todo))]
  <2>1. /\ j # None /\ j.pc = "refresh" /\ Verified(j, Head(j.todo)) /\ job'[p] = k
      BY <1>0 DEF Refresh, At
  <2>2. JobOK(k, git)
      BY <1>0, <2>1, RefreshJob
  <2> QED
      BY <2>1, <2>2, JobAssumption DEF JobOK
<1>5. ~Failed(p)
  <2> SUFFICES ASSUME Failed(p)  PROVE FALSE
      OBVIOUS
  <2>1. job'[p] = [j EXCEPT !.pc = "restore"]
      BY <1>0 DEF Failed
  <2>2. [j EXCEPT !.pc = "restore"] \in Job
      BY <1>0 DEF Job, PC
  <2> QED
      BY <2>1, <2>2, JobAssumption
<1>6. j.todo \in Seq(PlanEffects(j.action))
    BY <1>0 DEF TodoOK
<1>7. ~Write(p)
  <2> SUFFICES ASSUME Write(p)  PROVE FALSE
      OBVIOUS
  <2>1. j.pc = "act" /\ Head(j.todo) \in Ends
      BY DEF Write, At
  <2>2. j.todo # <<>> /\ Pending(j.todo)
      BY <1>0, <2>1 DEF TodoOK, StashOK
  <2>3. Head(j.todo) \in Between \cup {"restore"}
      BY <1>6, <2>2, PendingTail
  <2> QED
      BY <2>1, <2>3 DEF Between, Ends
<1>8. ~Finish(p)
  <2> SUFFICES ASSUME Finish(p)  PROVE FALSE
      OBVIOUS
  <2>1. j.pc = "check" /\ j.todo = <<>>
      BY DEF Finish, At
  <2>2. Pending(j.todo)
      BY <1>0, <2>1 DEF StashOK
  <2>3. Len(j.todo) = 0
      BY <2>1
  <2> QED
      BY <2>2, <2>3 DEF Pending
<1>9. Restore(p) \/ RestoreFails(p)
    BY <1>1, <1>2, <1>3, <1>4, <1>5, <1>7, <1>8 DEF Step, Fail, RebaseStops, StashUnnamed
<1> QED
    BY <1>9 DEF Restore, RestoreFails, Restoring

(* An integration that put the changes of the canonical checkout aside tries to *)
(* bring them back, whichever effect or check stops it.  A crash does forget     *)
(* them: the stash is named after the plan, and no other command looks for it.   *)
THEOREM StashNotForgottenTheorem ==
    ASSUME "crash" \notin Faults
    PROVE  Spec => StashNotForgotten
<1> DEFINE A == \A p \in Procs :
                   job[p] # None /\ job[p].stashed # {} /\ job'[p] = None => Restoring(p)
<1>1. FlowInv /\ StashInv /\ [Next]_vars => [A]_vars
  <2> SUFFICES ASSUME FlowInv, StashInv, Next, NEW p \in Procs,
                      job[p] # None, job[p].stashed # {}, job'[p] = None
               PROVE  Restoring(p)
      OBVIOUS
  <2>1. PICK q \in Procs : Step(q)
      BY DEF Next, Environment, SetNote
  <2>2. q = p
      BY <2>1, OwnJob DEF FlowInv, LockInv
  <2>3. ~Crash(p)
      BY DEF Crash, Can
  <2> QED
      BY <2>1, <2>2, <2>3, StashEnds
<1>2. Spec => [](FlowInv /\ StashInv)
  <2>1. FlowInv /\ StashInv /\ [Next]_vars => (FlowInv /\ StashInv)'
      BY FlowStep, StashStep
  <2>2. Init => FlowInv /\ StashInv
      BY FlowInit DEF Init, StashInv
  <2> QED
      BY <2>1, <2>2, PTL DEF Spec
<1> QED
    BY <1>1, <1>2, PTL DEF Spec, StashNotForgotten
===============================================================================
