------------------------------ MODULE Repository ------------------------------
(***************************************************************************)
(* The Git repository of one worktree task, as internal/taskflow meets it  *)
(* through internal/gitx: the task's branch and linked worktree, its       *)
(* remote, the base branch and the canonical checkout.  A unit of work is  *)
(* written once and then moves: uncommitted, committed, pushed, merged,    *)
(* stashed.  A ref is the set of units it reaches, None if it is missing.  *)
(*                                                                         *)
(* Git commands are functions from repository to repository.  The user     *)
(* and the forge act at any time: they take none of dev's locks.           *)
(***************************************************************************)
EXTENDS Naturals, FiniteSets

CONSTANTS
    Patches,    \* units of work
    Habits,     \* what the user and the forge do, by name
    None

VARIABLE git

Work == SUBSET Patches
Ref  == {None} \cup Work

ASSUME RefAssumption == \A w \in Work : w # None

Repository ==
    [tree : Ref,            \* uncommitted in the linked worktree, None if removed
     rebasing : BOOLEAN,    \* a rebase stopped in the linked worktree
     local : Ref,           \* the task branch
     upstream : BOOLEAN,    \* the task branch has an upstream configured
     tracking : Ref,        \* the remote-tracking ref of that branch
     remote : Ref,          \* the branch at the remote itself
     rewritten : BOOLEAN,   \* a rebase replaced commits that tracking holds
     base : Work,           \* the base branch
     main : Work,           \* uncommitted in the canonical checkout
     stash : Work,          \* canonical changes an integration put aside
     written : Work,        \* everything ever written
     dropped : Work]        \* everything discarded on request

NewRepository ==
    [tree |-> {}, rebasing |-> FALSE, local |-> {}, upstream |-> FALSE,
     tracking |-> None, remote |-> None, rewritten |-> FALSE, base |-> {},
     main |-> {}, stash |-> {}, written |-> {}, dropped |-> {}]

-------------------------------------------------------------------------------
(* What dev reads.                                                          *)

\* Status.Published: an upstream is configured, whether or not it exists.
Published(g) == g.upstream

\* Seeded faults: the counts are not parsed; the ancestry test has its
\* arguments swapped.
NotAheadUnparsed(g) == TRUE
ContainedSwapped(g) == g.base \subseteq g.local

\* Status.Ahead = 0.  Git reports no branch.ab when the upstream ref is gone.
NotAhead(g) == g.tracking # None => ~g.rewritten /\ g.local \subseteq g.tracking

Contained(g) == g.local \subseteq g.base

-------------------------------------------------------------------------------
(* Git commands, and when Git refuses them.                                 *)

Committed(g) == [g EXCEPT !.local = @ \cup g.tree, !.tree = {}]
Discarded(g) == [g EXCEPT !.dropped = @ \cup g.tree, !.tree = {}]

CanPush(g) == g.local # None /\ (g.remote # None => ~g.rewritten /\ g.remote \subseteq g.local)
Pushed(g)  == [g EXCEPT !.remote = g.local, !.tracking = g.local,
                        !.upstream = TRUE, !.rewritten = FALSE]
Fetched(g) == [g EXCEPT !.tracking = g.remote, !.rewritten = @ /\ g.remote # None]

\* Seeded fault: removal with --force.
CanRemoveForced(g) == g.tree # None
CanRemove(g) == g.tree = {}
Removed(g)   == [g EXCEPT !.tree = None]

\* The branch itself, or a new one that tracks the published branch.
CanAdd(g) == g.tree = None /\ (g.local # None \/ g.tracking # None)
Added(g)  ==
    IF g.local # None THEN [g EXCEPT !.tree = {}]
    ELSE [g EXCEPT !.tree = {}, !.local = g.tracking, !.upstream = TRUE]

CanRebase(g) == g.tree = {} /\ ~g.rebasing
Rebased(g)   == [g EXCEPT !.local = @ \cup g.base,
                          !.rewritten = @ \/ (g.tracking # None /\ ~(g.tracking \subseteq g.base))]
Stopped(g)   == [g EXCEPT !.rebasing = TRUE]

CanMerge(g) == g.main = {} /\ g.base \subseteq g.local
Merged(g)   == [g EXCEPT !.base = g.local]

\* git branch -d wants the branch merged into its upstream, or into HEAD.
CanDelete(g) ==
    /\ g.tree = None /\ g.local # None
    /\ IF g.upstream /\ g.tracking # None THEN NotAhead(g) ELSE Contained(g)
Deleted(g)   == [g EXCEPT !.local = None, !.upstream = FALSE, !.rewritten = FALSE]

Stashed(g)     == [g EXCEPT !.stash = @ \cup g.main, !.main = {}]
Restored(g, s) == [g EXCEPT !.main = @ \cup s, !.stash = @ \ s]
MainDropped(g) == [g EXCEPT !.dropped = @ \cup g.main, !.main = {}]

-------------------------------------------------------------------------------
(* The user and the forge.                                                  *)

Does(habit) == habit \in Habits

Edit == Does("edit") /\ git.tree # None /\ ~git.rebasing
    /\ \E u \in Patches \ git.written :
          git' = [git EXCEPT !.tree = @ \cup {u}, !.written = @ \cup {u}]

EditMain == Does("edit main") /\ \E u \in Patches \ git.written :
    git' = [git EXCEPT !.main = @ \cup {u}, !.written = @ \cup {u}]

Commit == Does("commit") /\ git.tree \notin {None, {}} /\ ~git.rebasing /\ git' = Committed(git)

CommitMain == Does("commit main") /\ git.main # {}
    /\ git' = [git EXCEPT !.base = @ \cup git.main, !.main = {}]

Push == Does("push") /\ CanPush(git) /\ git' = Pushed(git)

Fetch == Does("fetch") /\ git' = Fetched(git)

\* The forge merges the published branch by fast-forward, and the base is pulled.
MergeReview ==
    /\ Does("review") /\ git.remote # None /\ ~git.rewritten
    /\ git.base \subseteq git.remote
    /\ git' = [git EXCEPT !.base = git.remote]

\* Nobody deletes the only copy of a branch.
DeleteRemote ==
    /\ Does("delete remote") /\ git.remote # None
    /\ git.remote \subseteq git.base \/ (git.local # None /\ git.remote \subseteq git.local)
    /\ git' = [git EXCEPT !.remote = None]

DeleteLocal ==
    /\ Does("delete local") /\ git.tree = None /\ git.local # None /\ git.remote # None
    /\ ~git.rewritten /\ git.local \subseteq git.remote
    /\ git' = Deleted(git)

\* git rebase --continue or --abort after a conflict.
EndRebase ==
    /\ git.rebasing
    /\ git' \in {[git EXCEPT !.rebasing = FALSE],
                 Rebased([git EXCEPT !.rebasing = FALSE])}

Others ==
    \/ Edit \/ EditMain \/ Commit \/ CommitMain \/ Push \/ Fetch
    \/ MergeReview \/ DeleteRemote \/ DeleteLocal \/ EndRebase

-------------------------------------------------------------------------------

\* Where a unit of work can still be found.
Reachable(g) ==
    UNION {r \in {g.tree, g.local, g.remote, g.base, g.main, g.stash} : r # None}
===============================================================================
