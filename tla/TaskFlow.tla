------------------------------- MODULE TaskFlow -------------------------------
(***************************************************************************)
(* The task life cycle (internal/taskflow): a plan is built from what is   *)
(* observed and approved; applying it takes the repository's lock, then    *)
(* the task store's, observes again, refuses unless nothing changed, and   *)
(* runs the plan's effects one by one.  Each effect is preceded by a check *)
(* of what it relies on, and followed by a fresh observation; users and    *)
(* the forge act in between.  A worktree-mode task is modelled.            *)
(*                                                                         *)
(* One observation is one step.  Runtime sessions, panes and artifact      *)
(* receipts are further conditions: a check may fail for them at any time. *)
(***************************************************************************)
EXTENDS Repository, Sequences

CONSTANTS
    Procs,      \* dev processes
    Actions,    \* the actions they plan
    Faults,     \* "crash", "conflict", "outside": what may go wrong besides refusals
    MaxNotes    \* edits of the record by other commands

ASSUME MaxNotesAssumption == MaxNotes \in Nat

VARIABLES
    rec,        \* the task's record, or None
    job         \* what each process is doing, or None

vars == <<git, rec, job>>

State  == {"hot", "warm", "cold", "done"}
Record == [state : State, path : BOOLEAN, notes : 0..MaxNotes]
Action == {"warm", "cold", "resume", "ff", "verify", "review", "retire", "sweep"}
Option == {"commit", "discard", "push", "fetch", "stash", "drop", "delete branch"}
Effect == {"commit", "discard", "push", "fetch", "create", "remove", "rebase",
           "stash", "drop", "switch", "merge", "restore", "verify", "review",
           "update", "delete branch", "reap", "sweep"}
PC == {"want repo", "want store", "replan", "check", "act", "refresh", "restore"}

ASSUME ActionsAssumption == Actions \subseteq Action

\* The process keeps what it last saw of the repository, the rest is blank.
Observed(g) == [g EXCEPT !.remote = None, !.stash = {}, !.written = {}, !.dropped = {}]

Job == [pc : PC, action : Action, opts : SUBSET Option,
        rec : Record,           \* the record the plan is for
        work : Work,            \* the work the approved plan is about
        seen : Repository,      \* the repository as last observed
        todo : Seq(Effect),
        touched : BOOLEAN,      \* the canonical checkout was switched to the base
        stashed : Work,         \* the stash still to be restored
        restored : BOOLEAN]

ASSUME JobAssumption == None \notin Job

Init ==
    /\ git = NewRepository
    /\ rec = [state |-> "hot", path |-> TRUE, notes |-> 0]
    /\ job = [p \in Procs |-> None]

-------------------------------------------------------------------------------
(* Plans.                                                                   *)

Completion == {"ff", "verify", "review"}

Source(action) ==
    CASE action = "resume" -> {"warm", "cold"}
      [] action = "retire" -> {"done"}
      [] action = "sweep"  -> State
      [] OTHER             -> {"hot", "warm"}

Target(action) ==
    CASE action = "warm" -> "warm" [] action = "cold" -> "cold"
      [] action = "resume" -> "hot" [] OTHER -> "done"

Dirty(g) == g.tree \notin {None, {}}
CheckedOut(g) == g.tree # None /\ ~g.rebasing

\* An option that has nothing to act on changes no plan.
Options(action, g) ==
    LET finish == {{}} \cup (IF Dirty(g) THEN {{"commit"}, {"discard"}} ELSE {})
        target == {{}} \cup (IF g.main # {} THEN {{"stash"}, {"drop"}} ELSE {})
        park   == {o \in SUBSET {"commit", "push"} : "commit" \in o => Dirty(g)}
    IN  CASE action \in {"warm", "cold"} -> park
          [] action = "resume"           -> SUBSET {"fetch"}
          [] action = "retire"           -> SUBSET {"delete branch"}
          [] action = "ff"               -> {f \cup m : f \in finish, m \in target}
          [] action \in {"verify", "review"} -> finish
          [] action = "sweep"            -> {{}}

\* effectiveCompletionRelation: the branch will not be contained in the base.
Integrates(opts, g) == ~Contained(g) \/ ("commit" \in opts /\ Dirty(g))

ReadyToPark(cold, opts, g) ==
    /\ CheckedOut(g)
    /\ cold => /\ ~Dirty(g) \/ "commit" \in opts
               /\ \/ "push" \in opts
                  \/ Published(g) /\ NotAhead(g) /\ ~("commit" \in opts /\ Dirty(g))

ReadyToResume(opts, g) ==
    IF g.tree # None THEN ~g.rebasing
    ELSE g.local # None \/ g.tracking # None \/ "fetch" \in opts

ReadyToComplete(action, opts, g) ==
    /\ CheckedOut(g)
    /\ Dirty(g) => opts \cap {"commit", "discard"} # {}
    /\ CASE action = "ff"     -> Integrates(opts, g) /\ g.main # {}
                                    => opts \cap {"stash", "drop"} # {}
         [] action = "verify" -> Contained(g)
         [] action = "review" -> Integrates(opts, g)

\* Seeded fault: containment is not required.
ReadyToRetireUnmerged(g) == CheckedOut(g) /\ ~Dirty(g)

ReadyToRetire(g) == CheckedOut(g) /\ ~Dirty(g) /\ Contained(g)

\* No session, worktree or local branch is left of the task.
ReadyToSweep(g) == g.tree = None /\ g.local = None

Ready(action, opts, r, g) ==
    /\ r.state \in Source(action)
    /\ CASE action \in {"warm", "cold"} -> ReadyToPark(action = "cold", opts, g)
         [] action = "resume"           -> ReadyToResume(opts, g)
         [] action = "retire"           -> ReadyToRetire(g)
         [] action = "sweep"            -> ReadyToSweep(g)
         [] OTHER                       -> ReadyToComplete(action, opts, g)

When(condition, effect) == IF condition THEN <<effect>> ELSE <<>>

IntegrationEffects(opts, g) ==
    When(~(g.base \subseteq g.local), "rebase")
    \o When(g.main # {} /\ "stash" \in opts, "stash")
    \o When(g.main # {} /\ "drop" \in opts, "drop")
    \o <<"switch", "merge">>
    \o When(g.main # {} /\ "stash" \in opts, "restore")

Effects(action, opts, g) ==
    LET finalize == When(Dirty(g) /\ "commit" \in opts, "commit")
                    \o When(Dirty(g) /\ "discard" \in opts, "discard")
        push == When("push" \in opts, "push")
    IN  CASE action = "warm"   -> finalize \o push \o <<"update">>
          [] action = "cold"   -> finalize \o push \o <<"remove", "update">>
          [] action = "resume" -> When("fetch" \in opts, "fetch")
                                  \o When(g.tree = None, "create") \o <<"update">>
          [] action = "ff"     -> finalize
                                  \o (IF Integrates(opts, g) THEN IntegrationEffects(opts, g)
                                      ELSE <<>>)
                                  \o <<"update">>
          [] action = "verify" -> finalize \o <<"verify", "update">>
          [] action = "review" -> finalize \o <<"push", "review">>
          [] action = "retire" -> <<"remove">> \o When("delete branch" \in opts, "delete branch")
                                  \o <<"reap">>
          [] action = "sweep"  -> <<"sweep">>

\* What the branch and the checkout hold, but for what is to be discarded.
AllWork == UNION {w \in {git.local, git.tree} : w # None}
WorkOf(opts) ==
    AllWork \ (IF "discard" \in opts THEN git.tree \ git.local ELSE {})

\* An approved plan.  Sweep takes the store's lock alone.
Approved(action, opts) ==
    [pc |-> IF action = "sweep" THEN "want store" ELSE "want repo",
     action |-> action, opts |-> opts, rec |-> rec,
     work |-> WorkOf(opts), seen |-> Observed(git), todo |-> Effects(action, opts, git),
     touched |-> FALSE, stashed |-> {}, restored |-> FALSE]

\* planSpec, and the user's approval.
Plan(p) ==
    /\ job[p] = None /\ rec # None
    /\ \E action \in Actions : \E opts \in Options(action, git) :
          /\ Ready(action, opts, rec, git)
          /\ job' = [job EXCEPT ![p] = Approved(action, opts)]
    /\ UNCHANGED <<git, rec>>

-------------------------------------------------------------------------------
(* Locks: the repository's, then the task store's.                          *)

At(p, pc) == job[p] # None /\ job[p].pc = pc
Running == {"replan", "check", "act", "refresh", "restore"}
HoldsStore(p) == job[p] # None /\ job[p].pc \in Running
HoldsRepo(p) == job[p] # None /\ job[p].action # "sweep" /\ job[p].pc \in Running \cup {"want store"}

Goto(p, pc) == job' = [job EXCEPT ![p].pc = pc]
End(p) == job' = [job EXCEPT ![p] = None]

LockRepo(p) ==
    /\ At(p, "want repo") /\ \A q \in Procs : ~HoldsRepo(q)
    /\ Goto(p, "want store") /\ UNCHANGED <<git, rec>>

\* Seeded fault: the task store's lock is not waited for.
LockStoreFree(p) ==
    /\ At(p, "want store")
    /\ Goto(p, IF job[p].action = "sweep" THEN "act" ELSE "replan")
    /\ UNCHANGED <<git, rec>>

LockStore(p) ==
    /\ At(p, "want store") /\ \A q \in Procs : ~HoldsStore(q)
    /\ Goto(p, IF job[p].action = "sweep" THEN "act" ELSE "replan")
    /\ UNCHANGED <<git, rec>>

-------------------------------------------------------------------------------
(* What is compared with an earlier observation.                            *)

\* Parking compares how many files changed, completion and retirement compare
\* their content.
SameTree(j) ==
    IF j.action \in Completion \cup {"retire"} \/ git.tree = None \/ j.seen.tree = None
    THEN git.tree = j.seen.tree
    ELSE Cardinality(git.tree) = Cardinality(j.seen.tree)

SameRefs(j) == \A ref \in {"local", "tracking", "upstream", "rewritten"} : git[ref] = j.seen[ref]

\* revalidateGitBaseline, revalidateCompletionSafety, reinspectRetire.
Same(j) == CheckedOut(git) /\ SameTree(j) /\ SameRefs(j) /\ git.base = j.seen.base
SameMain(j) == git.main = j.seen.main /\ git.base = j.seen.base

\* The plan and its authority fingerprint are what was approved.
SamePlan(j) ==
    /\ rec = j.rec
    /\ git.tree = None => j.seen.tree = None /\ SameRefs(j)
    /\ git.tree # None => j.seen.tree # None /\ Same(j)
    /\ j.action = "ff" => SameMain(j)

Replan(p) ==
    /\ At(p, "replan")
    /\ \/ /\ rec # None /\ SamePlan(job[p]) /\ Ready(job[p].action, job[p].opts, rec, git)
          /\ job' = [job EXCEPT ![p].pc = "check", ![p].seen = Observed(git)]
       \/ End(p)
    /\ UNCHANGED <<git, rec>>

-------------------------------------------------------------------------------
(* The check before each effect.                                            *)

ColdReady(j) == Same(j) /\ ~Dirty(git) /\ Published(git) /\ NotAhead(git)

FastForward(j) == Same(j) /\ ~Dirty(git) /\ git.base \subseteq git.local /\ git.main = {}

Integrated(j) ==
    /\ Same(j) /\ Contained(git)
    /\ j.touched => SameMain(j) /\ (j.restored \/ git.main = {})

\* A cold park has removed the checkout it could compare.
BeforeUpdate(j) ==
    CASE j.action = "warm"   -> Same(j)
      [] j.action = "cold"   -> TRUE
      [] j.action = "resume" -> CheckedOut(git)
      [] j.action = "ff"     -> Integrated(j)
      [] j.action = "verify" -> Same(j) /\ Contained(git)

Boundary(j, effect) ==
    CASE effect \in {"commit", "discard", "push", "review"} -> Same(j)
      [] effect = "verify" -> Same(j) /\ Contained(git)
      [] effect = "fetch"  -> IF j.seen.tree = None THEN git.tree = None ELSE Same(j)
      [] effect = "create" -> /\ git.local = j.seen.local /\ CanAdd(git)
                              /\ "fetch" \in j.opts \/ git.tracking = j.seen.tracking
      [] effect = "remove" -> IF j.action = "cold" THEN ColdReady(j)
                              ELSE Same(j) /\ ReadyToRetire(git)
      [] effect = "rebase" -> /\ Same(j) /\ SameMain(j)
                              /\ git.main = {} \/ j.opts \cap {"stash", "drop"} # {}
      [] effect \in {"stash", "drop"} -> SameMain(j)
      [] effect = "switch" -> Same(j) /\ SameMain(j) /\ git.main = {}
      [] effect = "merge"  -> FastForward(j)
      [] effect = "restore" -> SameMain(j) /\ git.main = {}
      [] effect = "update" -> BeforeUpdate(j)
      [] effect = "delete branch" -> git.local = j.seen.local /\ git.base = j.seen.base
      [] effect = "reap" -> /\ git.tree = None /\ git.base = j.seen.base
                            /\ git.local = IF "delete branch" \in j.opts THEN None
                                           ELSE j.seen.local

Check(p) ==
    /\ At(p, "check") /\ job[p].todo # <<>>
    /\ Boundary(job[p], Head(job[p].todo))
    /\ Goto(p, "act") /\ UNCHANGED <<git, rec>>

-------------------------------------------------------------------------------
(* The effects.                                                             *)

\* Git refuses the command, or has nothing to do.
Possible(j, effect) ==
    CASE effect = "commit" -> j.action \in Completion => Dirty(git)
      [] effect = "push"   -> CanPush(git)
      [] effect = "create" -> CanAdd(git)
      [] effect = "remove" -> CanRemove(git)
      [] effect = "rebase" -> CanRebase(git)
      [] effect = "stash"  -> git.main # {}
      [] effect = "merge"  -> CanMerge(git)
      [] effect = "delete branch" -> CanDelete(git)
      [] OTHER             -> TRUE

\* A fetch that fails is a warning.
Results(j, effect) ==
    CASE effect = "commit"  -> {Committed(git)}
      [] effect = "discard" -> {Discarded(git)}
      [] effect = "push"    -> {Pushed(git)}
      [] effect = "fetch"   -> {Fetched(git), git}
      [] effect = "create"  -> {Added(git)}
      [] effect = "remove"  -> {Removed(git)}
      [] effect = "rebase"  -> {Rebased(git)}
      [] effect = "stash"   -> {Stashed(git)}
      [] effect = "drop"    -> {MainDropped(git)}
      [] effect = "merge"   -> {Merged(git)}
      [] effect = "restore" -> {Restored(git, j.stashed)}
      [] effect = "delete branch" -> {Deleted(git)}
      [] OTHER              -> {git}

Ends == {"update", "reap", "sweep"}

\* The job after an effect that made the repository `after`.
Acted(j, effect, after) ==
    [j EXCEPT
        !.pc = "refresh",
        \* a commit on top of the approved tip is expected
        !.seen.local = IF effect = "commit" /\ git.local = @ THEN after.local ELSE @,
        !.touched = @ \/ effect = "switch",
        !.stashed = CASE effect = "stash"   -> git.main
                      [] effect = "restore" -> {}
                      [] OTHER              -> @,
        !.restored = @ \/ effect = "restore"]

Act(p) ==
    LET j == job[p]
        effect == Head(j.todo)
    IN  /\ At(p, "act") /\ effect \notin Ends
        /\ Possible(j, effect)
        /\ git' \in Results(j, effect)
        /\ job' = [job EXCEPT ![p] = Acted(j, effect, git')]
        /\ UNCHANGED rec

\* What is verified right after an effect.
Verified(j, effect) ==
    CASE effect \in {"commit", "discard"} ->
            /\ CheckedOut(git)
            /\ j.action # "warm" => git.tree = {}
            /\ j.action \in Completion => git.local = j.seen.local /\ git.base = j.seen.base
      [] effect = "push"   -> CheckedOut(git) /\ (j.action \in Completion => git.base = j.seen.base)
      [] effect = "fetch"  -> j.seen.tree = None \/ CheckedOut(git)
      [] effect = "create" -> CheckedOut(git)
      [] effect = "remove" -> IF j.action = "cold" THEN git.local # None
                              ELSE git.tree = None /\ git.local = j.seen.local
                                   /\ git.base = j.seen.base
      [] effect = "rebase" -> /\ CheckedOut(git) /\ git.tree = {}
                              /\ git.base = j.seen.base /\ git.base \subseteq git.local
      [] effect \in {"stash", "drop", "switch"} -> git.main = {} /\ git.base = j.seen.base
      [] effect = "merge"   -> git.main = {} /\ git.base = git.local
      [] effect = "restore" -> git.base = j.seen.base
      [] effect = "delete branch" -> git.local = None /\ git.base = j.seen.base
      [] OTHER              -> TRUE

\* What the next checks compare with.
Adopted(j, effect) ==
    CASE effect \in {"stash", "drop", "restore"} -> [j.seen EXCEPT !.main = git.main]
      [] effect = "merge" -> [j.seen EXCEPT !.base = git.base]
      [] effect \in {"commit", "discard", "push", "rebase", "create"}
         \/ (effect = "fetch" /\ j.seen.tree # None) ->
            [Observed(git) EXCEPT !.main = j.seen.main]
      [] OTHER -> j.seen

Refresh(p) ==
    LET j == job[p]
        effect == Head(j.todo)
    IN  /\ At(p, "refresh") /\ Verified(j, effect)
        /\ job' = [job EXCEPT ![p].pc = "check", ![p].todo = Tail(@),
                              ![p].seen = Adopted(j, effect)]
        /\ UNCHANGED <<git, rec>>

AfterRecord(j) ==
    [j.rec EXCEPT !.state = Target(j.action),
                  !.path = CASE j.action = "cold"   -> FALSE
                             [] j.action = "resume" -> TRUE
                             [] OTHER               -> @]

\* The compare-and-swap of the record comes last.
Write(p) ==
    /\ At(p, "act") /\ Head(job[p].todo) \in Ends
    /\ rec = job[p].rec
    /\ rec' = IF Head(job[p].todo) = "update" THEN AfterRecord(job[p]) ELSE None
    /\ End(p)
    /\ UNCHANGED git

\* A review handoff writes no record.
Finish(p) ==
    /\ At(p, "check") /\ job[p].todo = <<>>
    /\ End(p) /\ UNCHANGED <<git, rec>>

-------------------------------------------------------------------------------
(* Refusals and faults.                                                     *)

\* Seeded fault: a refused integration leaves the stash behind.
FailedAtOnce(p) == job' = [job EXCEPT ![p] = None]

\* The deferred restore of an integration that stops early.
Failed(p) == job' = [job EXCEPT ![p] =
                IF @.stashed # {} THEN [@ EXCEPT !.pc = "restore"] ELSE None]

Can(fault) == fault \in Faults

\* The check before an effect, Git, or the check after it says no.
Refused(p) ==
    LET j == job[p]
        effect == Head(j.todo)
    IN  CASE At(p, "check")   -> j.todo # <<>> /\ ~Boundary(j, effect)
          [] At(p, "act")     -> ~Possible(j, effect)
          [] At(p, "refresh") -> ~Verified(j, effect)
          [] OTHER            -> FALSE

\* Outside the model: sessions, receipts, cancellation, a failed read or write.
Fail(p) ==
    /\ job[p] # None /\ ~At(p, "restore")
    /\ Can("outside") \/ Refused(p)
    /\ Failed(p) /\ UNCHANGED <<git, rec>>

Restore(p) ==
    /\ At(p, "restore")
    /\ git' = Restored(git, job[p].stashed)
    /\ End(p) /\ UNCHANGED rec

\* A stash that does not apply is kept, and its name reported.
Restoring(p) == At(p, "restore") \/ (At(p, "act") /\ Head(job[p].todo) = "restore")
RestoreFails(p) == Can("conflict") /\ Restoring(p) /\ End(p) /\ UNCHANGED <<git, rec>>

\* A rebase stops at a conflict.
RebaseStops(p) ==
    /\ Can("conflict") /\ At(p, "act") /\ Head(job[p].todo) = "rebase" /\ CanRebase(git)
    /\ git' = Stopped(git)
    /\ Failed(p) /\ UNCHANGED rec

\* The stash is made but cannot be identified.
StashUnnamed(p) ==
    /\ Can("conflict") /\ At(p, "act") /\ Head(job[p].todo) = "stash" /\ git.main # {}
    /\ git' = Stashed(git)
    /\ Failed(p) /\ UNCHANGED rec

Crash(p) == Can("crash") /\ job[p] # None /\ End(p) /\ UNCHANGED <<git, rec>>

-------------------------------------------------------------------------------

\* Another command edits the record under the store's lock.
SetNote ==
    /\ rec # None /\ rec.notes < MaxNotes /\ \A p \in Procs : ~HoldsStore(p)
    /\ rec' = [rec EXCEPT !.notes = @ + 1]
    /\ UNCHANGED <<git, job>>

Step(p) ==
    \/ Plan(p) \/ LockRepo(p) \/ LockStore(p) \/ Replan(p)
    \/ Check(p) \/ Act(p) \/ Refresh(p) \/ Write(p) \/ Finish(p)
    \/ Fail(p) \/ Restore(p) \/ RestoreFails(p) \/ RebaseStops(p) \/ StashUnnamed(p)
    \/ Crash(p)

Environment == Others /\ UNCHANGED <<rec, job>>

Next == Environment \/ SetNote \/ \E p \in Procs : Step(p)

Spec == Init /\ [][Next]_vars

-------------------------------------------------------------------------------
(* Properties.                                                              *)

\* Every variable has its type, and a checkout always has its branch.
TypeOK ==
    /\ git \in Repository /\ (git.tree # None => git.local # None)
    /\ rec \in {None} \cup Record
    /\ \A p \in Procs : job[p] # None =>
          /\ job[p].pc \in PC /\ job[p].rec \in Record /\ job[p].seen \in Repository
          /\ \A i \in DOMAIN job[p].todo : job[p].todo[i] \in Effect

\* Whatever the user does meanwhile, no plan loses work: what was written and
\* not discarded on request is in a checkout, a branch or a stash.
NoWorkLost == git.written \ git.dropped \subseteq Reachable(git)

\* A step of p ends its plan by writing the record.
Records(p, state) ==
    /\ job[p] # None /\ job'[p] = None /\ rec' # rec
    /\ rec' # None /\ rec'.state = state

\* A task is recorded DONE only when the work the user approved is in the base
\* branch, the uncommitted changes it committed included.
ApprovedIsMerged == [][\A p \in Procs :
    Records(p, "done") => job[p].work \subseteq git.base]_vars

\* A task is recorded COLD only when the approved work is on a remote-tracking
\* branch, but for what another plan was told to discard: parking compares how
\* many files changed, not their content.
ApprovedIsPublished == [][\A p \in Procs :
    Records(p, "cold") =>
        git.tracking # None /\ job[p].work \ git.dropped \subseteq git.tracking]_vars

\* The check before a cold removal passes only a branch that is all on its
\* remote-tracking branch.
CheckedIsPublished == [][\A p \in Procs :
    /\ At(p, "check") /\ At(p, "act")' /\ job[p].action = "cold" /\ Head(job[p].todo) = "remove"
    => git.tracking # None /\ git.local \subseteq git.tracking]_vars

\* A task branch that dev deletes is contained in the base branch.
DeletedIsMerged == [][
    job' # job /\ git.local # None /\ git'.local = None => git.local \subseteq git.base]_vars

\* A plan that put canonical changes aside does not end before it has tried to
\* bring them back.
StashNotForgotten == [][\A p \in Procs :
    job[p] # None /\ job[p].stashed # {} /\ job'[p] = None => Restoring(p)]_vars

\* Two plans never run their effects at the same time.
OneAtATime == \A p, q \in Procs : HoldsStore(p) /\ HoldsStore(q) => p = q

\* What the code and the guides say of a task whose checkout is gone.  None of
\* the three always holds: git branch -d may refuse after the removal, a crash
\* may come before the record, and a cold task may live on its remote alone.
Idle == rec # None /\ \A p \in Procs : job[p] = None
Planned(action) == \E opts \in Options(action, git) : Ready(action, opts, rec, git)

\* A retirement that stopped after the removal can be planned again, if the
\* branch it kept is merged.
RetireRetries ==
    Idle /\ rec.state = "done" /\ git.tree = None /\ git.local # None /\ Contained(git)
        => Planned("retire")

\* A task whose checkout is missing can be resumed.
MissingResumes ==
    Idle /\ rec.state # "done" /\ git.tree = None /\ git.local # None => Planned("resume")

\* Sweep reaps only a record whose branch no resume could find.
ReapsOnlyDead == [][\A p \in Procs :
    job[p] # None /\ job[p].action = "sweep" /\ rec' # rec
        => ~Ready("resume", {}, rec, git)]_vars
===============================================================================
