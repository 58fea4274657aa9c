# Verification of dev-cli

`dev` is a Go program that manages development checkouts, tasks and machines from
the command line and a terminal interface.  It has no server: every invocation is
a process of its own, several of them run at once (shells, agents, a TUI left
open, commands run over ssh), and they meet in files, in Git repositories and in
advisory locks, while the user and the forge change the same repositories and files
without taking any of those locks.  This directory models that part of the program
in TLA+, model-checks it with TLC on small instances, and proves the properties that
matter most with TLAPS for every instance.

Contents: [inventory](#inventory) · [modules](#modules) · [checks](#checks) ·
[findings](#findings) · [proofs](#proofs) · [what is left out](#abstractions-and-omissions) ·
[plan](#plan)

## Inventory

Paths are relative to `src/internal/` unless they start with `cmd/` or `docs/`.
The complete list with every source file is the `components` list of
`PROJECT.json`; `hazards` names, line by line, what is hard to test.

### Components with shared state

| component | state it keeps | hard behaviour | what makes it correct | module |
|---|---|---|---|---|
| **lease** (`lease`, `lockx`) | one JSON snapshot per machine: last epoch, operation bindings, per-key reservation, fence, tombstones; a lock file per key, one for the snapshot | several locks per call, guarded work that outlives the state lock, retries after lost replies, crash around the rename, an error after the rename | no two claims overlap; guarded work stays admitted; terminal operations stay terminal; every call returns | `LeaseAuthority`, `Lease` |
| **task store** (`task`) | one TOML file per task, one lock file | copies kept for minutes before being written back; comparison and rename are two steps; one-second timestamps inside the revision hash | no edit of a living task is lost; a finished task is started over at most once; a corrupt file is never overwritten | `TaskStore`, `OptimisticStore` |
| **task life cycle** (`taskflow`, `cli/sweep.go`) | none of its own: the record, the repository, the checkout | an approval is old when it is applied; Git commands interleave with the user's; effects before the record; a failure in the middle of an integration | work is never lost; DONE means merged, COLD means published; a stash comes back; two plans never run at once | `Repository`, `TaskFlow` |
| **lock order** (`gitx/lifecycle_lock.go`, every command) | flocks: lifecycle gates, task store, artifact intents, notes, catalog, move leases, histories | nested locks of several components, gates of submodules inside gates of superprojects | no circle of waits; submodules are closed while their superproject is retired | `LifecycleLocks` |
| **retire** (`retire`, `cli/done_cleanup.go`, `retire_caller.go`) | a hand-off file and its lock | panes and agents change between preview, listing and close; the hand-off is started twice | nothing that works is killed; one approval is acted on once | `RetireHandoff` |
| **submodule removal** (`submodule`) | a quarantine with a journal | killed or failing in the middle of a sequence of moves; recovery is killed as well | no child's data is lost; an interrupted removal is settled | `SubmoduleRemoval` |
| **artifact** | one intent file per transcript, compare-and-swap | the transcript's writer may still be alive; the commit and the record are two steps; the checkout may be taken away | committed once, completely, and recorded truly | `Artifact` |
| **experiment** (`experiment`, `catalog`) | directories under the trial root, catalog records, removal journals | a rename the catalog cannot take part in; directories are moved behind dev's back; listings repair | a directory is never lost to its record; only what was reviewed is moved | `Trials` |
| **localfiles** | a journal and copies per request on the target | a duplicate delivery, a failure or death after some files, the operator's edits | all or nothing, and never over the operator's bytes but in the moment between a look and its act | `LocalFiles` |
| **machineregistry** | one SQLite file | plans applied later and twice, a lost answer to COMMIT, another file put in the place | only reviewed changes on the reviewed snapshot; nothing is taken away | `MachineRegistry` |
| **configedit** (`configedit`, `safefile`, `cli/ssh_edit.go`) | configuration files and recovery receipts | a transaction over several files stops in the middle; the user saves at any time | an undo never overwrites an edit | `ConfigEdit` |
| **fleet fragments** (`fleet/managed*.go`) | one generated fragment per ssh alias beside the user's list | other tools replace the same files without the lock | the merged list always loads; dev removes only what it has looked at | `FleetFragments` |
| **dashboard** (`tui`) | views, generations, messages under way | answers in any order, superseded, partial; views computed from other views; a clone waiting for a read | fresh rows are current; spinners end; a clone is not given up early | `Dashboard` |
| catalog, note, journal | one file per entry or note, an index | index and files disagree; imports conflict | compare-and-swap as in the task store | – |
| fleet sync, prflow | remote checkouts, pull requests | the other side moves after the plan | only the reviewed commit is used | – |

### Components without a protocol of their own

| component | role |
|---|---|
| `gitx`, `wt`, `repo` | adapters around the git executable, worktree creation and discovery |
| `runtime`, `forge` | adapters around herdr, tmux, zellij and hosted services |
| `safefile`, `privatefile`, `platformfs`, `pathx` | portable file primitives: atomic replacement, no-clobber creation |
| `ssh*`, `desktop`, `herdrremote` | ssh configuration, credentials, key vault, remote bootstrap |
| `config`, `projectconfig`, `ignore`, `dotfile` | decoding and merging of configuration |
| `agent*`, `skill`, `handoff` … | import, export and installation of agent settings |
| `inventory`, `stats`, `summary`, `triage` … | read-only joins of what the others store |
| `cli`, `flowtui` … | arguments, prompts, rendering; they decide which calls are made |

### How they interact

```
      cli / tui / remote peers
        |            |                 user, editor, forge, agents (no locks)
        v            v                        |
   taskflow ---> task store                   v
    |   |            ^   \             Git repository, checkouts, files
    |   |            |    \                   ^
    |   +--------> lease (WithMutation) ------+
    v                ^
  retire, submodule, artifact, experiment, localfiles, machineregistry, configedit
```

A mutation of a repository runs inside `lease.WithMutation`, which holds the key
locks of the repository and its branch and refuses to run under somebody's claim;
`taskflow` takes Git's life-cycle gates (`gitx.WithLifecycleLock`) and then
the task store's lock; `LifecycleLocks` has the stacks of all commands.  Records,
snapshots and caches are each replaced by writing a temporary file and renaming it;
what dev does outside such a file (a rename, a commit, a removal) is what crashes and
other writers can separate from it, and most of the hazards are about that gap.

## Modules

| module | models | extends |
|---|---|---|
| `LeaseAuthority`, `Lease` | the authority's decisions on one snapshot; processes, locks, file, faults | –; `LeaseAuthority` |
| `MCLease`, `MCLeaseLive`, `LeaseProofs` | instance; the same with a bounded number of calls; theorems | `Lease` |
| `OptimisticStore` | the abstract promise: one-step compare-and-swap per record | – |
| `TaskStore`, `MCTaskStore`, `TaskStoreProofs` | `task/store.go`; instance; theorems | refines `OptimisticStore` |
| `Repository` | the Git repository of one task, its remote, the user and the forge | – |
| `TaskFlow`, `MCTaskFlow`, `TaskFlowProofs` | plans, locks, checks, effects, records, faults of the life cycle; instances; theorems | `Repository` |
| `Artifact` | archive intents on one checkout | – |
| `MachineRegistry` | the registry of machines | – |
| `Trials` | trial directories and their records | – |
| `FleetFragments` | generated fragments of the list of remotes | – |
| `LocalFiles` | one request of local files on its target | – |
| `ConfigEdit` | a transaction over configuration files and its undo | – |
| `LifecycleLocks` | the stacks of file locks of the commands | – |
| `SubmoduleRemoval` | removal and recovery of a worktree with submodules | – |
| `RetireHandoff` | preview, hand-off and closing of terminals | – |
| `SettlingProofs` | theorems about `SubmoduleRemoval` and `RetireHandoff` | `MCSettling` |
| `Dashboard` | requests, generations and answers of the views | – |
| `MCRecords`, `MCDirectories`, `MCHost`, `MCSettling`, `MCDashboard` | instances of the above, several in one run | see [checks](#checks) |
| `RecordsProofs`, `DirectoriesProofs`, `HostProofs`, `DashboardProofs` | theorems about `Artifact` and `MachineRegistry`; `Trials` and `FleetFragments`; `LocalFiles`, `LifecycleLocks` and `ConfigEdit`; `Dashboard` | `MCRecords`, `MCDirectories`, `MCHost`, `MCDashboard` |

### Lease

A *key* is a repository or one of its branches; a *claim* is a reservation or a
fence that a token `(operation, digest, epoch)` holds on a set of keys.  `disk` is the
published snapshot, `keyLock` and `stateLock` the lock files, `pc`, `call`, `snap`,
`answer` where a process is, what it asked for, loaded and will return; `issued` is a
history of the claims callers were told of.

`Start` picks any call with any key set and, for calls that present a token, any
token that was ever issued, however stale.  `AcquireKey` takes the next missing
lock in `Key.canonical` order; `LoadState` takes the state lock and loads;
`Activate` (Reserve and Fence), `End` (ReleaseReservation, AbortReservation,
Return), `Admit`/`Refuse` (WithMutation, WithGuard) and `Inspect` decide and
publish in one step under the state lock; `FinishBody` ends guarded work, which
runs holding the key locks only.  `Cancel` ends a wait, `Crash` ends a process at
any point and the kernel drops its locks.  A write is refused as invalid, fails
before the rename, succeeds, or succeeds and reports an error because the
directory could not be synced.

### Task store

A revision is a hash of everything a record holds, so a record stands for its own
revision.  `edits` is the set of processes that ever edited this generation of
the record: it is what "no update is lost" is about.  Time is in seconds and may
stand still between two writes.  `Read` and `Draft` make a copy without a lock;
`Request` hands it to a method; `Acquire`, `Decide` and `Publish` are the lock, the
comparison and the rename; `BeginTx`, `RequestInTx` and `EndTx` are a transaction.
`ImplementsOptimistic` is the refinement: the file is the abstract file, and what a
process has *seen* is the stored half of its copy.

### Task life cycle

A unit of work (`Patches`) is written once and then moves: uncommitted, committed,
pushed, merged, stashed.  A ref is the set of units it reaches; `rewritten` marks
that a rebase replaced commits the remote still has.  `Repository` gives the Git
commands as functions with the conditions under which Git refuses them, and the
environment: edits, commits, pushes, fetches, a merged review, a deleted remote or
local branch, the end of a stopped rebase, each between any two steps of `dev`.

`TaskFlow` runs one plan per process:

```
Plan -> LockRepo -> LockStore -> Replan -> ( Check -> Act -> Refresh )* -> Check -> Write
```

`Plan` observes, refuses what the planner refuses and keeps what was approved
(`Approved`).  `Replan` observes again under both locks and ends unless nothing
changed (`SamePlan`).  `Check`, `Act` and `Refresh` stand for one effect: what it
relies on (`Boundary`), the Git command (`Possible`, `Results`), and what is verified
and adopted after it (`Verified`, `Adopted`).  `Write` is the compare-and-swap of the
record and comes last.  `Fail` is a refusal, or an outside condition (a session, a
receipt, a cancelled context, a failed read or write); it goes through the deferred
restore of an integration if canonical changes are stashed.  `RebaseStops`,
`StashUnnamed` and `RestoreFails` are the ways an integration goes wrong half-way.

### Artifact

`intent` is the record file, `log` the history of HEAD, `text` and `staged` the
transcript in the tree and the index, `held[p]` the record a process read earlier.
Every write of a record goes through `Current`, the comparison of `updateIntent`.
`Prepare`, the finalizer for both destinations (look, commit, find the receipt, record),
`ObserveSessionEnd`, the discard command and a life-cycle operation that asks
`InspectReadiness` and takes the checkout away run step by step; the agent writes, the
operator commits, rewinds and stages in between.  A commit is the sequence of what was
committed up to it, so that "HEAD as reviewed" and "the receipt is an ancestor" are
what they are in Git.

### MachineRegistry

`db` is the content of the database, `file` the identity of its file (a restored backup
is another file), `proc[p]` the plan a command holds: the snapshot it was made for
and the one it makes.  `Lock` is the look before and under the controller's lock, `Commit`
the comparison inside the transaction with its three outcomes (committed, failed,
committed with the answer lost, after which the same plan may be applied again).

### Trials

A directory is its identity.  `Begin` publishes an intent under the catalog's lock
with the plan that was reviewed, the move is a rename of `fs`, and finalization records it;
`withMoveLease` is a lease that dies with its process.  `Repair` is what a listing does to
an intent nobody holds; `Probe` and `Mark` are the two halves of an enrolment and of a
removal.  `Displace` moves a directory behind dev's back.  `own` is a history variable:
the directory each record was made for.

### LocalFiles

`file` is what each path holds, `journal` the journal on disk, `value` the same in
memory, `saved` the rollback store.  `Deliver` starts a delivery of the one request;
`Apply` goes through recovery or verification, staging, publication and completion file by
file, or rolls back; `Crash` ends it, `Edit` is the operator.  Deliveries exclude each other
because they run inside `lease.WithMutation`.

No lock excludes the operator, so a look at a file and the act it is for are steps of
their own, with the operator between them.  `look` says what the delivery holds of the file
it works on, `moved` whether the operator has saved it since.  `Create` publishes without replacing,
which refuses an existing name, and `Withdraw` takes back by name what it could not finish;
`CheckTarget` compares and `Replace` renames.  A rollback observes (`LookBack`), then removes
by name or reads the state to replace anew (`Capture`) and replaces it (`UndoFile`).

### ConfigEdit

Three changes in a fixed order (create the fragment, switch the root file, remove the
source), each guarded by the state it was planned from.  A file is its text and the write
it comes from, which stands for inode, times and metadata.  `Begin` writes the receipt,
`Publish` compares and replaces, `Observe` looks again, `Finish` or `Stop` save the
receipt; a restore plans from a receipt and is a transaction of its own in reverse order.

### FleetFragments

A writer stages a file, exchanges it atomically with the fragment, looks at what it
displaced and exchanges back if that is not what it had looked at; then it validates the
merged list and takes its publication back by the same means.  `Replace`, `EditInPlace`,
`Delete` and `EditPrimary` are the user and other tools, at any step.

### LifecycleLocks

A command is the sequence of lock stacks it works under (`GitCommand`,
`LifecycleCommand`, `RetireCommand`, …, each translated from the function that nests the
locks).  A process takes the locks of a stack one by one, works, gives back those the next
stack does not start with, fails, or is killed.  A lock it already holds makes it wait for
itself, as a second descriptor on a flock does.

### SubmoduleRemoval

Items are the common Git storage (0) and the children; `at` says where each is and
whether it is whole, `journal` what the quarantine records.  `Removal` is `Apply` step by
step: record a move, make it, remove the worktree, dispose of the quarantine; `Return` is
its rollback; `Recovery` is `Recover`.  Any step may fail, a process may be killed
anywhere, and a file may be put where a child was.

### RetireHandoff

`pane` is what runs in every pane, `ended` whether a workspace is open, closing or gone.
The operator's command shows a preview and publishes a hand-off (`intent`, `lease`);
coordinators take it, wait until the command has left its pane, and close one workspace
after a new listing each, until none covers the checkout; then the worktree goes.  `late` is
a history variable: the panes that changed after the listing a process went by, about
which nothing can be promised.

### Dashboard

One action is one call of `Model.Update`.  `loads[v]` is `viewLoadState` (generation,
loading, fresh), `flight` the messages and readers under way, `clone` the clone in
progress.  The operators on `loads` are the methods it calls.  `epoch` and `must` are
history variables: which request the effect of which has to be on the screen.

## Checks

`PROJECT.json` lists every run with its properties, and for each property a mutant:
a plausible bug in one definition that the run then finds.  The operators marked
"Seeded fault" in the modules are those bugs; no specification uses them.

| run | instance | states | shows |
|---|---|---|---|
| `lease` | 2 repositories, 1 branch, 4 key sets, 2 processes, 2 operations, 2 epochs, 3 calls or cancellations | 152,228 | `GuardStaysAdmitted`, `HierarchyExclusion`, `HistoryKept`; under fairness `EveryCallReturns` |
| `store` | 2 processes, 1 id, 2 states, 2 seconds, the methods callers use | 1,699,116 | `NoUpdateLost`, `AdmittedStaysTrue`, `ImplementsOptimistic` |
| `flow_all` | 1 process, 2 units of work, all actions, all habits, conflicts and outside failures | 529,925 | `NoWorkLost`, `ApprovedIsMerged`, `DeletedIsMerged`, `StashNotForgotten` |
| `flow_two` | 2 processes, 1 unit, crashes, edits of the record (merged reviews and outside failures are left to `flow_all`) | 2,008,660 | `OneAtATime`, `ApprovedIsPublished` |
| `records` | `Artifact`: one intent to commit, one to archive, or both while the checkout is taken away; 2 processes, 2 versions, 3 commits. `MachineRegistry`: 2 machines, 1 provider record, 1 alias, 2 origins, 4 revisions, 2 files | 857,919 | `CommittedOnce`, `RecordedHolds`, `MovedWithNothingOpen`, `NothingUndone`; `ReviewedCommit`, `NeverTaken` |
| `directories` | `Trials`: 2 records, 2 names, a removal, 1 crash; or 1 record, graduation and demotion, 2 displaced directories, 2 crashes. `FleetFragments`: 2 commands, 2 aliases, 2 changes by the user | 1,226,321 | `AlwaysTracked`, `LiveIntentKept`, `ReviewedOnly`; `AlwaysLoads`, `OnlyLooked` |
| `host` | `LocalFiles`: 2 files, 3 deliveries, 2 edits. `ConfigEdit`: 3 transactions, 2 saves. `LifecycleLocks`: 3 commands on a superproject, its submodule and an archive repository | 865,818 | `OldKept`, `UserKept`, `NeverTwice`; `Undone`, `EditsKept`; `NoCircularWait`, `SubmodulesClosed` |
| `settling` | `SubmoduleRemoval`: 3 children, one inside another, 2 runs, 2 faults, 2 kills, 1 file put. `RetireHandoff`: 3 panes, 2 workspaces, 2 coordinators, 1 change. `Trials`: 1 record, 1 crash | 203,972 | `Accounted`, `QuarantineKept`, `Settles`; `NoWorkKilled`; `MovesSettle` |
| `dashboard` | 2 requests over TRIES, REPOS, REMOTE, SKILLS, MCP and a clone; a second instance without MCP but with triage, checks and cancelled clones | 969,720 | `ShownIsCurrent`, `DependentsAgree`, `SpinnersStop`, `CloneNotAbandoned` |
| `flow_gone`, `submodule_overlap`, `config_restore` | the smallest instance that shows it | < 1,000 | the [findings](#findings) |

**Several components in one run.**  The components of `records`, `directories`, `host`
and `settling` share no state.  Their MC modules instantiate each with its own variables
and constants, and a variable `part`, chosen once, says which of them moves while the
others stay in an initial state.  The states of the run are the states of the
instances one after the other, not their product; a property of an instance speaks
of the behaviours in which it moves (`part = … => …`, or it holds trivially of an initial
state).

**Why the bounds are enough.** Two processes show every pairwise race; where a theorem
exists it excludes what more processes could add.  *Lease*: two epochs allow reserve,
promote and end; the last epoch is reached, so that the third call is refused at the
counter's limit.  The calls of a behaviour name one repository and one other key set: a
branch under it, both repositories, or the other repository.  Calls on the two
repositories alone have no key lock in common and meet only at the state file, which is
what `HistoryKept` is about; siblings differ from unrelated keys in nothing the code
looks at but the shared parent.  Processes and operations are interchangeable, so which
of them comes first is fixed (`First`); a cancellation counts as a call, because for the
locks and the file it is what a crash while waiting is.  *Store*: no method touches two
ids; two seconds let two writes fall into the same second or not.  *Life cycle*: two
units of work give work that was approved and work that came later; every property
compares at most these two.  *Artifact*: two versions of the transcript distinguish
complete from incomplete, three commits allow a commit before and one after.  *Trials*:
two names let a place be taken by another directory; two crashes let a repair be
interrupted as well.  *Registry*: two machines are enough for a circle of redirects.
*LocalFiles*: two files have a first and a last one, three deliveries are a failed one,
its retry and a duplicate.  *ConfigEdit*: three transactions are an organizer, its
restore and a restore of the restore.  *Locks*: three commands are enough for a circle
over three repositories.  *Submodules*: three children, one inside another, have both a
sibling and a nesting.  *Terminals*: the command's workspace has a second pane, and
there is a workspace it is not in.  *Dashboard*: two requests supersede one another and
meet the start's own reads.  Bounds named in the modules: `MaxEpoch` (the code's own
limit, `math.MaxUint64`), `MaxTime`, `MaxNotes`, `MaxCalls`, `MaxText`, `MaxLog`,
`MaxRevision`, `MaxFiles`, `MaxDirs`, `MaxTouches`, `MaxCrashes`, `MaxDeliveries`,
`MaxEdits`, `MaxSaves`, `MaxRuns`, `MaxFaults`, `MaxPuts`, `MaxChanges`, `MaxRequests`;
they cut behaviours short and add none.

**Deadlock** is checked in `store`.  Everywhere else the system really stops: callers
stop after `MaxCalls`, all work is written, transactions and commands are over, files are
no longer edited, messages are delivered.

**Symmetry** is used over processes, names and machines in safety runs only.

**Fairness.**  `lease`: a process waiting for a lock polls every 10 ms (`lockx`), so a
scheduled process takes its step if it is continuously enabled: weak fairness of each
process's own steps, none for starting calls, cancelling or crashing.  Nothing in the
code makes a poller win against others that lock again and again, so without a bound on
the calls a process can starve; `MaxCalls` makes callers stop, and then every call
returns although a process may crash while holding locks.  `settling`: a process that is
not killed goes on (weak fairness of `Removal`, `Return` and `Recovery`, and of each
process that moves a trial); the operator clears a path that is in use and runs recovery
again, and trials are listed again, which are the repairs the program offers.  Faults,
kills, saves, changes of panes and new removals get no fairness.  The life cycle has no
liveness property: it has no retries.

**Stated but in no run.**  The modules state more than the runs check.  Of these the
following hold on comparable instances: `AnswerTrue`, `EpochNamesClaim`, `AllOrNothing`,
`FencedOnce`, `NoLockCycle` (`Lease`, all proved); `RunOwnsOne` (`Artifact`, proved);
`RemovedReleased`, `Once` (`RetireHandoff`, proved); `Referenced`,
`SwitchedCurrent`, `Traceable` (`ConfigEdit`); `CloneWatched`, `CloneReadAgain`,
`CloneEnds`, `Settles` (`Dashboard`); `Tidy`, `Reverted`
(`FleetFragments`); `Ends` (`RetireHandoff`); `Finishes`
(`LifecycleLocks`).  Put into a `.cfg` they are checked like the others; the liveness ones
need the fairness the module states beside them.  Type invariants are proved
where there are proofs.

## Findings

Disagreements between what the code does and what a comment or guide says; each is the
counterexample of a run.

* **`flow_gone`** – `ensureColdGitReady` (`taskflow/lifecycle_apply.go:739`) wants a
  configured upstream and `Ahead = 0`.  When the published branch was deleted at the
  remote and pruned, Git still prints the upstream but no `branch.ab` line, `Ahead`
  stays 0, and the checkout of a branch that no remote has is removed.  The
  guide says COLD requires recoverable commits on the remote
  (`docs/guides/change-stream-workflow.md:102`).  The local branch survives, so no
  work is lost (`NoWorkLost` holds).
* **`submodule_overlap`** – `Recover` reads and checks the journal before it waits for the
  repository's lock and does not read it again (`submodule/recover.go:91`).  Started while
  a removal moves children, it puts back, once that removal is killed, only the moves it
  had read, and deletes the quarantine with the children moved since.  Its comment says
  that a previous remote proof never authorizes deletion of the quarantined data during
  recovery (`submodule/recover.go:17`).  Without the overlap (`Overlaps = FALSE`, run
  `settling`) `QuarantineKept` holds.
* **`config_restore`** – `RestorePlan` compares every file with the state its receipt
  recorded and then captures the files again without comparing them
  (`configedit/edit.go:500`): a save in between becomes the state the restore was planned
  from and is overwritten.  The guide says `restore` rejects subsequent user edits
  (`docs/guides/ssh-hosts.md:522`).  With the two readings in one step
  (`ReadsApart = FALSE`, run `host`) `EditsKept` holds.

**Further disagreements.**  The modules state these promises too; TLC finds each of them
broken on the instance given, and none of them is part of a run.

| property | instance | what happens |
|---|---|---|
| `TaskFlow!RetireRetries` | `ff`, `retire`; edit, commit, push | a retirement removes the worktree and then runs `git branch -d`, which refuses a merged branch that is ahead of its upstream; the advice is to "inspect the local branch and retry" (`taskflow/retire.go:740`), but the next plan needs the checkout to be registered (`:250`) |
| `TaskFlow!MissingResumes` | `cold`; edit, commit, push; crash | a crash between the removal of a cold task's checkout and its record leaves HOT with a missing checkout, which resume refuses (`taskflow/resume.go:112`); the guide says to prune, "then resume" (`docs/guides/change-stream-workflow.md:210`) |
| `TaskFlow!ReapsOnlyDead` | `cold`, `sweep`; edit, commit, push, delete local | sweep offers to delete the record of "work that no longer exists anywhere" (`cli/sweep.go:320`) although resume would find the remote-tracking branch |
| `Artifact!DiscardedHasNoCommit` | one intent, `prepare`, `finalize`, `discard` | `git commit` succeeds and reading HEAD fails: the failed intent can be discarded, "nothing was committed" (`artifact/intent.go:20`, `artifact/service.go:738`) |
| `Trials!OneRecord` | graduation and listing | a listing that looked before a graduation enrols the place the directory has left (`experiment/inventory.go:50`) |
| `SubmoduleRemoval!BroughtBack` | 1 kill, `Overlaps = FALSE` | a removal killed while it disposes of the quarantine is "recovered" with half deleted children: `outer_removed` is never read (`submodule/recover.go:154`) |
| `RetireHandoff!PreviewedOnly` | 2 changes | `CloseAndWait` goes by a newer listing of its own: a pane opened since the preview is closed (`retire/safety.go:304`; `docs/guides/agent-safe-retirement.md:355`) |
| `LocalFiles!RestoresWhatItHashed` | 1 file, 1 delivery, 1 edit | a rollback compares the hash of the file (`localfiles/apply.go:338`, `:375`) and then reads the state it hands to `AtomicReplace` anew (`:387`), compared with nothing: a save in between is overwritten with the old bytes; callers must "obtain observed from a fresh stable read/hash" (`safefile/write.go:129`) |
| `LifecycleLocks!SubmodulesClosed` | with `triage` among the commands | the cleanup of `dev triage` takes `<common>/dev-taskflow` alone instead of calling `WithLifecycleLock` (`taskflow/sync.go:352`; `gitx/lifecycle_lock.go:12`) |
| `LifecycleLocks!TaskStoreLast` | `retire` | the removal of a checkout with submodules takes their gates under the task store (`submodule/removal.go:582`; "the task-store lock comes later", `gitx/lifecycle_lock.go:14`); together with the previous one two commands wait for each other |
| `Dashboard!NoEndlessWait` | `Rare = {"triage"}` | what a triage brings back ends the REPOS read and leaves SKILLS and MCP waiting (`tui/triage.go:122`); it breaks `DependentsFollow` and `FreshIsCurrent` too |
| `Dashboard!NoEndlessWait` | `Rare = {"cancel"}` | cancelling a clone whose refresh a stream has taken over stops the stream; the other views it was reading keep loading (`tui/model.go:3133`) |
| `Dashboard!DependentsFollow` | `Rare = {"check"}` | a check of the skills' sources presents rows of older repositories as fresh (`tui/model.go:1126`); with 3 requests it breaks `FreshIsCurrent` too |
| `Dashboard!FreshIsCurrent` | `Rare = {"recheck"}` | a re-check of a REMOTE issue reads the cache under the current generation and overwrites newer live rows (`tui/issues.go:489`) |
| `Dashboard!CloneWaits` | `Dependents = {}`, 3 requests: `StartClone`, `ActionDone`, `TryDone` | a stream that has taken over a clone's refresh ends while another command's read of REPOS is under way: the clone is given up although that read would finish it (`tui/model.go:2256`) |

## Proofs

All theorems are checked by `tlapm` with no unproved leaf, for every value of the
constants that satisfies the named assumptions.

**`LeaseProofs`** — `TypeCorrect`, `HierarchySafety`, `GuardSafety`, `GuardExclusion`,
`NeverRefused`, `HistoryIsKept`, `TerminalIsFinal`, `OwnersEnd`, `WholeClaims`, `EpochsName`,
`OneFence`, `AnswersTrue`, `NoCycleOfWaits`.
Assumptions: `NoneAssumption` (None is no key, token, claim…), `MaxEpochAssumption`,
`ProcsAssumption`, `KeySetsAssumption` (callers ask for non-empty sets of keys),
`RankAssumption` (the lock order is total).  The inductive invariant is
`TypeInv /\ LockInv /\ SoundSnapshot(disk) /\ GuardInv`:

* `LockInv` ties locks to program counters: who decides holds the state lock and all
  its key locks, and what it loaded is still what is on disk;
* `SoundSnapshot` is what every published snapshot satisfies: it passes
  `validateSnapshot`, and claims of related keys have one token.  The second half is
  not implied by validation, which is why it has to be carried;
* `GuardInv` says that guarded work holds its key locks and is still admitted.

The heart is that `Activated` and `Finished` preserve `SoundSnapshot`
(one lemma per operation and conjunct), and that a writer whose keys overlap a
guard's must hold a lock the guard holds, because `MutationKeys` adds the repository.
The three action properties follow from the invariant and the same lemmas.

What callers were told is a second invariant, `KnownInv`, about the claims somebody was told
of or is about to be (`Known`).  Such a claim is `Standing`: held on all of its keys or on
none, a fence that is gone has a tombstone, and whatever active claim has its epoch is this
claim.  A first call tells of an epoch beyond all of these; a replay tells of a claim the
file shows, which `Standing` identifies with the one told before, although nobody may have
learnt of it then (the reply was lost).  `WholeClaims`, `EpochsName` and `OneFence` follow;
`AnswersTrue` adds that a writer at other keys changes nothing the answer is about.
`NoCycleOfWaits` assumes that ranks are bounded (finitely many keys): locks are taken
upwards (`Climbing`), so the holder of the highest lock waited for does not wait.

**`TaskStoreProofs`** — `TypeCorrect`, `AdmittedTheorem`, `NoUpdateLostTheorem`,
`CorruptKeptTheorem`, `ImplementsTheorem`.  Assumptions: `StatesAssumption`,
`MaxTimeAssumption`, `OperationsAssumption`, `StoreNoneAssumption`; the last three
theorems exclude `Tx.Save`, which overwrites unconditionally, and the refinement also
excludes the unconditional `Delete`: neither has a caller in production code, and with
them the properties are false.  `TypeInv /\ LockInv /\ CallInv /\ AdmittedInv` is
inductive; `NoUpdateLost` needs in addition `EditsInv`: a copy and a call know all
edits of the revision they were read from, so that a comparison that matches carries
that over to the file it replaces.  `ImplementsTheorem` maps each step: `Publish` to
`Make`, `Replace` or a stutter, reads to `Look`, drafts and crashes to `Look`, `Forget` or
a stutter.

**`TaskFlowProofs`** — `OneAtATimeTheorem`, `TypeCorrect`, `NoWorkLostTheorem`,
`ApprovedIsMergedTheorem`, `DeletedIsMergedTheorem`, `ApprovedIsPublishedTheorem`,
`StashNotForgottenTheorem`.
Assumptions: `RefAssumption` (a missing ref is no set of work), `MaxNotesAssumption`,
`ActionsAssumption`, `JobAssumption` (no job is not a job); any amount of work, any number of processes, any subset of the
actions, habits and faults.  `LockInv` alone is inductive: it ties both locks to program
counters, and shows for each step that it takes a lock only when it is free.  The other
theorems need `FlowInv`, which adds

* `Sound(git)`: a checkout has its branch, a stopped rebase its checkout, and every
  unit of work that nobody discarded is in some ref, checkout or stash;
* for each job, `TodoOK` (what can be left of which plan), `TreeOK` (what works on the
  checkout has it between its check and its act), `RetireOK` (from the check of the
  removal to the deletion, the branch to be deleted is in the base) and `CompleteOK`
  (the approved work is in the branch, or in the checkout with its commit next, and
  once the check before the record has passed, in the base).

None of the properties is inductive by itself: a check and the act it guards are two
steps with the user's and the forge's in between.  Lemmas of the repository show of each
Git command and of each step of the environment that it keeps `Sound`, and that the
environment `Continues` what jobs rely on: it removes no checkout, never shrinks
the base, and while a checkout exists keeps what branch and checkout hold together.
Steps of other processes are excluded by the locks: only the holder of the task store's
lock touches the repository (`LockedGit`), and jobs that have not begun rely on nothing
(`IdleJob`).

`ApprovedIsPublishedTheorem` holds if nobody deletes the branch at the remote (run
`flow_gone` shows why).  Then the remote-tracking ref is the remote branch (`RemoteOK`),
what is published is never withdrawn (`Grows`), and what a plan is about stays in the
checkout, the branch, the remote-tracking ref or among what was discarded (`Held`), until
a retirement deletes the branch, which it does only to a task that is DONE and stays so
(`DoneStays`).  The check before the removal sees a clean checkout whose branch is
published, so that all of it is on the remote from there on (`ParkCheck`, `Safe`).  The
proof found the property too strong: parking compares how many files changed and not
their content (`git.changed` at `taskflow/lifecycle_observe.go:506`; only completion and
retirement compare fingerprints), so a plan to park is accepted after another plan has
discarded the changes it was approved for and the user has made as many others.  One unit
of work was too few for the run to show this; `ApprovedIsPublished` now leaves out what was
discarded on request.  `StashNotForgottenTheorem` holds without crashes, and rests on the
order of the plans: a stash is followed by its restoring, with nothing in between that
ends a plan (`StashOrder`, `Pending`).

**`RecordsProofs`**, archive intents — `ArtifactTypeOK`, `TranscriptsCommittedOnce`,
`FinalizedIsThere`, `NothingOpenWhenMoved`, `OneIntentOfRun`, `NothingIsUndone`, for any
number of processes, intents, runs, versions, commits and crashes (`NoneAssumption`,
`TextAssumption`).  A finalizer reads the record, the index and the history in different
steps and acts on what it remembers; the invariant says what each place in a command may
still rely on: which locks it has (`Locking`), what its copy of the record says of the one
on disk (`Holding`), which looks are still true (`Proving`), and of every record that the
head it was armed at lies before its commit (`Armed`).  From `Armed` follows that an intent
has at most one commit: a second process finds the first one's commit behind the head it
remembers.  Each step is known by its effect on one intent, on the history and on the
checkout, one lemma per action, and the six properties follow from these effects.

**`RecordsProofs`**, the registry — `RegistryTypeOK`, `AlwaysReadable`, `CommitsReviewed`,
`NothingTaken`, for any sets of machines, records, aliases and commands
(`RegistryAssumption`).  In `RegistryInv` every plan a command holds is sound: what it would
write is readable if what it was planned from is, and takes nothing away from it.  A
commit writes only when the database is what the plan was made from, wherever it came
from, so soundness of plans is all that is needed of them; restored backups are readable
because they were taken of a readable database.

**`DirectoriesProofs`**, trials — `LiveIntentKeptTheorem`, `ReviewedOnlyTheorem`,
`AlwaysTrackedTheorem`, for any number of processes, trials, names and crashes
(`TrialsAssumption`, `NoneAssumption`).  The first two hold of all operations and whatever
directories are exchanged: the process that moves or removes has its record and the intent
in it to itself (`Leased`), and a record becomes a project's only through an intent that
names the directory that was reviewed (`Shaped`).  `AlwaysTracked` has the hypothesis
`AtHome`: no graduation or demotion, and no restore to a chosen place (`--to`).
With a graduation it is false, which is the disagreement `Trials!OneRecord` below: a listing
that looked before enrols the place that was left.  The invariant under `AtHome` gives
every trial a region of its own (`Region`: its visible place and its names in the archive),
in which its directory is, or in the trash under its journal (`Located`); says in which of
them a process at work will find it (`Placed`); and that whoever lists saw directories that
are still there or have a record (`Seen`).  A step touches one record and its region
(`Touches`), so everything said of the others stays (`OthersGood`).

**`DirectoriesProofs`**, fragments — `AlwaysLoadsTheorem`, `OnlyLookedTheorem`, for any
number of commands, aliases and host names (`FleetAssumption`).  What lies under the private
name of a command is known from its position (`Bare`, `Kept`); for `AlwaysLoads`, which
is about the time while the user changes nothing, also what is in the list and that the new
host still fits in (`Undisturbed`).

**`HostProofs`**, local files — `TypeCorrect`, `Accounted`, `OldBytesKept`,
`OperatorKept`, `DuplicateHarmless`, for any number of files, deliveries and edits
(`BoundsAssumption`, `NoneAssumption`).  `Inv` relates the journal in memory to the one
on disk at every position of a delivery: which phase is durable, which files it may have
written (`ours`), and which of their old bytes are in the rollback store.  The journal
is written before a file is touched and the store is filled before the journal says so;
the invariant is that order.  What a delivery has seen of a file is there until the
operator saves it (`Seen`), and files are published in the order of their paths, so that
the one being published is not among those a rollback takes for published (`Ahead`).
With these `UserKept` says that a delivery overwrites only what its plan saw and takes
back only what its request wrote, but for a file the operator saves after the last look
at that very file and before the act the look was for.  `NeverTwice` needs that after an
answer the journal on disk says completed, in which case a delivery only verifies.

**`HostProofs`**, locks — `NoCircularWaitTheorem`, `SubmodulesClosedTheorem`, for any
number of processes on repositories nested in any way (`LocksAssumption`: a submodule's
directory lies in its superproject's, submodules are visited with the paths sorted, archives
are bound only to repositories there are).  What a process holds is the beginning of a stack
of its command (`Working`) and nobody else holds it (`Apart`); a gate of a stack comes
behind the gates around it (`Nested`).  For `SubmodulesClosed` that is enough: the
submodule's transaction has the superproject's gate, and so has the removal.  For
`NoCircularWait` the locks are ranked, and all stacks climb but for one: a removal asks for
its submodules' gates above the task store (`Descends`).  Those gates lie below one it
has, so whoever held one of them would have that gate too; hence nobody does, and whoever
waits, waits for somebody who asks for something of a higher level.  A circle would have a
highest level.  Hypotheses: no cleanup of a triage runs (`NoTriage`), which takes a
submodule's gate alone and breaks the argument as well as the property; and for the circle
also `ArchivesApart`, that no repository which is an archive lies in one outermost
superproject with a repository that has one, since two repositories may be bound to each
other as archives and would wait for each other.

**`HostProofs`**, configuration files — `EditsKeptTheorem`, `UndoneTheorem`, for any number
of transactions and saves and restores of restores (`ConfigAssumption`), with the two
readings of a restore plan in one step (`ReadsApart = FALSE` in `MCHost`; otherwise
`EditsKept` is false, see `config_restore`).  A transaction plans every file once, and what
it has published is there while it holds the leases, except where the user has saved since
(`Transaction`); a receipt that knows anything is not written again (`Receipted`); so what a
restore plans, it plans from a receipt that stays as it is (`Restoring`, `Looking`).  The
attempt at a stronger `Undone` ("after a restore all former texts are there") failed
for a reason: a file that has its former text already is skipped by the plan and not guarded,
so a further restore may change it before the first one is done.  With four commands a
restore of a restore reports that it was applied and leaves a root file that includes a
fragment another restore has removed.  `Undone` therefore says what the plan covers when it
is made, and that all of the plan is there at the end or was saved over by the user.

**`SettlingProofs`**, submodules — `TypeCorrect`, `QuarantineAccounted`, `OnlyRemovalDeletes`,
for any number of submodules nested in any way, any number of removals, failing steps,
kills and files put in the way (`BoundsAssumption`, `NoneAssumption`), provided that no
recovery starts while a removal runs (`~Overlaps`; otherwise the last is false, see
`submodule_overlap`).  `Inv` says that moves are made in one order and taken back in the
other (`Ordered`: what is in quarantine lies on one side of the current item), that the
holder's record and the journal agree from the first move to the receipt (`Synced`), and
that a recovery acts on the journal that is there (`Current`, the only part that needs
the proviso).  A rollback or recovery that has passed the last item therefore finds
nothing staged, so deleting the quarantine deletes no child.

**`SettlingProofs`**, retirement — `OnlyApprovedIsClosed`, `OneActs`, `RemovedUnderNone`, for
any panes, workspaces, processes and changes of panes (`TerminalsAssumption`).  No process
acts before the command has left its pane (`InFront`, `AfterCommand`: a process waits for
the shell in a pane that shows the command until then), so from there on the preview is
fixed and the command touches no pane.  The hand-off is published once and whoever takes
it takes the file away (`OneApproval`), so at most one process acts; the lock plays no part
in this, it is free between two of them.  Since no other process lists anew, a listing
a close rests on shows what is there except where a pane has changed since (`Listed`).

**`DashboardProofs`** — `AnswersInOrder`, `CloneKept`, `CancelHolds`, `ShownCurrent`,
`DependentsCurrent`, `SpinnersTurn`, for any number of requests and commands and whichever of
the optional views there are (`DashboardAssumption`: the stream reads TRIES).  Each
step is reduced to its effect on messages and views (`Does`): which messages it
answers and which are new (`Comes`), and that a view either gets a new generation or is
closed by the one answer it waited for (`Shifts`).  The rest is argued from these effects
alone.  `Messages`: no answer is ahead of its view and at most one is awaited; `StreamsInv`:
what a stream has brought is no longer awaited, and the current one is cut off only by
cancelling a clone, from which `CloneKept` follows.  `CancelHolds` is about a late success of a
cancelled clone: the cancellation is forgotten, but so is opening the checkout (`Cancelled`).
For the other three `Since` says that an awaited answer is of the last request, `Follows` that
an awaited answer of SKILLS or MCP is of the REPOS rows shown, `Alive` that a stream that
is awaited goes on.  Their hypotheses say what does not happen:

| | without | why |
|---|---|---|
| `ShownCurrent` | `triage`, `check`, `recheck` | each breaks `FreshIsCurrent` (see further disagreements) |
| `DependentsCurrent` | `triage`, `check` | each breaks `DependentsFollow` |
| `SpinnersTurn` | `triage`, `cancel`, `check` | the first two break `NoEndlessWait`; after a check and a hand-off two answers of SKILLS can be awaited at once, which `Messages` excludes, and the property is only model-checked |

Proving them found two errors of the model that two requests were too few to show: a
hand-off that falls back to cached REMOTE rows cannot promise those of the last request
(`Handoff` gives the promise up), and a clone can be given up for another reason than
was stated (`CloneNotAbandoned` names it; the statement it had is `CloneWaits`).

**Least elements.**  Induction over data is out of reach, since its theorems take an operator
as a parameter, but most of it is needed only to find a least element of a set of numbers
(the longest prefix, the highest level of a circle, the enumeration of a set of
positions), and `Least` in `HostProofs` gives that from the well-foundedness of the numbers.

**Model-checked only.**  Liveness (`EveryCallReturns`, `Settles`, `MovesSettle`), which is
out of the prover's reach.  Every safety property of the passing runs is a theorem.

## Abstractions and omissions

**Lease.**  Loading validates what writing validated, so only the write's validation
appears.  Error classes are one refusal.  Claims never time out, as in the code.  The
Windows directory mutex and the relocation lease are not modelled.

**Task store.**  Listing, fuzzy resolution and sorting only read and are left out.
Field validation is one set of possible records.

**Task life cycle.**  One observation is one step, although the code runs several Git
commands to make it.  Sessions, panes, receipts and submodules are conditions that may
fail a check at any time (`"outside"`).  Worktree mode only; the canonical checkout is
always on the base branch; pushing the base after a merge only warns and is left out.  The
commit a plan makes takes all uncommitted changes; what a plan discards on request counts
as discarded even if it was written after the approval, because Git has no
compare-and-discard.  A commit made between the fast-forward check and the merge is merged
without having been approved; the record then refuses, but the base has moved: the
properties speak of what was approved.  A forge merges by fast-forward; squash merges are
not modelled.

**Artifact.**  Nobody takes anything back in the window between the finalizer's last look
at the index and `git commit` (no lock of dev excludes the operator there).  A merge or
rebase in progress, another branch, and broken reads are refusals that may happen
anywhere.  Co-commits are left out.

**Trials.**  Records are compared without their timestamps.  Origins and remotes, tags,
notes, deprecation, linked worktrees, records of other hosts and permanent removal are left
out.

**MachineRegistry.**  Labels, profiles, size limits, permissions and the schema's
migration are left out; the looks before and under the lock are one step.
`validateSnapshot` is not a guard: that no plan needs it is a theorem (`AlwaysReadable`).

**LocalFiles.**  A look at all files (before publishing, at the end, and when a completed
request is verified) is one step: no file is written on its word alone.  Reading the source checkout, planning
and the wire formats are left out.

**ConfigEdit.**  The last comparison and the rename are one step; editors that save
between them are outside what `safefile` promises.  A failing save of the partial receipt
is not modelled.  The organizer of `~/.ssh` stands for the callers.

**FleetFragments.**  Each process has one private name.  Validations right behind each
other are one.  A command's own file edited in place before it is read back is excepted from
`OnlyLooked`: its header forbids such edits.  Permissions, symbolic links, the swap of the
whole directory and the Windows writer are left out.

**LifecycleLocks.**  Work under a stack is one step.  Histories are archived into a third
repository: two repositories bound to each other as archives would wait for each other,
which nothing forbids and no text promises against.  The cleanup of `dev triage` is left
out of the passing run (see further disagreements).

**SubmoduleRemoval.**  The remote proof, the claims and directory identities before the
first move are left out; what raw Git does to a child meanwhile is outside the
program's promise.  Adding submodules and empty workspaces are not modelled.

**RetireHandoff.**  Equal observations one after the other are one.  Acknowledged unknown
states, backends without listings, workspaces of other checkouts and `retire.Service`,
which nothing calls, are left out.

**Dashboard.**  FLEET, SSH, metrics, pull requests, sizes, notes, tools, progress of REPOS
by phases and all drawing are left out.  TASKS is read like TRIES and not in the
instances; only results of REPOS are partial.  The cache holds the rows of the last
accepted live read.  The second instance checks only that clones are not given up early,
since triage and checks break the other three (see further disagreements).

**Not modelled.**  The components marked "not_modelled" in `PROJECT.json`, with the
reason there: adapters and formats that have no protocol between actors, rendering, and
those named in the plan.  Most of the repository's lines are of this kind.

## Plan

Done: lease, task store, life cycle in worktree mode, lock order, retirement of
terminals, submodule removal, artifact intents, trials, local files, the registry of
machines, configuration transactions, fleet fragments, the dashboard; proofs of
their safety properties.  Open, most important first:

1. *Start and the rest of taskflow*: the start command creates a worktree before its
   record; adopt, remove, sync, remote execution, direct and branch modes.
2. *prflow*: checkout, merge and base sync against a pull request that moves.
3. *catalog and note* as further refinements of `OptimisticStore`.
4. *fleet sync* and the snapshot cache.
