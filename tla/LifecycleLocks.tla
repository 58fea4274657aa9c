--------------------------- MODULE LifecycleLocks ---------------------------
(***************************************************************************)
(* The order in which commands take the advisory file locks.  Every        *)
(* mutation of dev runs under one or several of them: the lifecycle gate   *)
(* of a repository (<common dir>/dev-taskflow), the task store, the        *)
(* artifact intents, the notes, the catalog, the lease on a trial that is  *)
(* moved, the local history of a repository.  The locks are flocks: each   *)
(* descriptor is an owner of its own, so a command that asks for a lock it *)
(* already holds waits for itself, and nothing but a cancelled context     *)
(* ends a wait.                                                            *)
(*                                                                         *)
(* A command is the sequence of the lock stacks it works under.  It takes  *)
(* the locks of a stack one by one, works, and gives back the ones the     *)
(* next stack does not start with.  The work itself is one step.           *)
(***************************************************************************)
EXTENDS Naturals, Sequences, SequencesExt

CONSTANTS Processes,      \* running commands
          Repositories,   \* Git common directories
          Containing,     \* the repositories around each one, outermost first
          Initialized,    \* the checked-out submodules of each one, by their common directory
          ArchiveOf,      \* the history archive bound to some repositories
          Commands        \* the commands that may be started, <<operator name, repository>>

Depth(r) == Len(Containing[r])

(* An absorbed submodule's common directory lies in its superproject's, and *)
(* a path sorts behind the paths it continues.                              *)
ContainingAssumption ==
    /\ IsFiniteSet(Repositories)
    /\ Containing \in [Repositories -> Seq(Repositories)]
    /\ \A r \in Repositories : \A i \in 1..Depth(r) :
          Containing[Containing[r][i]] = SubSeq(Containing[r], 1, i - 1)

Inside(x, r) == r \in ToSet(Containing[x])

(* The submodules whose gates a removal takes, each once, paths sorted.    *)
InitializedAssumption ==
    /\ Initialized \in [Repositories -> Seq(Repositories)]
    /\ \A r \in Repositories :
          /\ \A x \in ToSet(Initialized[r]) : Inside(x, r)
          /\ \A i, j \in 1..Len(Initialized[r]) :
                /\ Initialized[r][i] = Initialized[r][j] => i = j
                /\ Inside(Initialized[r][j], Initialized[r][i]) => i < j

-----------------------------------------------------------------------------
Gate(r) == <<"dev-taskflow", r>>
Tasks == <<"task-store", "host">>
Intents == <<"artifact-intent", "host">>
Notes == <<"notes", "host">>
Catalog == <<"catalog", "host">>
Asset(r) == <<"experiment-move", r>>
MoveSource(r) == <<"legacy-experiment-move", r>>
History(r) == <<"agent-history", r>>
Finalization(r) == <<"dev-artifact-finalize", r>>

\* Seeded fault: a submodule's command takes its own gate alone.
OwnGate(r) == <<Gate(r)>>

(* The gates of a repository: of the ones around it first. *)
Gates(r) == [i \in 1..Depth(r) |-> Gate(Containing[r][i])] \o <<Gate(r)>>

(* The gates of the checked-out submodules, the paths sorted. *)
ChildGates(r) == [i \in 1..Len(Initialized[r]) |-> Gate(Initialized[r][i])]

(* A repository mutation that reads no task: dev git, a worktree, a fork.  *)
GitCommand(r) == <<Gates(r)>>

LifecycleCommand(r) == <<Gates(r) \o <<Tasks>>>>

(* A checkout is retired with the submodules in it. *)
RetireCommand(r) == <<Gates(r) \o <<Tasks>> \o ChildGates(r)>>

\* Seeded fault: the move guard takes the task store before the gates.
DemoteTasksFirst(r) == <<<<Asset(r), Tasks>> \o Gates(r) \o <<Intents, Catalog>>>>

DemoteCommand(r) == <<<<Asset(r)>> \o Gates(r) \o <<Tasks, Intents, Catalog>>>>

GraduateCommand(r) == <<<<Asset(r)>> \o Gates(r) \o <<Catalog>>>>

(* A trial the catalog does not know yet is enrolled, then graduated. *)
EnrolCommand(r) ==
    <<<<MoveSource(r), Catalog>>, <<MoveSource(r), Asset(r)>> \o Gates(r) \o <<Catalog>>>>

ForgetCommand(r) == <<<<Tasks, Notes, Catalog>>>>

(* The artifact preparation takes the repository's own gate alone. *)
PrepareCommand(r) == <<<<Gate(r), Intents>>>>

(* So does a cleanup that dev triage runs. *)
TriageCommand(r) == <<<<Gate(r), Tasks>>>>

FinalizeCommand(r) ==
    <<<<Finalization(r), Intents>>,
      <<Finalization(r), History(r)>> \o Gates(r) \o Gates(ArchiveOf[r]),
      <<Finalization(r), Intents>>>>

Script(command) ==
    LET r == command[2] IN
    CASE command[1] = "git" -> GitCommand(r)
      [] command[1] = "lifecycle" -> LifecycleCommand(r)
      [] command[1] = "retire" -> RetireCommand(r)
      [] command[1] = "demote" -> DemoteCommand(r)
      [] command[1] = "graduate" -> GraduateCommand(r)
      [] command[1] = "enrol" -> EnrolCommand(r)
      [] command[1] = "forget" -> ForgetCommand(r)
      [] command[1] = "prepare" -> PrepareCommand(r)
      [] command[1] = "triage" -> TriageCommand(r)
      [] command[1] = "finalize" -> FinalizeCommand(r)

-----------------------------------------------------------------------------
(* What may be started: a history is finalized only where one is bound.    *)
Names == {"git", "lifecycle", "retire", "demote", "graduate", "enrol", "forget",
          "prepare", "triage", "finalize"}

CommandsAssumption ==
    /\ \A r \in DOMAIN ArchiveOf : ArchiveOf[r] \in Repositories
    /\ \A c \in Commands : \E name \in Names, r \in Repositories :
          c = <<name, r>> /\ (name = "finalize" => r \in DOMAIN ArchiveOf)

(* Instances assume these.                                                  *)
LocksAssumption == ContainingAssumption /\ InitializedAssumption /\ CommandsAssumption

VARIABLES command,   \* the command of each process, <<>> before it starts
          todo,      \* the stacks it has still to work under
          held       \* the locks it holds, in the order it took them

vars == <<command, todo, held>>

Locks ==
    {Gate(r) : r \in Repositories} \cup {Asset(r) : r \in Repositories}
        \cup {MoveSource(r) : r \in Repositories} \cup {History(r) : r \in Repositories}
        \cup {Finalization(r) : r \in Repositories} \cup {Tasks, Intents, Notes, Catalog}

Holds(p, lock) == lock \in ToSet(held[p])

(* The stack a process is on its way to. *)
Goal(p) == IF todo[p] = <<>> THEN <<>> ELSE Head(todo[p])

(* It has given back what the next stack does not start with and asks for  *)
(* the next lock of it.                                                     *)
Asking(p) == IsPrefix(held[p], Goal(p)) /\ held[p] # Goal(p)

Wanted(p) == Goal(p)[Len(held[p]) + 1]

Init ==
    /\ command = [p \in Processes |-> <<>>]
    /\ todo = [p \in Processes |-> <<>>]
    /\ held = [p \in Processes |-> <<>>]

Begin(p) ==
    /\ command[p] = <<>>
    /\ \E c \in Commands :
          /\ command' = [command EXCEPT ![p] = c]
          /\ todo' = [todo EXCEPT ![p] = Script(c)]
    /\ UNCHANGED held

(* The non-blocking flock is tried again until it succeeds. *)
Take(p) ==
    /\ Asking(p)
    /\ \A q \in Processes : ~Holds(q, Wanted(p))
    /\ held' = [held EXCEPT ![p] = Append(@, Wanted(p))]
    /\ UNCHANGED <<command, todo>>

(* The operation runs under the whole stack. *)
Work(p) ==
    /\ todo[p] # <<>>
    /\ held[p] = Head(todo[p])
    /\ todo' = [todo EXCEPT ![p] = Tail(@)]
    /\ UNCHANGED <<command, held>>

(* The deferred Close calls, innermost lock first. *)
Release(p) ==
    /\ ~IsPrefix(held[p], Goal(p))
    /\ held' = [held EXCEPT ![p] = Front(@)]
    /\ UNCHANGED <<command, todo>>

(* An operation fails, or the user interrupts a wait: the command unwinds. *)
Fail(p) ==
    /\ todo[p] # <<>>
    /\ todo' = [todo EXCEPT ![p] = <<>>]
    /\ UNCHANGED <<command, held>>

(* The kernel drops every flock of a process that is killed. *)
Kill(p) ==
    /\ held[p] # <<>>
    /\ todo' = [todo EXCEPT ![p] = <<>>]
    /\ held' = [held EXCEPT ![p] = <<>>]
    /\ UNCHANGED command

Next == \E p \in Processes :
    Begin(p) \/ Take(p) \/ Work(p) \/ Release(p) \/ Fail(p) \/ Kill(p)

Spec == Init /\ [][Next]_vars

(* A running command polls for its lock, works and closes its leases. *)
Fairness == \A p \in Processes : WF_vars(Take(p)) /\ WF_vars(Work(p)) /\ WF_vars(Release(p))

FairSpec == Spec /\ Fairness

-----------------------------------------------------------------------------
(* The held locks are locks, and no two commands hold the same one. *)
TypeOK ==
    /\ command \in [Processes -> Commands \cup {<<>>}]
    /\ \A p \in Processes :
          /\ ToSet(held[p]) \subseteq Locks
          /\ \A i \in 1..Len(todo[p]) : ToSet(todo[p][i]) \subseteq Locks
    /\ \A p, q \in Processes : p # q => ToSet(held[p]) \cap ToSet(held[q]) = {}

(* No commands wait for each other in a circle, and none for itself: the   *)
(* waits have no time limit, so they would last until the user interrupts  *)
(* one (lockx.acquire).                                                     *)
NoCircularWait ==
    \A group \in (SUBSET Processes) \ {{}} :
        \E p \in group : ~(Asking(p) /\ \E q \in group : Holds(q, Wanted(p)))

(* While a checkout of a superproject is retired, no other command is in a *)
(* lifecycle transaction of one of its submodules (WithLifecycleLock).     *)
Transactions == {"git", "lifecycle", "retire", "demote", "graduate", "enrol", "triage"}

SubmodulesClosed ==
    \A p, q \in Processes :
        (p # q /\ command[p] # <<>> /\ command[p][1] = "retire" /\ Holds(p, Gate(command[p][2])))
            => ~(/\ command[q] # <<>>
                 /\ command[q][1] \in Transactions
                 /\ Inside(command[q][2], command[p][2])
                 /\ Holds(q, Gate(command[q][2])))

(* The task-store lock comes after the repositories' gates: no command     *)
(* asks for a gate while it holds the task store (WithLifecycleLock).  The *)
(* removal of a checkout with submodules does (Removal.Apply).             *)
TaskStoreLast ==
    \A p \in Processes :
        (Asking(p) /\ Holds(p, Tasks)) => Wanted(p) \notin {Gate(r) : r \in Repositories}

(* A command that runs gets all its locks, or fails, and holds none in the *)
(* end.                                                                     *)
Finishes == \A p \in Processes : (todo[p] # <<>>) ~> (todo[p] = <<>> /\ held[p] = <<>>)
=============================================================================
