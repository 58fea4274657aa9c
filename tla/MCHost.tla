------------------------------- MODULE MCHost -------------------------------
(***************************************************************************)
(* What commands do to the files of one host: local files of a checkout,   *)
(* configuration files with a receipt, and the file locks commands take.   *)
(* The three share no state; one of them moves in a behaviour, so that the *)
(* states of this specification are the states of each of them on its own. *)
(***************************************************************************)
EXTENDS LocalFiles, TLC

CONSTANTS Commanders,           \* commands that edit or lock
          MaxSaves,             \* bound: saves of the user's editor
          Fragment, Root, Source,
          Repositories, Containing, Initialized, ArchiveOf, Commands,
          super, nested, other    \* a repository, a submodule of it, a third one

VARIABLES part,      \* what moves
          texts, saves, lock, cpc, undoes, cplan, guards, next, known, receipts,
          command, todo, held

configuration == <<texts, saves, lock, cpc, undoes, cplan, guards, next, known, receipts>>
stacks == <<command, todo, held>>

Config == INSTANCE ConfigEdit WITH
    Processes <- Commanders, MaxEdits <- MaxSaves, ReadsApart <- FALSE,
    files <- texts, edits <- saves, pc <- cpc, plan <- cplan

ASSUME EditsAssumption == Config!ConfigAssumption

Locks == INSTANCE LifecycleLocks WITH Processes <- Commanders
ASSUME LocksAssumption == Locks!LocksAssumption

\* The values of the constants: every command on the repository and the
\* submodule, the histories of both archived in the third repository.
Three == {super, nested, other}
Within == [r \in Three |-> IF r = nested THEN <<super>> ELSE <<>>]
CheckedOut == [r \in Three |-> IF r = super THEN <<nested>> ELSE <<>>]
Archived == [r \in {super, nested} |-> other]
AllCommands ==
    ({"git", "lifecycle", "demote", "graduate", "enrol", "finalize"} \X {super, nested})
        \cup ({"prepare"} \X Three)
        \cup {<<"git", other>>, <<"lifecycle", other>>, <<"retire", super>>, <<"forget", super>>}

\* Local files that do not move have one initial state.
NothingPlanned == plan = [k \in Paths |-> "current"]

HostInit ==
    /\ part \in {"files", "configuration", "locks"}
    /\ Init /\ (part # "files" => NothingPlanned)
    /\ Config!Init
    /\ Locks!Init

HostNext ==
    /\ UNCHANGED part
    /\ \/ part = "files" /\ Next /\ UNCHANGED <<configuration, stacks>>
       \/ part = "configuration" /\ Config!Next /\ UNCHANGED <<vars, stacks>>
       \/ part = "locks" /\ Locks!Next /\ UNCHANGED <<vars, configuration>>

HostSpec == HostInit /\ [][HostNext]_<<part, vars, configuration, stacks>>

Symmetry == Permutations(Commanders)

-----------------------------------------------------------------------------
\* A restore replaces or removes a file only in the state its receipt recorded:
\* not after an edit, nor after a replacement with the same bytes (RestorePlan).
EditsKept == Config!EditsKept

\* A restore plans to put back every text of its transaction that is not there,
\* and when it is reported as applied those are, except where the user has saved
\* the file since (RestorePlan, ApplyChecked).
Undone == Config!Undone

\* No commands wait for each other in a circle, and none for itself
\* (lockx.acquire polls without a limit).
NoCircularWait == Locks!NoCircularWait

\* While a checkout of a superproject is retired, no other command is in a
\* lifecycle transaction of one of its submodules (WithLifecycleLock).
SubmodulesClosed == Locks!SubmodulesClosed
=============================================================================
