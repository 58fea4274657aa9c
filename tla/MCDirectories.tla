---------------------------- MODULE MCDirectories ----------------------------
(***************************************************************************)
(* What dev keeps in directories that the operator changes as well: trials *)
(* in two instances, several that are archived, restored and removed while *)
(* nobody interferes, and one that goes to the projects and back while     *)
(* directories are exchanged; and the fragments of the list of remotes.    *)
(* They share no state; one moves in a behaviour, so that the states of    *)
(* this specification are the states of each instance on its own.          *)
(***************************************************************************)
EXTENDS Trials, TLC

CONSTANTS i2, n1, n2, p1, p2,
          Aliases, MaxSaves     \* see FleetFragments

VARIABLES part,        \* what moves
          entry, primary, touched, saves, lock, pc, op, result
remotes == <<entry, primary, touched, saves, lock, pc, op, result>>

Exchanged == INSTANCE Trials WITH
    AnyTarget <- TRUE, MaxTouches <- 2, MaxCrashes <- 2,
    Ops <- {"graduate", "demote", "archive", "restore", "attach", "forget", "list"}

Fleet == INSTANCE FleetFragments WITH
    Processes <- Proc, Names <- Name

ASSUME FleetAssumption == Fleet!FleetAssumption

\* Of the two identities, one has a record.
Alone == /\ rec[i2] = None /\ journal[i2] = None
         /\ \A p \in Proc : proc[p].id # i2

\* The fragments play no role: no file of them has a value.
NoRemotes == /\ entry = None /\ primary = None /\ touched = None /\ saves = None
             /\ lock = None /\ pc = None /\ op = None /\ result = None

DirectoriesInit ==
    \/ part = "undisturbed" /\ Init /\ NoRemotes
    \/ part = "exchanged" /\ Exchanged!Init /\ NoRemotes
    \/ part = "remotes" /\ Init /\ Fleet!Init

DirectoriesNext ==
    /\ UNCHANGED part
    /\ \/ part = "undisturbed" /\ Next /\ UNCHANGED remotes
       \/ part = "exchanged" /\ Exchanged!Next /\ Alone' /\ UNCHANGED remotes
       \/ part = "remotes" /\ Fleet!Next /\ UNCHANGED vars

DirectoriesSpec == DirectoriesInit /\ [][DirectoriesNext]_<<part, vars, remotes>>

Symmetry == Permutations({n1, n2}) \cup Permutations({p1, p2})

\* The catalog always says where a trial's directory is: at the recorded path,
\* at one end of the pending move, or in the trash under a journal that names
\* it, whatever dies or fails on the way (transitions.go, removal.go).
AlwaysTracked == part = "undisturbed" => Tracked

\* While the user changes nothing, whoever loads the merged list of remotes at
\* any moment finds it valid (validateManagedWriteMerge under the lock).
AlwaysLoads == part = "remotes" => Fleet!AlwaysLoads

\* A fragment disappears by dev's hand only if the command that holds the lock
\* has looked at this very file or created it (replace, removeIfSame).
OnlyLooked == [][part = "remotes" => Fleet!Looks]_remotes
=============================================================================
