------------------------------ MODULE MCRecords ------------------------------
(***************************************************************************)
(* Two stores of records that share no state: the registry of machines and *)
(* the archive intents.  One of them moves in a behaviour; the intents in  *)
(* one of three parts, each with the commands and the room it needs.       *)
(***************************************************************************)
EXTENDS Artifact

CONSTANTS m1, m2, p1, p2, i1, i2,
          Machine, Key, Look, Alias, Origin, MaxRevision, MaxFiles   \* see MachineRegistry

VARIABLES part,                       \* what moves
          db, file, backup, proc
registry == <<db, file, backup, proc>>

Registry == INSTANCE MachineRegistry WITH Proc <- Procs

ASSUME RegistryAssumption == Registry!RegistryAssumption

\* An intent that is committed, with room for a longer history; one for the
\* external archive, with every command; and one of each, while a life-cycle
\* operation takes the checkout away.
Scope ==
    [committing |-> [ids |-> {i1}, jobs |-> {"prepare", "finalize", "discard"},
                     texts |-> 2, commits |-> 3],
     archiving  |-> [ids |-> {i2}, jobs |-> {"prepare", "finalize", "observe", "discard"},
                     texts |-> 1, commits |-> 2],
     moving     |-> [ids |-> {i1, i2}, jobs |-> {"prepare", "finalize", "move"},
                     texts |-> 1, commits |-> 2]]
Within(scope) ==
    /\ \A p \in Procs : on[p] \in scope.ids \cup {None} /\ job[p] \in scope.jobs \cup {None}
    /\ text <= scope.texts /\ Len(log) <= scope.commits
Destinations == [i \in {i1, i2} |-> IF i = i1 THEN "commit" ELSE "archive"]

RecordsInit == part \in {"registry"} \cup DOMAIN Scope /\ Init /\ Registry!Init

RecordsNext ==
    /\ UNCHANGED part
    /\ \/ part = "registry" /\ Registry!Next /\ UNCHANGED vars
       \/ part \in DOMAIN Scope /\ Next /\ Within(Scope[part])' /\ UNCHANGED registry

RecordsSpec == RecordsInit /\ [][RecordsNext]_<<part, vars, registry>>

Symmetry == Permutations({m1, m2}) \cup Permutations({p1, p2})

-----------------------------------------------------------------------------
\* A change of the registry is the reviewed one, made to the very content it
\* was reviewed for: nobody else's change is overwritten (Apply).
ReviewedCommit == Registry!ReviewedCommit

\* A provider's record leaves its machine only when it is unlinked or follows
\* it into the survivor of a merge, an imported alias keeps its origin and a
\* merged identity its survivor (transition).
NeverTaken == Registry!NeverTaken
=============================================================================
