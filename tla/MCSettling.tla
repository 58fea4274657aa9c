----------------------------- MODULE MCSettling -----------------------------
(***************************************************************************)
(* What ends although processes die and operators interfere: the removal   *)
(* of a worktree with submodules, the retirement of a checkout whose       *)
(* terminals are handed to a coordinator, and interrupted moves of trials. *)
(* The three share no state; one of them moves in a behaviour, under its   *)
(* own fairness.                                                           *)
(***************************************************************************)
EXTENDS SubmoduleRemoval

CONSTANTS x1, x2, x3, w1, w2,           \* panes and workspaces
          i1, n1, n2, j1, p1, p2        \* a trial, names, processes
CONSTANTS Pane, Workspace, In, Caller, Coordinator, MaxChanges

ThreePanes == {x1, x2, x3}
TwoWorkspaces == {w1, w2}
\* The command's pane shares its workspace with another one.
SharedWorkspace == [x \in ThreePanes |-> IF x = x3 THEN w2 ELSE w1]

VARIABLES part,      \* what moves
          pane, ended, late, changes, launch, preview, lease, intent, coordinator, mark,
          look, tree,
          fs, rec, removals, trash, proc, own, made, touches, kills

terminals == <<pane, ended, late, changes, launch, preview, lease, intent, coordinator,
               mark, look, tree>>
directories == <<fs, rec, removals, trash, proc, own, made, touches, kills>>

Retire == INSTANCE RetireHandoff WITH pc <- coordinator
ASSUME TerminalsAssumption == Retire!HandoffAssumption

Trials == INSTANCE Trials WITH
    Id <- {i1}, Name <- {n1, n2}, Project <- {j1}, Proc <- {p1, p2},
    Ops <- {"archive", "restore", "graduate", "demote", "list"}, AnyTarget <- TRUE,
    MaxDirs <- 2, MaxTouches <- 0, MaxCrashes <- 1, journal <- removals, crashes <- kills

\* Terminals that do not move have one initial state.
NoProgram == \A x \in Pane : pane[x] = Retire!Shell

SettlingInit ==
    /\ part \in {"submodules", "terminals", "trials"}
    /\ Init /\ Trials!Init
    /\ Retire!Init /\ (part # "terminals" => NoProgram)

Submodules(A) == part = "submodules" /\ A /\ UNCHANGED <<part, terminals, directories>>
Terminals(A) == part = "terminals" /\ A /\ UNCHANGED <<part, vars, directories>>
Directories(A) == part = "trials" /\ A /\ UNCHANGED <<part, vars, terminals>>

SettlingNext == Submodules(Next) \/ Terminals(Retire!Next) \/ Directories(Trials!Next)

all == <<part, vars, terminals, directories>>
SettlingFairness ==
    /\ WF_all(Submodules(Removal)) /\ WF_all(Submodules(Return))
    /\ WF_all(Submodules(Recovery)) /\ \A i \in Child : WF_all(Submodules(Clear(i)))
    /\ \A p \in {p1, p2} : WF_all(Directories(Trials!Onward(p)))
    /\ WF_all(Directories(Trials!Repair(i1)))
SettlingSpec == SettlingInit /\ [][SettlingNext]_all /\ SettlingFairness

-----------------------------------------------------------------------------
\* Closing a workspace ends no busy agent, no program the operator did not
\* approve, and nothing outside the checkout, unless it appeared after the
\* listing the close rests on (CloseAndWait lists before every close).
NoWorkKilled == Retire!NoWorkKilled

\* An interrupted move of a trial is settled by listing, unless both or neither
\* of its places hold a directory (ReconcileMoveIntents).
MovesSettle == part = "trials" => Trials!Settles
=============================================================================
