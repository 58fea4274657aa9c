---------------------------- MODULE RetireHandoff ----------------------------
(***************************************************************************)
(* Closing the terminals that cover a finished checkout (internal/retire,  *)
(* and done_cleanup.go, retire_caller.go and foreground.go of              *)
(* internal/cli).  The operator sees a preview of the covering workspaces  *)
(* and approves what is to be closed.  A command that runs in one of them  *)
(* hands the approval to a coordinator outside, which waits until the      *)
(* command has left its pane; otherwise the command itself goes on.        *)
(* Workspaces are closed one at a time, each after a new listing, and the  *)
(* worktree is removed once none covers it.                                *)
(*                                                                         *)
(* Panes change at any time, also between a listing and the close that     *)
(* follows it; nothing the program does can prevent that.  What git and    *)
(* the task record contribute is the subject of TaskFlow.                  *)
(***************************************************************************)
EXTENDS Naturals, FiniteSets

CONSTANTS
    Pane, Workspace,
    In,             \* the workspace a pane belongs to
    Caller,         \* the pane the operator's command runs in
    Coordinator,    \* processes given the same hand-off
    MaxChanges,     \* bound: changes of panes
    None

Program == {"edit", "serve"}
\* What runs in the foreground: a shell, an agent, a program, the command itself.
Foreground == {"shell", "idle", "busy", "dev"} \cup Program
Open == [inside : BOOLEAN, fg : Foreground]

\* Instances assume this.
HandoffAssumption ==
    /\ In \in [Pane -> Workspace] /\ Caller \in Pane
    /\ MaxChanges \in Nat /\ None \notin Coordinator \cup Open

Listing == [Pane -> Open \cup {None}]

VARIABLES
    pane,       \* the panes, None when there is none
    ended,      \* whether a workspace is open, closing or gone
    late,       \* panes changed since a process last listed or closed
    changes,
    launch,     \* the operator's command
    preview,    \* the listing the operator has been shown
    lease, intent,      \* the hand-off: its lock and its file
    pc, mark,   \* a process and the listing it compares with
    look,       \* the listing before a close
    tree        \* the worktree is there
world == <<pane, ended, changes>>
command == <<launch, preview>>
handoff == <<lease, intent>>
local == <<pc, mark, look>>
vars == <<world, late, command, handoff, local, tree>>

Shell == [inside |-> TRUE, fg |-> "shell"]
Empty == [p \in Pane |-> None]
Init ==
    /\ pane \in [Pane -> {None, Shell, [inside |-> TRUE, fg |-> "edit"]}]
                 \cap {s \in Listing : s[Caller] = Shell}
    /\ ended = [w \in Workspace |-> "open"]
    /\ late = {} /\ changes = 0
    /\ launch = "none" /\ preview = Empty
    /\ lease = None /\ intent = None
    /\ pc = [c \in Coordinator |-> "none"]
    /\ mark = [c \in Coordinator |-> Empty] /\ look = Empty
    /\ tree = TRUE

-----------------------------------------------------------------------------
(* What a listing shows (InspectOccupancy and inspect).                    *)
\* Workspaces with a pane inside the checkout, all their panes.
Covers(w) == \E p \in Pane : In[p] = w /\ pane[p] # None /\ pane[p].inside
Seen == [p \in Pane |-> IF Covers(In[p]) THEN pane[p] ELSE None]

\* A program is closed only if the operator approved that very program.
Consented(p, s) == preview[p] = s /\ s.fg \in Program
Closeable(p, s) ==
    /\ s.inside
    /\ s.fg \in {"shell", "idle"} \/ Consented(p, s)
Ready(seen) == \A p \in Pane : seen[p] # None => Closeable(p, seen[p])
Released(seen) == \A p \in Pane : seen[p] = None

\* The hand-off leaves open what runs in the pane of the command.
Strip(seen) ==
    [p \in Pane |-> IF p = Caller /\ seen[p] # None THEN [seen[p] EXCEPT !.fg = "dev"] ELSE seen[p]]

(* The operator's command.                                                 *)
Run(fg) == pane' = [pane EXCEPT ![Caller].fg = fg]
Contained == preview[Caller] # None

Show ==
    /\ launch = "none" /\ pane[Caller] # None /\ pane[Caller].fg = "shell"
    /\ Run("dev")
    /\ preview' = Seen' /\ launch' = "shown"
    /\ UNCHANGED <<ended, changes, late, handoff, local, tree>>

Confirm ==
    /\ launch = "shown"
    /\ Seen = preview
    /\ \A p \in Pane : Seen[p] # None =>
           Closeable(p, Seen[p]) \/ (p = Caller /\ Seen[p].inside /\ Seen[p].fg = "dev")
    /\ launch' = "approved"
    /\ UNCHANGED <<world, late, preview, handoff, local, tree>>

\* The operator declines, or the panes have changed.
Decline ==
    /\ launch \in {"shown", "approved"}
    /\ launch' = "left" /\ Run("shell")
    /\ UNCHANGED <<ended, changes, late, preview, handoff, local, tree>>

\* Outside the covering workspaces the command retires the checkout itself.
Direct(c) ==
    /\ launch = "approved" /\ ~Contained
    /\ launch' = "left"
    /\ pc' = [pc EXCEPT ![c] = "recheck"] /\ mark' = [mark EXCEPT ![c] = preview]
    /\ UNCHANGED <<world, late, preview, handoff, look, tree>>

Publish ==
    /\ launch = "approved" /\ Contained
    /\ lease' = Caller /\ intent' = Strip(preview)
    /\ launch' = "launching"
    /\ UNCHANGED <<world, late, preview, local, tree>>

\* The command starts a coordinator; its line may be run again by hand.
Start(c) ==
    /\ launch \in {"launching", "failing", "left"} /\ Contained /\ pc[c] = "none"
    /\ launch = "launching" \/ \E d \in Coordinator : pc[d] # "none"
    /\ pc' = [pc EXCEPT ![c] = "wait"]
    /\ UNCHANGED <<world, late, command, handoff, mark, look, tree>>

Return ==
    /\ launch = "launching" /\ \E c \in Coordinator : pc[c] # "none"
    /\ launch' = "left" /\ lease' = None /\ Run("shell")
    /\ UNCHANGED <<ended, changes, late, preview, intent, local, tree>>

\* The coordinator is closed again, if that works; the lock goes before the file.
LaunchFails ==
    /\ launch = "launching"
    /\ launch' = "failing" /\ lease' = None
    /\ \E S \in SUBSET {c \in Coordinator : pc[c] = "wait"} :
           pc' = [c \in Coordinator |-> IF c \in S THEN "refused" ELSE pc[c]]
    /\ UNCHANGED <<world, late, preview, intent, mark, look, tree>>
Withdraw ==
    /\ launch = "failing"
    /\ launch' = "left" /\ intent' = None /\ Run("shell")
    /\ UNCHANGED <<ended, changes, late, preview, lease, local, tree>>

-----------------------------------------------------------------------------
(* A coordinator, from the hand-off to the approval it carries.            *)
Step(c, next) == pc' = [pc EXCEPT ![c] = next]
Looked == late' = {}
Stop(c) == Step(c, IF lease = c THEN "sweep" ELSE "ended") /\ UNCHANGED mark

\* The file is taken away before it is used.
Take(c) ==
    /\ pc[c] = "wait" /\ lease = None
    /\ IF intent = None
       THEN Step(c, "refused") /\ UNCHANGED <<handoff, mark>>
       ELSE /\ lease' = c /\ intent' = None
            /\ mark' = [mark EXCEPT ![c] = intent]
            /\ Step(c, "await")
    /\ UNCHANGED <<world, late, command, look, tree>>

\* The lock is not free in time.
GiveUp(c) ==
    /\ pc[c] = "wait" /\ lease # None
    /\ Step(c, "refused")
    /\ UNCHANGED <<world, late, command, handoff, mark, look, tree>>

\* The hand-off has expired, the task has moved on, or a deadline passes.
Expire(c) ==
    /\ pc[c] \in {"await", "list"}
    /\ Stop(c)
    /\ UNCHANGED <<world, late, command, handoff, look, tree>>

Await(c) ==
    /\ pc[c] = "await" /\ ~(Seen[Caller] # None /\ Seen[Caller].fg = "dev" /\ Seen[Caller].inside)
    /\ Looked
    /\ IF Seen[Caller] = Shell /\ Strip(Seen) = mark[c] /\ Ready(Seen)
       THEN Step(c, "recheck") /\ mark' = [mark EXCEPT ![c] = Seen]
       ELSE Stop(c)
    /\ UNCHANGED <<world, command, handoff, look, tree>>

(* Retirement proper (reinspectRetire, CloseAndWait).                      *)
Recheck(c) ==
    /\ pc[c] = "recheck" /\ Looked
    /\ IF Seen = mark[c] /\ Ready(Seen)
       THEN Step(c, IF Released(Seen) THEN "final" ELSE "inspect") /\ UNCHANGED mark
       ELSE Stop(c)
    /\ UNCHANGED <<world, command, handoff, look, tree>>

\* What is found now is what will be closed.
Inspect(c) ==
    /\ pc[c] = "inspect" /\ Looked
    /\ IF Ready(Seen)
       THEN Step(c, "list") /\ mark' = [mark EXCEPT ![c] = Seen]
       ELSE Stop(c)
    /\ UNCHANGED <<world, command, handoff, look, tree>>

Remaining(seen) == {w \in Workspace : ended[w] = "open" /\ \E p \in Pane : In[p] = w /\ seen[p] # None}
Approved(c, seen, w) == \A p \in Pane : In[p] = w => seen[p] = mark[c][p]

\* With every workspace closed and some still listed, it is listed again.
List(c) ==
    /\ pc[c] = "list" /\ Looked
    /\ \/ ~Ready(Seen) /\ Stop(c) /\ UNCHANGED look
       \/ Ready(Seen) /\ Released(Seen) /\ Step(c, "final") /\ UNCHANGED <<mark, look>>
       \/ \E w \in Remaining(Seen) :
              /\ Ready(Seen)
              /\ IF Approved(c, Seen, w)
                 THEN Step(c, "close") /\ look' = Seen /\ UNCHANGED mark
                 ELSE Stop(c) /\ UNCHANGED look
    /\ UNCHANGED <<world, command, handoff, tree>>

Closing(w) == ended' = [ended EXCEPT ![w] = "closing"]
\* Seeded fault: all workspaces are closed on one listing.
CloseOn(c) ==
    /\ pc[c] = "close" /\ Looked
    /\ \E w \in Remaining(look) :
           /\ Approved(c, look, w)
           /\ ended' = [ended EXCEPT ![w] = "closing"]
           /\ Step(c, IF Remaining(look) = {w} THEN "list" ELSE "close")
    /\ UNCHANGED <<pane, changes, command, handoff, mark, look, tree>>
Close(c) ==
    /\ pc[c] = "close" /\ Looked
    /\ \E w \in Remaining(look) :
           /\ Approved(c, look, w)
           /\ \/ Closing(w) /\ Step(c, "list") /\ UNCHANGED mark
              \/ (Closing(w) \/ UNCHANGED ended) /\ Stop(c)
    /\ look' = Empty
    /\ UNCHANGED <<pane, changes, command, handoff, tree>>

Final(c) ==
    /\ pc[c] = "final" /\ Looked
    /\ IF Released(Seen) THEN Step(c, "remove") /\ UNCHANGED mark ELSE Stop(c)
    /\ UNCHANGED <<world, command, handoff, look, tree>>

Remove(c) ==
    /\ pc[c] = "remove" /\ tree' = FALSE
    /\ Stop(c)
    /\ UNCHANGED <<world, late, command, handoff, look>>

\* The lock is given back before the file of the hand-off is swept away.
Sweep(c) ==
    /\ \/ pc[c] = "sweep" /\ lease = c /\ lease' = None
          /\ Step(c, "swept") /\ UNCHANGED intent
       \/ pc[c] = "swept" /\ intent' = None
          /\ Step(c, "ended") /\ UNCHANGED lease
    /\ UNCHANGED <<world, late, command, mark, look, tree>>

-----------------------------------------------------------------------------
(* Terminals.                                                              *)
Change(p) ==
    /\ changes < MaxChanges /\ changes' = changes + 1
    /\ ended[In[p]] = "open" /\ (pane[p] # None => pane[p].fg # "dev")
    /\ \E s \in {None, [inside |-> FALSE, fg |-> "shell"]}
                 \cup [inside : {TRUE}, fg : Foreground \ {"dev"}] :
           s # pane[p] /\ pane' = [pane EXCEPT ![p] = s]
    /\ late' = late \cup {p}
    /\ UNCHANGED <<ended, command, handoff, local, tree>>

\* A closed workspace takes a moment to go.
Vanish(w) ==
    /\ ended[w] = "closing"
    /\ ended' = [ended EXCEPT ![w] = "gone"]
    /\ pane' = [p \in Pane |-> IF In[p] = w THEN None ELSE pane[p]]
    /\ UNCHANGED <<changes, late, command, handoff, local, tree>>

Coordinate(c) ==
    \/ Take(c) \/ GiveUp(c) \/ Expire(c) \/ Await(c) \/ Recheck(c) \/ Inspect(c)
    \/ List(c) \/ Close(c) \/ Final(c) \/ Remove(c) \/ Sweep(c)
Next ==
    \/ Show \/ Confirm \/ Decline \/ Publish \/ Return \/ LaunchFails \/ Withdraw
    \/ \E c \in Coordinator : Direct(c) \/ Start(c) \/ Coordinate(c)
    \/ \E p \in Pane : Change(p)
    \/ \E w \in Workspace : Vanish(w)

Spec == Init /\ [][Next]_vars
\* Processes go on and their deadlines pass; terminals need not react.
FairSpec == Spec /\ \A c \in Coordinator : WF_vars(Coordinate(c))

-----------------------------------------------------------------------------
(* What panes, listings and processes can be (retireHandoffIntent).        *)
Over == {"ended", "refused"}
Idle == {"none", "wait"}
Steps == {"await", "recheck", "inspect", "list", "close", "final", "remove", "sweep", "swept"}
TypeOK ==
    /\ {pane, preview, look} \subseteq Listing
    /\ ended \in [Workspace -> {"open", "closing", "gone"}]
    /\ late \subseteq Pane
    /\ lease \in Coordinator \cup {None, Caller} /\ intent \in Listing \cup {None}
    /\ pc \in [Coordinator -> Idle \cup Steps \cup Over]
    /\ mark \in [Coordinator -> Listing]

(* Closing a workspace ends no busy agent, no program the operator did not *)
(* approve, and nothing outside the checkout, unless it appeared after the *)
(* listing the close rests on (CloseAndWait lists before every close).     *)
NoWorkKilled ==
    [][\A p \in Pane :
           ended[In[p]] = "open" /\ ended'[In[p]] # "open" /\ pane[p] # None
               => Closeable(p, pane[p]) \/ p \in late]_vars

(* The worktree is removed under no terminal that was there at the last    *)
(* listing, closing ones included (executeRetire, reinspectRetire).        *)
RemovedReleased ==
    [][tree /\ ~tree' => \A p \in Pane : pane[p] # None /\ pane[p].inside => p \in late]_vars

(* One approval is acted on by one process, however often its hand-off is  *)
(* started (runRetireCoordinator consumes the file).                       *)
Took(c) == pc[c] \notin Idle \cup {"refused"}
Once == \A c, d \in Coordinator : Took(c) /\ Took(d) => c = d

(* A coordinator ends, whatever the terminals and the launching command do *)
(* (awaitRetireCaller and CloseAndWait have deadlines).                    *)
Ends == \A c \in Coordinator : pc[c] # "none" ~> pc[c] \in Over

(* What is closed is what the preview showed, but for the command's own    *)
(* pane and for what changed after the last listing.  The code does not    *)
(* keep to this: CloseAndWait goes by a newer listing of its own.           *)
PreviewedOnly ==
    [][\A p \in Pane :
           ended[In[p]] = "open" /\ ended'[In[p]] # "open" /\ p # Caller
               => pane[p] = preview[p] \/ p \in late]_vars
=============================================================================
