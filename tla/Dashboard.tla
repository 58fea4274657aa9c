----------------------------- MODULE Dashboard -----------------------------
(***************************************************************************)
(* The dashboard's views and the reads that fill them.  Every request for  *)
(* a view gets a generation; its reader runs beside the event loop and     *)
(* answers with one message, in any order with the others.  TASKS, REPOS   *)
(* and TRIES may share one stream of results; SKILLS and MCP are computed  *)
(* from the accepted REPOS rows and wait for them.  A clone started from   *)
(* REMOTE ends when a REPOS read begun after it is accepted.               *)
(* One action is one call of Model.Update; the operators on `loads` are    *)
(* the methods it calls.                                                   *)
(***************************************************************************)
EXTENDS Integers, FiniteSets

CONSTANTS Siblings,     \* views read with REPOS by the shared stream
          Dependents,   \* views computed from the REPOS rows
          Partial,      \* bound: views whose result may hold a part of the rows
          Rare,         \* which of "triage", "check", "recheck", "cancel" happen
          MaxRequests   \* bound: requests of the user and ends of their commands

ASSUME DashboardAssumption ==
    /\ "tries" \in Siblings /\ Siblings \subseteq {"tasks", "tries"}
    /\ Dependents \subseteq {"skills", "mcp"}
    /\ Rare \subseteq {"triage", "check", "recheck", "cancel"}
    /\ MaxRequests \in Nat

Local == Siblings \cup {"repos"}
Views == Local \cup {"remote"} \cup Dependents
Outcomes(v) == IF v \in Partial THEN {"ok", "partial", "failed"} ELSE {"ok", "failed"}

VARIABLES loads,    \* viewLoadState of each view
          rows,     \* what each view shows: the request it answers, the REPOS rows used
          view,     \* the view on the screen, "other" for one that loads nothing
          local,    \* generation of the shared stream, whether its context lives
          config,   \* generation of the configuration read, whether one is awaited
          clone,    \* remoteCloneState
          triage,   \* generation the triage in the foreground was opened at, or -1
          skills,   \* skillsInventoryErr is set, skillsChecking
          flight,   \* messages and readers under way
          requests, \* requests so far
          epoch,    \* history: requests, and answers that change what views show
          must,     \* history: the request whose effect a view has to show
          stopped   \* history: the user has cancelled this clone

vars == <<loads, rows, view, local, config, clone, triage, skills, flight,
          requests, epoch, must, stopped>>

(* viewLoadState: loads and rows of a view are plain values.                *)
Fresh(s) == s.has /\ s.fresh
Started(s) == [s EXCEPT !.gen = @ + 1, !.loading = TRUE, !.ok = FALSE]
Invalidated(s) ==
    [s EXCEPT !.gen = @ + 1, !.loading = FALSE, !.ok = FALSE, !.fresh = FALSE]

\* Seeded fault: a late result is accepted.
AcceptsLate(ls, v, gen) == gen <= ls[v].gen

(* applyViewResult accepts the current generation only.                    *)
Accepts(ls, v, gen) == gen = ls[v].gen

Result(s, outcome) ==
    [s EXCEPT !.loading = FALSE, !.ok = outcome = "ok",
              !.has = @ \/ outcome # "failed", !.fresh = outcome = "ok"]
Applied(ls, v, gen, outcome) ==
    IF Accepts(ls, v, gen) THEN [ls EXCEPT ![v] = Result(@, outcome)] ELSE ls

(* prepareRepoDependentsForReload *)
Prepared(ls) ==
    [v \in Views |->
        IF v \notin Dependents THEN ls[v]
        ELSE IF ls[v].loading \/ view = v THEN Started(ls[v])
        ELSE IF ls[v].has THEN Invalidated(ls[v]) ELSE ls[v]]

BeginViewLoad(ls, v) ==
    LET before == IF v = "repos" THEN Prepared(ls) ELSE ls
    IN  [before EXCEPT ![v] = Started(@)]

BeginLocalLoads(ls) ==
    LET before == Prepared(ls)
    IN  [v \in Views |-> IF v \in Local THEN Started(before[v]) ELSE before[v]]

(* viewWaitsForRepos, dependentReposUnavailable *)
Waits(ls, v) == v \in Dependents /\ ls["repos"].loading
Unavailable(ls, v) == v \in Dependents /\ ~ls["repos"].loading /\ ~Fresh(ls["repos"])

(* A requested view: it fails at once, waits for REPOS, or is read.        *)
Requested(ls, v) ==
    LET begun == BeginViewLoad(ls, v)
    IN  IF Unavailable(begun, v) THEN [begun EXCEPT ![v] = Result(@, "failed")] ELSE begun

(* A reader of one view, and what it may answer; its rows answer the       *)
(* request `since`, and use the REPOS rows `src`.                          *)
Read(ls, v, since, src) ==
    [kind |-> "read", v |-> v, gen |-> ls[v].gen, since |-> since,
     src |-> IF v \in Dependents THEN src ELSE 0, answers |-> Outcomes(v)]
\* Seeded fault: a hidden view that has waited is not read.
ReadsShown(ls, which, src) ==
    {Read(ls, v, epoch', src) :
        v \in {w \in which : ls[w].loading /\ ~Waits(ls, w) /\ (w \in Dependents => w = view)}}

Reads(ls, which, src) ==
    {Read(ls, v, epoch', src) : v \in {w \in which : ls[w].loading /\ ~Waits(ls, w)}}

(* The shared stream of TASKS, REPOS and TRIES, see tuiLocalLoader.Start.  *)
Stream(ls) ==
    [kind |-> "stream", cycle |-> local'.gen, gens |-> [v \in Local |-> ls[v].gen],
     since |-> epoch', left |-> Local]
Pair(ls) ==
    [kind |-> "pair", gens |-> [v \in {"tries", "repos"} |-> ls[v].gen], since |-> epoch']
Config(remote) == [kind |-> "config", gen |-> config'.gen, remote |-> remote]
Cache(ls) ==
    [kind |-> "cache", gen |-> ls["remote"].gen,
     since |-> IF ls["remote"].has THEN rows["remote"].since ELSE 0]

\* Seeded fault: a hidden view keeps its snapshot.
AfterReposShown(ls, outcome) ==
    [v \in Views |->
        IF v \in Dependents /\ (ls[v].loading \/ view = v)
        THEN IF outcome = "ok" THEN Started(ls[v]) ELSE Result(Started(ls[v]), "failed")
        ELSE ls[v]]

(* afterReposResult *)
AfterRepos(ls, outcome) ==
    [v \in Views |->
        IF v \notin Dependents THEN ls[v]
        ELSE IF ls[v].loading \/ view = v
             THEN IF outcome = "ok" THEN Started(ls[v]) ELSE Result(Started(ls[v]), "failed")
        ELSE IF ls[v].has THEN Invalidated(ls[v]) ELSE ls[v]]

(* Rows of a view, replaced by an accepted result that holds any.          *)
Shown(v, gen, outcome, since, src) ==
    IF Accepts(loads, v, gen) /\ outcome # "failed"
    THEN [since |-> since, id |-> gen, src |-> src] ELSE rows[v]

(* The clone: `min` is the first REPOS generation that sees it, `via` the  *)
(* read its cancel function stops.                                         *)
NoClone == [phase |-> "idle", canceling |-> FALSE, open |-> FALSE,
            min |-> 0, since |-> 0, via |-> "none"]
Following(c, via) == IF c.phase = "refreshing" THEN [c EXCEPT !.via = via] ELSE c

(* finishRemoteCloneRefresh: `gone` when the checkout has disappeared.     *)
FinishedRefresh(c, gen, outcome, gone) ==
    IF c.phase # "refreshing" \/ gen < c.min THEN c
    ELSE IF c.canceling \/ ~c.open \/ (gone /\ outcome # "failed") THEN NoClone
    ELSE [c EXCEPT !.phase = "opening"]

\* Seeded fault: any stream's end ends the clone.
AnyStream(c, gen) == IF c.phase # "refreshing" THEN c ELSE NoClone

(* finishRemoteCloneStream *)
FinishedStream(c, gen) ==
    IF c.phase # "refreshing" \/ gen < c.min THEN c ELSE NoClone

-----------------------------------------------------------------------------
(* BeginLoading and Init: the shared stream, and the cached REMOTE rows.   *)
NothingLoaded == [gen |-> 0, loading |-> FALSE, has |-> FALSE, fresh |-> FALSE, ok |-> FALSE]
Init ==
    /\ loads = [v \in Views |-> IF v \in Local THEN Started(NothingLoaded) ELSE NothingLoaded]
    /\ rows = [v \in Views |-> [since |-> 0, id |-> 0, src |-> 0]]
    /\ view = "other"
    /\ local = [gen |-> 1, live |-> TRUE]
    /\ config = [gen |-> 0, waiting |-> FALSE]
    /\ clone = NoClone
    /\ triage = -1
    /\ skills = [err |-> FALSE, checking |-> FALSE]
    /\ flight = {[kind |-> "stream", cycle |-> 1, gens |-> [v \in Local |-> 1],
                  since |-> 0, left |-> Local],
                 [kind |-> "cache", gen |-> 0, since |-> 0]}
    /\ requests = 0
    /\ epoch = 0
    /\ must = [v \in Views |-> 0]
    /\ stopped = FALSE

(* Requests.  Keys reach the dashboard unless a triage has the terminal;   *)
(* while a clone runs only those that move about or cancel it do anything. *)
Running == clone.phase # "left"
Listening == triage = -1 /\ Running
Keys == Listening /\ clone.phase = "idle"
Demanded ==
    /\ Running /\ requests < MaxRequests
    /\ requests' = requests + 1
    /\ epoch' = epoch + 1
Demand(which) ==
    /\ Demanded
    /\ must' = [v \in Views |-> IF v \in which THEN epoch + 1 ELSE must[v]]
Keep == UNCHANGED <<view, triage, skills, stopped>>

(* A request for one view that waits for REPOS when it has to.             *)
Request(v, which) ==
    /\ Demand(which)
    /\ loads' = Requested(loads, v)
    /\ flight' = flight \cup Reads(loads', {v}, rows["repos"].id)
    /\ UNCHANGED <<rows, local, config, clone>>

(* afterViewSwitch, viewNeedsLoad *)
NeedsLoad(s) == ~s.loading /\ ~Fresh(s)
Visit(v) ==
    /\ Listening /\ view # v
    /\ view' = v
    /\ v # "other" => ~NeedsLoad(loads[v])
    /\ UNCHANGED <<loads, rows, local, config, clone, triage, skills, flight, requests, epoch, must, stopped>>
VisitLoading(v) ==
    /\ Listening /\ view # v
    /\ view' = v
    /\ NeedsLoad(loads[v])
    /\ Request(v, {})
    /\ UNCHANGED <<triage, skills, stopped>>

(* r on SKILLS or MCP, and the end of an edit of a file of theirs.         *)
Refresh(v) == Keys /\ view = v /\ Request(v, {v}) /\ Keep

(* toggleCapabilityScope *)
ToggleScope ==
    LET reset == [v \in Views |->
            IF v \in Dependents THEN [NothingLoaded EXCEPT !.gen = loads[v].gen + 1]
            ELSE loads[v]]
    IN  /\ Keys /\ view \in Dependents
        /\ Demand(Dependents)
        /\ loads' = Requested(reset, view)
        /\ flight' = flight \cup Reads(loads', {view}, rows["repos"].id)
        /\ skills' = [err |-> FALSE, checking |-> FALSE]
        /\ UNCHANGED <<rows, view, local, config, clone, triage, stopped>>

(* beginConfigLoad by r, or at the end of an edit of the configuration.    *)
ReloadConfig ==
    /\ Keys /\ view \notin Dependents
    /\ Demand({})
    /\ config' = [gen |-> config.gen + 1, waiting |-> TRUE]
    /\ flight' = flight \cup {Config(view = "remote")}
    /\ UNCHANGED <<loads, rows, local, clone>> /\ Keep

(* A command of the dashboard has changed something: local data is read    *)
(* again through the shared stream.                                        *)
LocalLoads ==
    /\ loads' = BeginLocalLoads(loads)
    /\ local' = [gen |-> local.gen + 1, live |-> TRUE]
    /\ clone' = Following(clone, "stream")
ActionDone ==
    /\ Demand(Local \cup Dependents)
    /\ LocalLoads
    /\ flight' = flight \cup {Stream(loads')}
    /\ UNCHANGED <<rows, config>> /\ Keep

(* tryActionMsg: TRIES and REPOS are read one after the other, and         *)
(* answered together.                                                      *)
TryDone ==
    /\ Demand({"tries", "repos"} \cup Dependents)
    /\ loads' = BeginViewLoad(BeginViewLoad(loads, "tries"), "repos")
    /\ clone' = Following(clone, "read")
    /\ flight' = flight \cup {Pair(loads')}
    /\ UNCHANGED <<rows, local, config>> /\ Keep

(* One view is read without a look at REPOS: after an update of a skill, a *)
(* workflow, a note, a Try, or to check on an issue again.                 *)
ReadNow(v) ==
    /\ v # "remote"
    /\ Demand(IF v = "repos" THEN {v} \cup Dependents ELSE {v})
    /\ loads' = BeginViewLoad(loads, v)
    /\ clone' = IF v = "repos" THEN Following(clone, "read") ELSE clone
    /\ flight' = flight \cup {Read(loads', v, epoch', rows["repos"].id)}
    /\ UNCHANGED <<rows, local, config>> /\ Keep

(* recheckIssueView reads the cache of REMOTE, under its generation.       *)
RecheckRemote ==
    /\ Keys /\ "recheck" \in Rare
    /\ Demand({})
    /\ flight' = flight \cup {Cache(loads)}
    /\ UNCHANGED <<loads, rows, local, config, clone>> /\ Keep

(* checkSkills: the rows on the screen are answered again, with the state  *)
(* of their sources.                                                       *)
CheckMsg(ls) ==
    [kind |-> "read", v |-> "skills", gen |-> ls["skills"].gen, since |-> rows["skills"].since,
     src |-> rows["skills"].src, answers |-> IF skills.err THEN {"partial"} ELSE {"ok"}]
CheckSkills ==
    /\ Keys /\ "check" \in Rare /\ view = "skills"
    /\ ~loads["skills"].loading /\ loads["skills"].has
    /\ Demand({})
    /\ loads' = BeginViewLoad(loads, "skills")
    /\ skills' = [skills EXCEPT !.checking = TRUE]
    /\ flight' = flight \cup {CheckMsg(loads')}
    /\ UNCHANGED <<rows, view, local, config, clone, triage, stopped>>

(* reposReadyForClone, beginRemoteClone *)
Ready(s) == ~s.loading /\ Fresh(s) /\ s.ok
StartClone(open) ==
    /\ Keys /\ view = "remote" /\ loads["remote"].has
    /\ ~config.waiting /\ Ready(loads["repos"]) /\ Ready(loads["tries"])
    /\ Demand({})
    /\ clone' = [NoClone EXCEPT !.phase = "running", !.open = open]
    /\ stopped' = FALSE
    /\ UNCHANGED <<loads, rows, view, local, config, triage, skills, flight>>

(* q while a clone is active.                                              *)
CancelClone ==
    /\ Listening /\ clone.phase # "idle" /\ ~clone.canceling
    /\ clone.phase = "refreshing" /\ clone.via = "stream" => "cancel" \in Rare
    /\ clone' = [clone EXCEPT !.canceling = TRUE]
    /\ local' = IF clone.phase = "refreshing" /\ clone.via = "stream"
                THEN [local EXCEPT !.live = FALSE] ELSE local
    /\ stopped' = TRUE
    /\ UNCHANGED <<loads, rows, view, config, triage, skills, flight, requests, epoch, must>>

-----------------------------------------------------------------------------
(* Answers.                                                                *)
Message(x, kind) == Running /\ x.kind = kind

(* remoteCloneMsg *)
CloneFailed ==
    /\ clone.phase = "running"
    /\ clone' = NoClone
    /\ UNCHANGED <<loads, rows, local, config, flight, requests, epoch, must>> /\ Keep

Cloned ==
    /\ clone.phase = "running"
    /\ UNCHANGED requests
    /\ epoch' = epoch + 1
    /\ must' = [v \in Views |-> IF v \in {"repos"} \cup Dependents THEN epoch + 1 ELSE must[v]]
    /\ loads' = BeginViewLoad(loads, "repos")
    /\ clone' = [clone EXCEPT !.phase = "refreshing", !.canceling = FALSE,
                              !.open = @ /\ ~clone.canceling, !.min = loads'["repos"].gen,
                              !.since = epoch', !.via = "read"]
    /\ flight' = flight \cup {Read(loads', "repos", epoch', 0)}
    /\ UNCHANGED <<rows, local, config>> /\ Keep

(* remoteCloneOpenMsg: the dashboard is left, unless that was cancelled.   *)
CloneOpened ==
    /\ clone.phase = "opening"
    /\ clone' = IF clone.canceling THEN NoClone ELSE [clone EXCEPT !.phase = "left"]
    /\ UNCHANGED <<loads, rows, local, config, flight, requests, epoch, must>> /\ Keep
OpenFailed ==
    /\ clone.phase = "opening"
    /\ clone' = NoClone
    /\ UNCHANGED <<loads, rows, local, config, flight, requests, epoch, must>> /\ Keep

(* An accepted REPOS result ends a clone's refresh and lets the dependent  *)
(* views go on.                                                            *)
ReposResult(ls, gen, outcome, gone, rest) ==
    IF Accepts(loads, "repos", gen)
    THEN /\ loads' = AfterRepos(ls, outcome)
         /\ clone' = FinishedRefresh(clone, gen, outcome, gone)
         /\ flight' = rest \cup Reads(loads', Dependents, rows'["repos"].id)
    ELSE loads' = ls /\ flight' = rest /\ UNCHANGED clone

Answer(x, outcome, gone) ==
    /\ Message(x, "read") /\ outcome \in x.answers
    /\ rows' = [rows EXCEPT ![x.v] = Shown(x.v, x.gen, outcome, x.since, x.src)]
    /\ UNCHANGED <<view, local, config, triage, requests, epoch, must, stopped>>
    /\ IF x.v = "repos"
       THEN ReposResult(Applied(loads, x.v, x.gen, outcome), x.gen, outcome, gone, flight \ {x})
       ELSE /\ loads' = Applied(loads, x.v, x.gen, outcome)
            /\ flight' = flight \ {x}
            /\ UNCHANGED clone
    /\ skills' = IF x.v = "skills" /\ Accepts(loads, x.v, x.gen)
                 THEN [err |-> outcome # "ok", checking |-> FALSE] ELSE skills

PairAnswer(x, outcomes, gone) ==
    LET triesApplied == Applied(loads, "tries", x.gens["tries"], outcomes["tries"])
    IN  /\ Message(x, "pair")
        /\ rows' = [v \in Views |-> IF v \in {"tries", "repos"}
                        THEN Shown(v, x.gens[v], outcomes[v], x.since, 0) ELSE rows[v]]
        /\ UNCHANGED <<local, config, requests, epoch, must>>
        /\ ReposResult(Applied(triesApplied, "repos", x.gens["repos"], outcomes["repos"]),
                       x.gens["repos"], outcomes["repos"], gone, flight \ {x})
        /\ Keep

(* localMsg: one result of the stream, and its end.  A cancelled producer  *)
(* may drop what it has not sent.                                          *)
StreamAnswer(x, v, outcome, gone) ==
    LET rest == (flight \ {x}) \cup {[x EXCEPT !.left = @ \ {v}]}
        ls == Applied(loads, v, x.gens[v], outcome)
    IN  /\ Message(x, "stream") /\ v \in x.left
        /\ rows' = [rows EXCEPT ![v] = Shown(v, x.gens[v], outcome, x.since, 0)]
        /\ UNCHANGED <<local, config, requests, epoch, must>>
        /\ IF v = "repos" THEN ReposResult(ls, x.gens[v], outcome, gone, rest)
           ELSE loads' = ls /\ flight' = rest /\ UNCHANGED clone
        /\ Keep

Current(x) == x.cycle = local.gen
StreamEnd(x) ==
    /\ Message(x, "stream")
    /\ x.left # {} => ~Current(x) \/ ~local.live
    /\ flight' = flight \ {x}
    /\ local' = IF Current(x) THEN [local EXCEPT !.live = FALSE] ELSE local
    /\ clone' = IF Current(x) THEN FinishedStream(clone, x.gens["repos"]) ELSE clone
    /\ UNCHANGED <<loads, rows, config, requests, epoch, must>> /\ Keep

(* configMsg: only the awaited answer is applied; every view then has to   *)
(* show what the new configuration says, REMOTE when it was on the screen. *)
ConfigFailed(x) ==
    /\ Message(x, "config")
    /\ flight' = flight \ {x}
    /\ config' = IF x.gen = config.gen THEN [config EXCEPT !.waiting = FALSE] ELSE config
    /\ UNCHANGED <<loads, rows, local, clone, requests, epoch, must>> /\ Keep
ConfigApplied(x) ==
    LET ls == BeginLocalLoads(loads)
    IN  /\ Message(x, "config") /\ x.gen = config.gen
        /\ config' = [config EXCEPT !.waiting = FALSE]
        /\ UNCHANGED requests
        /\ epoch' = epoch + 1
        /\ must' = [v \in Views |->
              IF v = "remote" /\ ~x.remote THEN must[v] ELSE epoch + 1]
        /\ loads' = IF x.remote THEN BeginViewLoad(ls, "remote")
                    ELSE [ls EXCEPT !["remote"] = Invalidated(@)]
        /\ local' = [gen |-> local.gen + 1, live |-> TRUE]
        /\ clone' = Following(clone, "stream")
        /\ flight' = (flight \ {x}) \cup {Stream(loads')} \cup
                     (IF x.remote THEN {Read(loads', "remote", epoch', 0)} ELSE {})
        /\ UNCHANGED rows /\ Keep

(* remoteCacheMsg, applyCacheSeed *)
CacheAnswer(x, stale) ==
    /\ Message(x, "cache")
    /\ flight' = flight \ {x}
    /\ rows' = [rows EXCEPT !["remote"] = Shown("remote", x.gen, "ok", x.since, 0)]
    /\ loads' = IF Accepts(loads, "remote", x.gen)
                THEN [loads EXCEPT !["remote"].has = TRUE, !["remote"].fresh = ~stale,
                                   !["remote"].ok = TRUE]
                ELSE loads
    /\ UNCHANGED <<local, config, clone, requests, epoch, must>> /\ Keep

-----------------------------------------------------------------------------
(* openTriage gives the terminal away.  applyTriageDelta merges what it    *)
(* brings back into the rows and ends the local reads under way, unless    *)
(* those are newer than the triage.                                        *)
TriageOpen ==
    /\ Keys /\ "triage" \in Rare
    /\ view \notin Dependents
    /\ Demand({})
    /\ triage' = local.gen
    /\ UNCHANGED <<loads, rows, view, local, config, clone, skills, flight, stopped>>
Merged(s, valid) ==
    LET ended == [s EXCEPT !.gen = @ + 1, !.loading = FALSE]
    IN  IF valid /\ s.has THEN ended ELSE Invalidated(ended)
TriageReturn(valid) ==
    /\ Running /\ triage # -1
    /\ triage' = -1
    /\ IF triage = local.gen
       THEN /\ local' = [gen |-> local.gen + 1, live |-> FALSE]
            /\ loads' = [v \in Views |->
                  IF v \in Local THEN Merged(loads[v], v \in valid) ELSE loads[v]]
            /\ rows' = IF "repos" \in valid
                       THEN [rows EXCEPT !["repos"].id = loads'["repos"].gen] ELSE rows
       ELSE UNCHANGED <<local, loads, rows>>
    /\ UNCHANGED <<view, config, clone, skills, flight, requests, epoch, must, stopped>>

(* ResumeFleetHandoff: the program has stopped for a session on another    *)
(* machine and starts again.  No message of the old one arrives any more;  *)
(* what was being read is read again, and a REMOTE view without rows may   *)
(* show the cached ones, as at the first start.                            *)
Interrupted == {v \in Views : loads[v].loading}
Handoff ==
    LET ended == [v \in Views |-> IF v \in Interrupted THEN Invalidated(loads[v]) ELSE loads[v]]
        repos == IF "repos" \in Interrupted THEN BeginViewLoad(ended, "repos") ELSE ended
        begun == [v \in Views |-> IF v \in Interrupted \ {"repos"} THEN Started(repos[v])
                                  ELSE repos[v]]
        noted == IF skills.checking
                 THEN [begun EXCEPT !["skills"] = Invalidated(@)] ELSE begun
        cached == ~loads["remote"].has /\ "remote" \notin Interrupted
    IN  /\ Keys /\ view = "other"
        /\ Demanded
        /\ must' = IF cached THEN [must EXCEPT !["remote"] = 0] ELSE must
        /\ local' = [gen |-> local.gen + 1, live |-> FALSE]
        /\ config' = IF config.waiting THEN [config EXCEPT !.gen = @ + 1] ELSE config
        /\ loads' = noted
        /\ flight' = Reads(noted, Interrupted, rows["repos"].id) \cup
              (IF config.waiting THEN {Config(FALSE)} ELSE {}) \cup
              (IF cached THEN {Cache(noted)} ELSE {}) \cup
              (IF skills.checking THEN {CheckMsg(noted)} ELSE {})
        /\ UNCHANGED <<rows, clone>> /\ Keep

-----------------------------------------------------------------------------
Requests ==
    \/ \E v \in {"other", "remote"} \cup Dependents : Visit(v)
    \/ \E v \in {"remote"} \cup Dependents : VisitLoading(v)
    \/ \E v \in Dependents : Refresh(v)
    \/ ToggleScope
    \/ ReloadConfig
    \/ ActionDone
    \/ TryDone
    \/ \E v \in Views : ReadNow(v)
    \/ RecheckRemote
    \/ CheckSkills
    \/ \E open \in BOOLEAN : StartClone(open)
    \/ CancelClone
    \/ TriageOpen
    \/ Handoff

StreamAnswers(x) ==
    \/ \E v \in Local, gone \in BOOLEAN : \E outcome \in Outcomes(v) : StreamAnswer(x, v, outcome, gone)
    \/ StreamEnd(x)
Answered(x) ==
    \/ \E outcome \in {"ok", "partial", "failed"}, gone \in BOOLEAN : Answer(x, outcome, gone)
    \/ \E tries \in Outcomes("tries"), repos \in Outcomes("repos"), gone \in BOOLEAN :
          PairAnswer(x, [tries |-> tries, repos |-> repos], gone)
    \/ StreamAnswers(x)
    \/ ConfigFailed(x) \/ ConfigApplied(x)
    \/ \E stale \in BOOLEAN : CacheAnswer(x, stale)
Answers == \E x \in flight : Answered(x)
CloneAnswers == CloneFailed \/ Cloned \/ CloneOpened \/ OpenFailed
Triaged == \E valid \in SUBSET Local : TriageReturn(valid)

Next == Requests \/ Answers \/ CloneAnswers \/ Triaged

(* The runtime runs every command it is given and delivers its message; a  *)
(* read may take long, but the readers have deadlines and end.             *)
Spec == Init /\ [][Next]_vars
FairSpec ==
    /\ Spec
    /\ WF_vars(Answers)
    /\ WF_vars(CloneAnswers)
    /\ WF_vars(Triaged)

-----------------------------------------------------------------------------
(* Types of the views' states, the clone and the messages.                 *)
TypeOK ==
    /\ DOMAIN loads = Views /\ DOMAIN rows = Views
    /\ \A v \in Views :
          /\ loads[v].gen \in Nat
          /\ loads[v].ok => loads[v].has
          /\ loads[v].fresh => loads[v].has
          /\ rows[v].since <= epoch
    /\ view \in {"other", "remote"} \cup Dependents
    /\ clone.phase \in {"idle", "running", "refreshing", "opening", "left"}
    /\ triage \in Nat \cup {-1}
    /\ \A x \in flight : x.kind \in {"read", "pair", "stream", "config", "cache"}

(* A view that is not loading and calls its rows fresh shows the effect of *)
(* the last request that asked for them: "`r` supersedes the previous      *)
(* read, late results are ignored".                                        *)
FreshIsCurrent ==
    \A v \in Views : ~loads[v].loading /\ Fresh(loads[v]) => rows[v].since >= must[v]

(* SKILLS and MCP "load after the current REPOS generation is accepted":   *)
(* their fresh rows are of the repositories REPOS shows.                   *)
DependentsFollow ==
    \A v \in Dependents :
        ~loads["repos"].loading /\ ~loads[v].loading /\ Fresh(loads[v])
            => rows[v].src = rows["repos"].id

(* A spinner turns only while a message that stops it is under way, or     *)
(* while REPOS is, for a view that waits for it.                           *)
Answering(x, v) ==
    \/ x.kind = "read" /\ x.v = v /\ x.gen = loads[v].gen
    \/ x.kind = "pair" /\ v \in DOMAIN x.gens /\ x.gens[v] = loads[v].gen
    \/ x.kind = "stream" /\ v \in x.left /\ x.gens[v] = loads[v].gen
NoEndlessWait ==
    \A v \in Views : loads[v].loading => Waits(loads, v) \/ \E x \in flight : Answering(x, v)

(* A clone's refresh is never left without anything that can end it.       *)
CloneWatched ==
    clone.phase = "refreshing" =>
        \E x \in flight :
            \/ Answering(x, "repos")
            \/ x.kind = "stream" /\ Current(x) /\ x.gens["repos"] >= clone.min

(* What a finished clone reports of the repositories was read after it.    *)
CloneReadAgain ==
    [][clone.phase = "refreshing" /\ clone'.phase # "refreshing" /\ rows'["repos"] # rows["repos"]
         => rows'["repos"].since >= clone.since]_vars

(* A clone is given up while REPOS is being read only if the user has      *)
(* cancelled it, or a stream begun after it ends whose own REPOS result is *)
(* superseded.                                                             *)
CloneNotAbandoned ==
    [][clone.phase = "refreshing" /\ clone'.phase = "idle"
         => \/ ~loads'["repos"].loading \/ stopped
            \/ \E x \in flight \ flight' :
                  /\ x.kind = "stream" /\ x.gens["repos"] >= clone.min
                  /\ x.gens["repos"] < loads["repos"].gen]_vars

(* Never: another command's read of REPOS would still finish the clone.    *)
CloneWaits ==
    [][clone.phase = "refreshing" /\ clone'.phase = "idle"
         => ~loads'["repos"].loading \/ stopped]_vars

(* The dashboard is never left for a clone the user has cancelled.         *)
CancelStays == clone.phase = "left" => ~stopped

(* Every view comes to rest, and every clone to its end.                   *)
Settles == <>[](\A v \in Views : ~loads[v].loading) \/ <>(clone.phase = "left")
CloneEnds == (clone.phase # "idle") ~> (clone.phase \in {"idle", "left"})
=============================================================================
