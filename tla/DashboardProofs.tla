------------------------------- MODULE DashboardProofs -------------------------------
(***************************************************************************)
(* Proofs about the dashboard, for all sets of views and any number of     *)
(* requests.                                                               *)
(*                                                                         *)
(* Every step is reduced to what it does to messages and views (Does):     *)
(* messages are answered, C, of which R is left, and N are new (Comes);    *)
(* a view gets a new generation or is closed by its only answer (Shifts).  *)
(* A request starts views or ends them as stale (Asks); an answer closes   *)
(* the views it is awaited by (Brings) and, when it holds REPOS, turns     *)
(* those computed from them (Turns).                                       *)
(*                                                                         *)
(* From these effects alone: no answer is ahead of its view, and only one  *)
(* is awaited (Messages); an awaited answer is of the last request (Since) *)
(* and of the REPOS rows that are shown (Follows); and what a view waits   *)
(* for is under way (Alive).  A triage, a check of the skills, a re-check  *)
(* of an issue and a cancelled stream break these: Calm and the hypotheses *)
(* of the theorems say which of them do not happen.                        *)
(***************************************************************************)
EXTENDS MCDashboard, TLAPS

-----------------------------------------------------------------------------
(***************************************************************************)
(* Views and their states.                                                 *)
(***************************************************************************)

ViewState == [gen : Nat, loading : BOOLEAN, has : BOOLEAN, fresh : BOOLEAN, ok : BOOLEAN]
Loads == [Views -> ViewState]

\* From one state of a view to the next: a read begins, or what was there ends
\* without being fresh.
Starts(a, b) == b.gen > a.gen /\ b.loading
Ends(a, b) == b.gen > a.gen /\ ~b.loading /\ ~Fresh(b)

\* A view that has never shown anything.
Blank(s) == ~s.loading /\ ~s.has

\* What a read of REPOS does to the views computed from it.
Turns(a, b) == Starts(a, b) \/ Ends(a, b) \/ (b = a /\ Blank(a))

LEMMA ViewsAre ==
  /\ "repos" \in Local /\ "tries" \in Local /\ Local \subseteq Views
  /\ "repos" \in Views /\ "tries" \in Views /\ "remote" \in Views
  /\ "remote" \notin Local /\ "remote" \notin Dependents
  /\ Dependents \subseteq Views /\ \A v \in Dependents : v \notin Local /\ v # "repos" /\ v # "tries"
  /\ \A v \in Views : v \in Local \/ v = "remote" \/ v \in Dependents
  /\ \A v \in Local : v # "remote" /\ v \notin Dependents
BY DashboardAssumption DEF Views, Local

LEMMA States ==
  ASSUME NEW s \in ViewState
  PROVE  /\ Started(s) \in ViewState /\ Starts(s, Started(s)) /\ Started(s).has = s.has
         /\ Started(s).gen = s.gen + 1
         /\ Invalidated(s) \in ViewState /\ Ends(s, Invalidated(s))
         /\ \A outcome : /\ Result(s, outcome) \in ViewState
                         /\ Result(s, outcome).gen = s.gen /\ ~Result(s, outcome).loading
                         /\ Result(s, outcome).fresh = (outcome = "ok")
<1>1. s.gen \in Nat /\ s.loading \in BOOLEAN /\ s.has \in BOOLEAN /\ s.fresh \in BOOLEAN /\ s.ok \in BOOLEAN
  BY DEF ViewState
<1>2. /\ Started(s) \in ViewState /\ Started(s).gen = s.gen + 1 /\ Started(s).loading
      /\ Started(s).has = s.has
  <2>1. s.gen + 1 \in Nat
    BY <1>1
  <2>2. ASSUME NEW n \in Nat
        PROVE  LET t == [s EXCEPT !.gen = n, !.loading = TRUE, !.ok = FALSE]
               IN  t \in ViewState /\ t.gen = n /\ t.loading /\ t.has = s.has
    BY DEF ViewState
  <2> QED BY <2>1, <2>2 DEF Started
<1>3. /\ Invalidated(s) \in ViewState /\ Invalidated(s).gen = s.gen + 1 /\ ~Invalidated(s).loading
      /\ ~Invalidated(s).fresh
  <2>1. s.gen + 1 \in Nat
    BY <1>1
  <2>2. ASSUME NEW n \in Nat
        PROVE  LET t == [s EXCEPT !.gen = n, !.loading = FALSE, !.ok = FALSE, !.fresh = FALSE]
               IN  t \in ViewState /\ t.gen = n /\ ~t.loading /\ ~t.fresh
    BY DEF ViewState
  <2> QED BY <2>1, <2>2 DEF Invalidated
<1>4. ASSUME NEW outcome
      PROVE  /\ Result(s, outcome) \in ViewState
             /\ Result(s, outcome).gen = s.gen /\ ~Result(s, outcome).loading
             /\ Result(s, outcome).fresh = (outcome = "ok")
  <2>1. (outcome = "ok") \in BOOLEAN /\ (s.has \/ outcome # "failed") \in BOOLEAN
    OBVIOUS
  <2>2. ASSUME NEW ok \in BOOLEAN, NEW has \in BOOLEAN
        PROVE  LET t == [s EXCEPT !.loading = FALSE, !.ok = ok, !.has = has, !.fresh = ok]
               IN  t \in ViewState /\ t.gen = s.gen /\ ~t.loading /\ t.fresh = ok
    BY DEF ViewState
  <2> QED BY <2>1, <2>2 DEF Result
<1> QED BY <1>1, <1>2, <1>3, <1>4 DEF Starts, Ends, Fresh

LEMMA PreparedIs ==
  ASSUME NEW ls \in Loads
  PROVE  /\ Prepared(ls) \in Loads
         /\ \A v \in Views \ Dependents : Prepared(ls)[v] = ls[v]
         /\ \A v \in Dependents : Turns(ls[v], Prepared(ls)[v])
<1>1. \A v \in Views : ls[v] \in ViewState
  BY DEF Loads
<1>2. \A v \in Views : Prepared(ls)[v] \in ViewState
  BY <1>1, States DEF Prepared
<1>3. Prepared(ls) \in Loads
  BY <1>2 DEF Loads, Prepared
<1>4. \A v \in Dependents : Turns(ls[v], Prepared(ls)[v])
  BY <1>1, States, ViewsAre DEF Prepared, Turns, Blank
<1> QED BY <1>3, <1>4 DEF Prepared

LEMMA BeginIs ==
  ASSUME NEW ls \in Loads, NEW w \in Views
  PROVE  /\ BeginViewLoad(ls, w) \in Loads
         /\ Starts(ls[w], BeginViewLoad(ls, w)[w])
         /\ \A v \in Views \ {w} :
               IF w = "repos" /\ v \in Dependents THEN Turns(ls[v], BeginViewLoad(ls, w)[v])
               ELSE BeginViewLoad(ls, w)[v] = ls[v]
<1>1. CASE w = "repos"
  <2>1. BeginViewLoad(ls, w) = [Prepared(ls) EXCEPT ![w] = Started(@)]
    BY <1>1 DEF BeginViewLoad
  <2>2. Prepared(ls)[w] = ls[w] /\ ls[w] \in ViewState
    BY <1>1, PreparedIs, ViewsAre DEF Loads
  <2>3. Started(ls[w]) \in ViewState /\ Starts(ls[w], Started(ls[w]))
    BY <2>2, States
  <2> QED BY <2>1, <2>2, <2>3, <1>1, PreparedIs, ViewsAre DEF Loads
<1>2. CASE w # "repos"
  <2>1. BeginViewLoad(ls, w) = [ls EXCEPT ![w] = Started(@)]
    BY <1>2 DEF BeginViewLoad
  <2>2. Started(ls[w]) \in ViewState /\ Starts(ls[w], Started(ls[w]))
    BY States DEF Loads
  <2> QED BY <2>1, <2>2, <1>2 DEF Loads
<1> QED BY <1>1, <1>2

LEMMA BeginLocalIs ==
  ASSUME NEW ls \in Loads
  PROVE  /\ BeginLocalLoads(ls) \in Loads
         /\ \A v \in Local : Starts(ls[v], BeginLocalLoads(ls)[v])
         /\ \A v \in Dependents : Turns(ls[v], BeginLocalLoads(ls)[v])
         /\ BeginLocalLoads(ls)["remote"] = ls["remote"]
<1>1. BeginLocalLoads(ls) = [v \in Views |-> IF v \in Local THEN Started(Prepared(ls)[v]) ELSE Prepared(ls)[v]]
  BY DEF BeginLocalLoads
<1>2. \A v \in Local : Prepared(ls)[v] = ls[v] /\ ls[v] \in ViewState
  BY PreparedIs, ViewsAre DEF Loads
<1>3. \A v \in Views : Prepared(ls)[v] \in ViewState
  BY PreparedIs DEF Loads
<1>4. \A v \in Local : Started(Prepared(ls)[v]) \in ViewState /\ Starts(ls[v], Started(Prepared(ls)[v]))
  BY <1>2, States
<1> QED BY <1>1, <1>3, <1>4, PreparedIs, ViewsAre DEF Loads

LEMMA RequestedIs ==
  ASSUME NEW ls \in Loads, NEW w \in Views, w # "repos"
  PROVE  /\ Requested(ls, w) \in Loads
         /\ Starts(ls[w], Requested(ls, w)[w]) \/ Ends(ls[w], Requested(ls, w)[w])
         /\ \A v \in Views \ {w} : Requested(ls, w)[v] = ls[v]
<1> DEFINE begun == BeginViewLoad(ls, w)
<1>1. begun \in Loads /\ Starts(ls[w], begun[w]) /\ \A v \in Views \ {w} : begun[v] = ls[v]
  BY BeginIs
<1>2. begun[w] \in ViewState /\ ls[w] \in ViewState
  BY <1>1 DEF Loads
<1>3. /\ Result(begun[w], "failed") \in ViewState /\ Ends(ls[w], Result(begun[w], "failed"))
  BY <1>1, <1>2, States DEF Ends, Starts, Fresh
<1>4. CASE Unavailable(begun, w)
  <2>1. Requested(ls, w) = [begun EXCEPT ![w] = Result(@, "failed")]
    BY <1>4 DEF Requested
  <2> QED BY <2>1, <1>1, <1>3 DEF Loads
<1>5. CASE ~Unavailable(begun, w)
  BY <1>5, <1>1 DEF Requested
<1> QED BY <1>4, <1>5

LEMMA AfterReposIs ==
  ASSUME NEW ls \in Loads, NEW outcome
  PROVE  /\ AfterRepos(ls, outcome) \in Loads
         /\ \A v \in Views \ Dependents : AfterRepos(ls, outcome)[v] = ls[v]
         /\ \A v \in Dependents : Turns(ls[v], AfterRepos(ls, outcome)[v])
<1>1. \A v \in Views : ls[v] \in ViewState
  BY DEF Loads
<1>2. \A v \in Views : /\ Started(ls[v]) \in ViewState /\ Starts(ls[v], Started(ls[v]))
                       /\ Invalidated(ls[v]) \in ViewState /\ Ends(ls[v], Invalidated(ls[v]))
  BY <1>1, States
<1>3. \A v \in Views : /\ Result(Started(ls[v]), "failed") \in ViewState
                       /\ Ends(ls[v], Result(Started(ls[v]), "failed"))
  BY <1>2, States DEF Ends, Starts, Fresh
<1>4. \A v \in Views : AfterRepos(ls, outcome)[v] \in ViewState
  BY <1>1, <1>2, <1>3 DEF AfterRepos
<1>5. AfterRepos(ls, outcome) \in Loads
  BY <1>4 DEF Loads, AfterRepos
<1>6. \A v \in Dependents : Turns(ls[v], AfterRepos(ls, outcome)[v])
  BY <1>1, <1>2, <1>3, ViewsAre DEF AfterRepos, Turns, Blank
<1> QED BY <1>5, <1>6 DEF AfterRepos

LEMMA AppliedIs ==
  ASSUME NEW ls \in Loads, NEW w \in Views, NEW gen, NEW outcome
  PROVE  /\ Applied(ls, w, gen, outcome) \in Loads
         /\ \A v \in Views \ {w} : Applied(ls, w, gen, outcome)[v] = ls[v]
         /\ Accepts(ls, w, gen) => Applied(ls, w, gen, outcome)[w] = Result(ls[w], outcome)
         /\ ~Accepts(ls, w, gen) => Applied(ls, w, gen, outcome) = ls
<1>1. Result(ls[w], outcome) \in ViewState
  BY States DEF Loads
<1> QED BY <1>1 DEF Applied, Loads

-----------------------------------------------------------------------------
(***************************************************************************)
(* Messages.                                                               *)
(***************************************************************************)

Streams == [kind : {"stream"}, cycle : Nat, gens : [Local -> Nat], since : Nat, left : SUBSET Local]
Pairs == [kind : {"pair"}, gens : [{"tries", "repos"} -> Nat], since : Nat]
Mail(x) ==
  \/ x.kind = "read" /\ x.v \in Views /\ x.gen \in Nat /\ x.since \in Nat /\ x.src \in Nat
  \/ x \in Pairs
  \/ x \in Streams
  \/ x.kind = "config"
  \/ x.kind = "cache" /\ x.gen \in Nat /\ x.since \in Nat

\* A message brings an answer of a view, and which.
Carries(x, v) ==
  \/ x.kind = "read" /\ x.v = v
  \/ x.kind = "pair" /\ v \in {"tries", "repos"}
  \/ x.kind = "stream" /\ v \in x.left
Gen(x, v) == IF x.kind = "read" THEN x.gen ELSE x.gens[v]
Due(x, v) == Carries(x, v) /\ Gen(x, v) = loads[v].gen

CloneState ==
  [phase : {"idle", "running", "refreshing", "opening", "left"}, canceling : BOOLEAN,
   open : BOOLEAN, min : Nat, since : Nat, via : {"none", "read", "stream"}]
RowState == [since : Nat, id : Nat, src : Nat]

Types ==
  /\ loads \in Loads
  /\ rows \in [Views -> RowState]
  /\ view \in {"other", "remote"} \cup Dependents
  /\ must \in [Views -> Nat] /\ epoch \in Nat
  /\ local \in [gen : Nat, live : BOOLEAN]
  /\ clone \in CloneState
  /\ skills \in [err : BOOLEAN, checking : BOOLEAN]
  /\ skills.checking => "skills" \in Dependents /\ "check" \in Rare
  /\ triage # -1 => "triage" \in Rare
  /\ \A x \in flight : Mail(x)

\* The views every answer of which belongs to a read: a check of the skills that
\* is taken up after a hand-off does not.
Sure == {v \in Views : v # "skills" \/ "check" \notin Rare}

\* No answer is ahead of its view; the one a view waits for is the only one, and
\* the view is loading.
Messages ==
  /\ \A x \in flight : \A v \in Sure : Carries(x, v) => Gen(x, v) <= loads[v].gen
  /\ \A x \in flight : \A v \in Sure : Due(x, v) => loads[v].loading
  /\ \A x, y \in flight : \A v \in Sure : Due(x, v) /\ Due(y, v) => x = y

\* What a stream has brought is no longer awaited; and the current one is cut off
\* only by the user's cancelling a clone.
Cut(x) ==
  x.cycle = local.gen /\ ~local.live /\ x.left # {} /\ clone.phase = "refreshing" /\
      x.gens["repos"] >= clone.min => stopped
StreamsInv ==
  /\ \A x \in flight : x.kind = "stream" =>
        /\ x.cycle <= local.gen /\ Cut(x)
        /\ \A v \in Local : /\ x.gens[v] <= loads[v].gen
                            /\ v \notin x.left /\ x.gens[v] = loads[v].gen => ~loads[v].loading
  /\ \A x, y \in flight : x.kind = "stream" /\ y.kind = "stream" /\ x.cycle = y.cycle => x = y

\* What a step does to messages: C are answered or dropped, R is what is left of
\* them, and N are new.
Born(x) ==
  /\ Mail(x)
  /\ \A v \in Sure : Carries(x, v) => Starts(loads[v], loads'[v]) /\ Gen(x, v) = loads'[v].gen
  /\ x.kind = "stream" =>
        /\ local'.gen = local.gen + 1 /\ local'.live
        /\ x.cycle = local'.gen /\ x.left = Local /\ \A v \in Local : x.gens[v] = loads'[v].gen
Remnant(x, y) ==
  /\ x \in Streams /\ y \in Streams
  /\ x.cycle = y.cycle /\ x.gens = y.gens /\ x.since = y.since /\ x.left \subseteq y.left
Comes(C, R, N) ==
  /\ flight' = ((flight \ C) \cup R) \cup N /\ C \subseteq flight
  /\ \A x \in R : \E c \in C : Remnant(x, c)
  /\ \A x, y \in R : x = y
  /\ \A c, d \in C : R # {} => c = d
  /\ \A x \in N : Born(x)
  /\ \A x, y \in N : \A v \in Sure : Carries(x, v) /\ Carries(y, v) => x = y

\* What a step does to views.
Closed(v) ==
  /\ loads'[v].gen = loads[v].gen /\ ~loads'[v].loading
  /\ v \in Sure => \A x \in flight' : Carries(x, v) => Gen(x, v) # loads'[v].gen
Shifts ==
  \A v \in Views :
     \/ loads'[v].gen > loads[v].gen
     \/ loads'[v].gen = loads[v].gen /\ loads'[v].loading = loads[v].loading
     \/ Closed(v)

LEMMA Kinds ==
  ASSUME NEW x, Mail(x)
  PROVE  /\ x.kind = "stream" => x \in Streams
         /\ x.kind = "read" => x.v \in Views /\ x.gen \in Nat /\ x.since \in Nat /\ x.src \in Nat
         /\ x.kind = "pair" => x \in Pairs
         /\ x.kind = "cache" => x.gen \in Nat /\ x.since \in Nat
BY DEF Mail, Streams, Pairs

LEMMA GenType ==
  ASSUME NEW x, Mail(x), NEW v \in Views, Carries(x, v)
  PROVE  Gen(x, v) \in Nat /\ x.since \in Nat
BY Kinds DEF Carries, Gen, Streams, Pairs

LEMMA RemnantCarries ==
  ASSUME NEW x, NEW y, Remnant(x, y), NEW v
  PROVE  Carries(x, v) => Carries(y, v) /\ Gen(x, v) = Gen(y, v)
BY DEF Remnant, Carries, Gen, Streams

\* A message that is not new comes from one that was there, and no other does.
Origin(x, y, C, R) == (x = y /\ y \notin C) \/ (x \in R /\ y \in C /\ Remnant(x, y))

LEMMA Origins ==
  ASSUME NEW C, NEW R, NEW N, Comes(C, R, N)
  PROVE  /\ \A x \in flight' : x \in N \/ \E y \in flight : Origin(x, y, C, R)
         /\ \A x, y, z : Origin(x, z, C, R) /\ Origin(y, z, C, R) => x = y
         /\ \A x, y : Origin(x, y, C, R) => \A v : Carries(x, v) => Carries(y, v) /\ Gen(x, v) = Gen(y, v)
<1>1. \A x \in flight' : x \in N \/ \E y \in flight : Origin(x, y, C, R)
  BY DEF Comes, Origin
<1>2. \A x, y, z : Origin(x, z, C, R) /\ Origin(y, z, C, R) => x = y
  BY DEF Comes, Origin
<1>3. \A x, y : Origin(x, y, C, R) => \A v : Carries(x, v) => Carries(y, v) /\ Gen(x, v) = Gen(y, v)
  BY RemnantCarries DEF Origin
<1> QED BY <1>1, <1>2, <1>3

LEMMA GensGrow ==
  ASSUME Types, Types', Shifts
  PROVE  \A v \in Views : loads[v].gen \in Nat /\ loads'[v].gen \in Nat /\ loads'[v].gen >= loads[v].gen
BY DEF Types, Loads, ViewState, Shifts, Closed

LEMMA MessagesStay ==
  ASSUME Types, Types', Messages, NEW C, NEW R, NEW N, Comes(C, R, N), Shifts
  PROVE  Messages'
<1> Sure \subseteq Views
  BY DEF Sure
<1>1. \A v \in Views : loads[v].gen \in Nat /\ loads'[v].gen \in Nat /\ loads'[v].gen >= loads[v].gen
  BY GensGrow
<1>2. ASSUME NEW x \in flight', x \notin N, NEW v \in Sure, Carries(x, v)
      PROVE  \E y \in flight : Carries(y, v) /\ Gen(x, v) = Gen(y, v) /\ Origin(x, y, C, R)
  BY <1>2, Origins
<1>3. ASSUME NEW x \in flight', x \notin N, NEW v \in Sure, Carries(x, v)
      PROVE  /\ Gen(x, v) \in Nat /\ Gen(x, v) <= loads[v].gen
             /\ Gen(x, v) = loads[v].gen => loads[v].loading
  BY <1>2, <1>3, GenType DEF Types, Messages, Due
<1>4. ASSUME NEW x \in N, NEW v \in Sure, Carries(x, v)
      PROVE  Gen(x, v) = loads'[v].gen /\ loads'[v].gen > loads[v].gen /\ loads'[v].loading
  BY <1>4 DEF Comes, Born, Starts
<1>5. ASSUME NEW x \in flight', NEW v \in Sure, Carries(x, v)
      PROVE  /\ Gen(x, v) <= loads'[v].gen
             /\ Gen(x, v) = loads'[v].gen => loads'[v].loading
  <2>1. CASE x \in N
    BY <1>1, <1>4, <1>5, <2>1
  <2>2. CASE x \notin N
    BY <1>1, <1>3, <1>5, <2>2 DEF Shifts, Closed
  <2> QED BY <2>1, <2>2
<1>6. ASSUME NEW x \in flight', NEW y \in flight', NEW v \in Sure, Carries(x, v), Carries(y, v),
             Gen(x, v) = loads'[v].gen, Gen(y, v) = loads'[v].gen
      PROVE  x = y
  <2>1. CASE x \in N /\ y \in N
    BY <1>6, <2>1 DEF Comes
  <2>2. CASE x \notin N /\ y \notin N
    <3>1. PICK xo \in flight : Carries(xo, v) /\ Gen(x, v) = Gen(xo, v) /\ Origin(x, xo, C, R)
      BY <1>2, <1>6, <2>2
    <3>2. PICK yo \in flight : Carries(yo, v) /\ Gen(y, v) = Gen(yo, v) /\ Origin(y, yo, C, R)
      BY <1>2, <1>6, <2>2
    <3>3. loads'[v].gen = loads[v].gen
      BY <1>1, <1>3, <1>6, <2>2
    <3>4. xo = yo
      BY <3>1, <3>2, <3>3, <1>6 DEF Messages, Due
    <3> QED BY <3>1, <3>2, <3>4, Origins
  <2>3. ASSUME NEW z \in flight', NEW w \in flight', z \in N, w \notin N, Carries(z, v), Carries(w, v),
               Gen(z, v) = loads'[v].gen, Gen(w, v) = loads'[v].gen
        PROVE  FALSE
    BY <1>1, <1>3, <1>4, <2>3
  <2> QED BY <1>6, <2>1, <2>2, <2>3
<1> QED BY <1>5, <1>6 DEF Messages, Due, Sure

\* What a step does to the stream and the clone.
Steady(C, R) ==
  /\ local'.gen >= local.gen
  /\ \A c \in C, x \in R : Remnant(x, c) =>
        \A v \in c.left \ x.left : c.gens[v] = loads'[v].gen => ~loads'[v].loading
  /\ \/ local' = local /\ (clone'.phase = "refreshing" =>
                              \/ clone.phase = "refreshing" /\ clone'.min = clone.min /\ (stopped => stopped')
                              \/ clone'.min > loads["repos"].gen)
     \/ local'.gen > local.gen
     \/ stopped'
     \/ \A x \in flight' : x.kind = "stream" => x.cycle # local'.gen

LEMMA StreamsStay ==
  ASSUME Types, Types', StreamsInv, NEW C, NEW R, NEW N, Comes(C, R, N), Shifts, Steady(C, R)
  PROVE  StreamsInv'
<1>1. /\ \A v \in Local : v \in Views /\ v \in Sure /\ v # "skills"
      /\ local.gen \in Nat /\ local'.gen \in Nat /\ clone.min \in Nat /\ clone'.min \in Nat /\ "repos" \in Local
  <2>1. \A v \in Local : v \in Views /\ v \in Sure /\ v # "skills"
    BY DashboardAssumption DEF Sure, Local, Views
  <2>2. /\ local.gen \in Nat /\ local'.gen \in Nat /\ clone.min \in Nat /\ clone'.min \in Nat
    BY DEF Types, CloneState
  <2> QED BY <2>1, <2>2, ViewsAre
<1>2. \A v \in Local : loads[v].gen \in Nat /\ loads'[v].gen \in Nat /\ loads'[v].gen >= loads[v].gen
  BY <1>1, GensGrow
<1>3. ASSUME NEW x \in flight', x.kind = "stream", x \notin N
      PROVE  \E y \in flight : /\ y.kind = "stream" /\ y \in Streams /\ x \in Streams
                               /\ x.cycle = y.cycle /\ x.gens = y.gens /\ x.left \subseteq y.left
                               /\ Origin(x, y, C, R)
  <2>1. PICK y \in flight : Origin(x, y, C, R)
    BY <1>3, Origins
  <2>2. CASE x = y
    BY <1>3, <2>1, <2>2, Kinds DEF Types
  <2>3. CASE Remnant(x, y)
    BY <2>1, <2>3 DEF Remnant, Streams
  <2> QED BY <2>1, <2>2, <2>3 DEF Origin
<1>4. ASSUME NEW x \in N, x.kind = "stream"
      PROVE  /\ x.cycle = local'.gen /\ x.cycle = local.gen + 1 /\ local'.live /\ x.left = Local
             /\ \A v \in Local : x.gens[v] = loads'[v].gen
  BY <1>4 DEF Comes, Born
<1>5. ASSUME NEW x \in flight', x.kind = "stream", x \notin N
      PROVE  /\ x.cycle \in Nat /\ x.cycle <= local'.gen /\ x.cycle <= local.gen
             /\ \A v \in Local : /\ x.gens[v] <= loads'[v].gen
                                 /\ v \notin x.left /\ x.gens[v] = loads'[v].gen => ~loads'[v].loading
  <2>1. PICK y \in flight : /\ y.kind = "stream" /\ y \in Streams /\ x \in Streams
                            /\ x.cycle = y.cycle /\ x.gens = y.gens /\ x.left \subseteq y.left
                            /\ Origin(x, y, C, R)
    BY <1>3, <1>5
  <2>2. x.cycle \in Nat /\ y.cycle <= local.gen
    BY <2>1 DEF Streams, StreamsInv
  <2>3. ASSUME NEW v \in Local
        PROVE  /\ x.gens[v] <= loads'[v].gen
               /\ v \notin x.left /\ x.gens[v] = loads'[v].gen => ~loads'[v].loading
    <3>1. y.gens[v] \in Nat /\ y.gens[v] <= loads[v].gen
      BY <2>1 DEF Streams, StreamsInv
    <3>2. v \notin y.left /\ y.gens[v] = loads[v].gen => ~loads[v].loading
      BY <2>1 DEF StreamsInv
    <3>3. x.gens[v] <= loads'[v].gen
      BY <1>2, <2>1, <3>1
    <3>4. ASSUME v \notin x.left, x.gens[v] = loads'[v].gen PROVE ~loads'[v].loading
      <4>1. CASE v \in y.left
        BY <2>1, <3>4, <4>1 DEF Steady, Origin
      <4>2. CASE v \notin y.left
        <5>1. loads'[v].gen = loads[v].gen /\ ~loads[v].loading
          BY <1>2, <2>1, <3>1, <3>2, <3>4, <4>2
        <5> QED BY <1>1, <1>2, <5>1 DEF Shifts, Closed
      <4> QED BY <4>1, <4>2
    <3> QED BY <3>3, <3>4
  <2> QED BY <1>1, <2>1, <2>2, <2>3 DEF Steady
<1>6. ASSUME NEW x \in flight', NEW y \in flight', x.kind = "stream", y.kind = "stream", x.cycle = y.cycle
      PROVE  x = y
  <2>1. CASE x \in N /\ y \in N
    <3>1. Carries(x, "repos") /\ Carries(y, "repos")
      BY <1>1, <1>4, <1>6, <2>1 DEF Carries
    <3> QED BY <1>1, <2>1, <3>1 DEF Comes
  <2>2. CASE x \notin N /\ y \notin N
    <3>1. PICK xo \in flight : xo.kind = "stream" /\ x.cycle = xo.cycle /\ Origin(x, xo, C, R)
      BY <1>3, <1>6, <2>2
    <3>2. PICK yo \in flight : yo.kind = "stream" /\ y.cycle = yo.cycle /\ Origin(y, yo, C, R)
      BY <1>3, <1>6, <2>2
    <3>3. xo = yo
      BY <1>6, <3>1, <3>2 DEF StreamsInv
    <3> QED BY <3>1, <3>2, <3>3, Origins
  <2> QED BY <1>1, <1>4, <1>5, <1>6, <2>1, <2>2
<1>7. ASSUME NEW x \in flight', x.kind = "stream" PROVE Cut(x)'
  <2>1. CASE x \in N
    BY <1>4, <1>7, <2>1 DEF Cut
  <2>2. CASE x \notin N
    <3>1. PICK y \in flight : /\ y.kind = "stream" /\ y \in Streams /\ x \in Streams
                              /\ x.cycle = y.cycle /\ x.gens = y.gens /\ x.left \subseteq y.left
      BY <1>3, <1>7, <2>2
    <3>2. y.cycle \in Nat /\ y.cycle <= local.gen /\ Cut(y)
          /\ y.gens["repos"] \in Nat /\ y.gens["repos"] <= loads["repos"].gen
      BY <1>1, <3>1 DEF Streams, StreamsInv
    <3> QED BY <1>1, <1>2, <1>7, <3>1, <3>2 DEF Steady, Cut
  <2> QED BY <2>1, <2>2
<1>8. ASSUME NEW x \in flight', x.kind = "stream"
      PROVE  /\ x.cycle <= local'.gen
             /\ \A v \in Local : /\ x.gens[v] <= loads'[v].gen
                                 /\ v \notin x.left /\ x.gens[v] = loads'[v].gen => ~loads'[v].loading
  BY <1>1, <1>2, <1>4, <1>5, <1>8
<1> QED BY <1>6, <1>7, <1>8 DEF StreamsInv

-----------------------------------------------------------------------------
(***************************************************************************)
(* What views wait for and show, without triage and checks of skills.      *)
(***************************************************************************)

Calm == "check" \notin Rare /\ "triage" \notin Rare

\* An answer that a view waits for is lost only with the wait.
Stays(C, R) ==
  \A c \in C : \A v \in Views :
     Due(c, v) /\ loads'[v].gen = loads[v].gen /\ loads'[v].loading
        => \E x \in R : Remnant(x, c) /\ Carries(x, v)
\* Whatever begins to load waits for REPOS or is read.
Feeds ==
  \A v \in Views : loads'[v].loading =>
     \/ Waits(loads', v)
     \/ \E x \in flight' : Carries(x, v) /\ Gen(x, v) = loads'[v].gen
     \/ loads'[v].gen = loads[v].gen /\ loads[v].loading /\ ~Waits(loads, v)

\* Streams whose results are awaited go on.
Alive == \A x \in flight : \A v \in Local : x.kind = "stream" /\ Due(x, v) => Current(x) /\ local.live
Awake ==
  \/ local' = local
  \/ \A v \in Local : loads'[v].gen > loads[v].gen
  \/ \A x \in flight' : x.kind = "stream" => x.cycle # local.gen

\* Rows called fresh are those that were, or those of an awaited answer.
Renewed(v) ==
  ~loads'[v].loading /\ Fresh(loads'[v]) =>
     \/ loads'[v] = loads[v] /\ rows'[v] = rows[v]
     \/ \E x \in flight :
           /\ Due(x, v) \/ (v = "remote" /\ x.kind = "cache" /\ x.gen = loads[v].gen)
           /\ rows'[v].since = x.since /\ must' = must
           /\ v \in Dependents =>
                 rows'[v].src = x.src /\ loads'["repos"] = loads["repos"] /\ rows'["repos"] = rows["repos"]

\* Requests are numbered, and what a request is about is read or called stale.
Since ==
  /\ \A v \in Views : must[v] <= epoch
  /\ \A x \in flight : \A v \in Views : Due(x, v) => x.since >= must[v]
  /\ \A x \in flight : x.kind = "cache" =>
        /\ x.gen <= loads["remote"].gen
        /\ x.gen = loads["remote"].gen => x.since >= must["remote"]
Tells(N) ==
  /\ epoch' >= epoch
  /\ \A v \in Views :
        \/ must'[v] <= must[v]
        \/ must'[v] <= epoch' /\ loads'[v].gen > loads[v].gen
        \/ must'[v] <= epoch' /\ loads'[v] = loads[v] /\ Blank(loads[v]) /\ v # "remote"
  /\ \A x \in N : /\ \A v \in Views : Carries(x, v) => x.since = epoch'
                  /\ x.kind = "cache" => x.gen <= loads'["remote"].gen /\ x.since >= must'["remote"]

\* The rows of SKILLS and MCP that are awaited are of the REPOS rows there are.
Follows ==
  \A x \in flight : \A v \in Dependents :
     Due(x, v) => loads["repos"].loading \/ x.src = rows["repos"].id
Turned(N) ==
  /\ \/ /\ rows'["repos"].id = rows["repos"].id
        /\ loads["repos"].loading => loads'["repos"].loading
     \/ \A v \in Dependents : Turns(loads[v], loads'[v])
  /\ \A x \in N : \A v \in Dependents : Carries(x, v) => x.src = rows'["repos"].id

LEMMA AnsweringIs ==
  ASSUME NEW x, Mail(x), NEW v \in Views
  PROVE  /\ Answering(x, v) <=> Due(x, v)
         /\ Answering(x, v)' <=> Carries(x, v) /\ Gen(x, v) = loads'[v].gen
<1>1. CASE x.kind = "read"
  BY <1>1 DEF Answering, Due, Carries, Gen
<1>2. CASE x.kind = "pair"
  <2>1. DOMAIN x.gens = {"tries", "repos"}
    BY <1>2, Kinds DEF Pairs
  <2> QED BY <1>2, <2>1 DEF Answering, Due, Carries, Gen
<1>3. CASE x.kind = "stream"
  BY <1>3 DEF Answering, Due, Carries, Gen
<1> QED BY <1>1, <1>2, <1>3 DEF Answering, Due, Carries

LEMMA WaitsStay ==
  ASSUME Types, Types', NoEndlessWait, NEW C, NEW R, NEW N, Comes(C, R, N), Stays(C, R), Feeds
  PROVE  NoEndlessWait'
<1> SUFFICES ASSUME NEW v \in Views, loads'[v].loading, ~Waits(loads', v)
             PROVE  \E x \in flight' : Answering(x, v)'
  BY DEF NoEndlessWait
<1>1. \A x \in flight' : Carries(x, v) /\ Gen(x, v) = loads'[v].gen => Answering(x, v)'
  BY AnsweringIs DEF Types
<1>2. CASE \E x \in flight' : Carries(x, v) /\ Gen(x, v) = loads'[v].gen
  BY <1>1, <1>2
<1>3. CASE loads'[v].gen = loads[v].gen /\ loads[v].loading /\ ~Waits(loads, v)
  <2>1. PICK x \in flight : Due(x, v)
    BY <1>3, AnsweringIs DEF NoEndlessWait, Types
  <2>2. CASE x \notin C
    BY <1>1, <1>3, <2>1, <2>2 DEF Comes, Due
  <2>3. CASE x \in C
    <3>1. PICK y \in R : Remnant(y, x) /\ Carries(y, v)
      BY <1>3, <2>1, <2>3 DEF Stays
    <3> QED BY <1>1, <1>3, <2>1, <3>1, RemnantCarries DEF Comes, Due
  <2> QED BY <2>2, <2>3
<1> QED BY <1>2, <1>3 DEF Feeds

\* A message that is awaited after a step and is not new was awaited before.
LEMMA DueBefore ==
  ASSUME Types, Types', Messages, NEW C, NEW R, NEW N, Comes(C, R, N), Shifts,
         NEW x \in flight', x \notin N, NEW v \in Sure, Carries(x, v), Gen(x, v) = loads'[v].gen
  PROVE  /\ loads'[v].gen = loads[v].gen /\ loads[v].loading
         /\ \E y \in flight : /\ Due(y, v) /\ y.since = x.since /\ y.kind = x.kind
                              /\ x.kind = "read" => x = y
                              /\ x.kind = "stream" => x.cycle = y.cycle
<1>1. PICK y \in flight : Origin(x, y, C, R)
  BY Origins
<1>2. Carries(y, v) /\ Gen(x, v) = Gen(y, v)
  BY <1>1, Origins
<1>3. v \in Views
  BY DEF Sure
<1>4. Gen(y, v) \in Nat /\ Gen(y, v) <= loads[v].gen
  BY <1>2, <1>3, GenType DEF Types, Messages
<1>5. loads'[v].gen = loads[v].gen
  <2>1. loads[v].gen \in Nat /\ loads'[v].gen \in Nat /\ loads'[v].gen >= loads[v].gen
    BY <1>3, GensGrow
  <2>2. Gen(y, v) = loads'[v].gen
    BY <1>2
  <2> QED BY <1>4, <2>1, <2>2
<1>6. Due(y, v) /\ loads[v].loading
  BY <1>2, <1>5 DEF Due, Messages
<1>7. /\ y.since = x.since /\ y.kind = x.kind
      /\ x.kind = "read" => x = y
      /\ x.kind = "stream" => x.cycle = y.cycle
  BY <1>1 DEF Origin, Remnant, Streams
<1> QED BY <1>5, <1>6, <1>7

LEMMA AliveStays ==
  ASSUME Types, Types', Messages, StreamsInv, Alive, NEW C, NEW R, NEW N, Comes(C, R, N), Shifts, Awake
  PROVE  Alive'
<1> SUFFICES ASSUME NEW x \in flight', NEW v \in Local, x.kind = "stream", Carries(x, v),
                    Gen(x, v) = loads'[v].gen
             PROVE  x.cycle = local'.gen /\ local'.live
  BY DEF Alive, Due, Current
<1>0. v \in Sure /\ v \in Views
  BY DashboardAssumption DEF Sure, Local, Views
<1>1. CASE x \in N
  BY <1>1 DEF Comes, Born
<1>2. CASE x \notin N
  <2>1. PICK y \in flight : y.kind = "stream" /\ x.cycle = y.cycle /\ Due(y, v)
    BY <1>0, <1>2, DueBefore
  <2>2. loads'[v].gen = loads[v].gen
    BY <1>0, <1>2, DueBefore
  <2>3. x.cycle = local.gen /\ local.live
    BY <2>1 DEF Alive, Current
  <2> QED BY <1>0, <2>2, <2>3, GensGrow DEF Awake
<1> QED BY <1>1, <1>2

LEMMA SinceStays ==
  ASSUME Types, Types', Messages, "check" \notin Rare, Since, FreshIsCurrent,
         NEW C, NEW R, NEW N, Comes(C, R, N), Shifts, Tells(N), \A v \in Views : Renewed(v)
  PROVE  Since' /\ FreshIsCurrent'
<1>1. /\ epoch \in Nat /\ epoch' \in Nat
      /\ \A v \in Views : must[v] \in Nat /\ must'[v] \in Nat /\ rows[v].since \in Nat /\ rows'[v].since \in Nat
  BY DEF Types, RowState
<1>2. \A v \in Views : loads[v].gen \in Nat /\ loads'[v].gen \in Nat /\ loads'[v].gen >= loads[v].gen
  BY GensGrow
<1>3. ASSUME NEW v \in Views PROVE must'[v] <= epoch'
  BY <1>1 DEF Since, Tells
<1>4. \A v \in Views : v \in Sure
  BY DEF Sure
<1>5. ASSUME NEW x \in flight', NEW v \in Views, Carries(x, v), Gen(x, v) = loads'[v].gen
      PROVE  x.since >= must'[v]
  <2>1. CASE x \in N
    BY <1>1, <1>3, <1>5, <2>1 DEF Tells
  <2>2. CASE x \notin N
    <3>1. PICK y \in flight : Due(y, v) /\ y.since = x.since
      BY <1>4, <1>5, <2>2, DueBefore
    <3>2. loads'[v].gen = loads[v].gen /\ loads[v].loading
      BY <1>4, <1>5, <2>2, DueBefore
    <3>3. must'[v] <= must[v]
      BY <1>2, <3>2 DEF Tells, Blank
    <3>4. y.since \in Nat /\ y.since >= must[v]
      BY <3>1, GenType DEF Since, Types, Due
    <3> QED BY <1>1, <3>1, <3>3, <3>4
  <2> QED BY <2>1, <2>2
<1>6. ASSUME NEW x \in flight', x.kind = "cache"
      PROVE  /\ x.gen <= loads'["remote"].gen
             /\ x.gen = loads'["remote"].gen => x.since >= must'["remote"]
  <2>1. CASE x \in N
    BY <1>6, <2>1 DEF Tells
  <2>2. CASE x \notin N
    <3>1. x \in flight
      BY <1>6, <2>2 DEF Comes, Remnant, Streams
    <3>2. x.gen \in Nat /\ x.since \in Nat /\ x.gen <= loads["remote"].gen
          /\ (x.gen = loads["remote"].gen => x.since >= must["remote"])
      BY <1>6, <3>1, Kinds DEF Types, Since
    <3>3. loads'["remote"].gen > loads["remote"].gen \/ must'["remote"] <= must["remote"]
      BY ViewsAre DEF Tells
    <3> QED BY <1>1, <1>2, <3>2, <3>3, ViewsAre
  <2> QED BY <2>1, <2>2
<1>7. ASSUME NEW v \in Views, ~loads'[v].loading, Fresh(loads'[v])
      PROVE  rows'[v].since >= must'[v]
  <2>1. CASE loads'[v] = loads[v] /\ rows'[v] = rows[v]
    <3>1. rows[v].since >= must[v]
      BY <1>7, <2>1 DEF FreshIsCurrent
    <3>2. must'[v] <= must[v]
      BY <1>2, <1>7, <2>1 DEF Tells, Blank, Fresh
    <3> QED BY <1>1, <2>1, <3>1, <3>2
  <2>2. ASSUME NEW x \in flight, Due(x, v) \/ (v = "remote" /\ x.kind = "cache" /\ x.gen = loads[v].gen),
               rows'[v].since = x.since, must' = must
        PROVE  rows'[v].since >= must'[v]
    BY <2>2 DEF Since
  <2> QED BY <1>7, <2>1, <2>2 DEF Renewed
<1>8. FreshIsCurrent'
  BY <1>7 DEF FreshIsCurrent
<1> QED BY <1>3, <1>5, <1>6, <1>8 DEF Since, Due

LEMMA FollowsStay ==
  ASSUME Types, Types', Messages, "check" \notin Rare, Follows, DependentsFollow,
         NEW C, NEW R, NEW N, Comes(C, R, N), Shifts, Turned(N), \A v \in Views : Renewed(v)
  PROVE  Follows' /\ DependentsFollow'
<1>1. \A v \in Views : v \in Sure
  BY DEF Sure
<1>2. \A v \in Views : loads[v].gen \in Nat /\ loads'[v].gen \in Nat /\ loads'[v].gen >= loads[v].gen
  BY GensGrow
<1>3. ASSUME NEW x \in flight', NEW v \in Dependents, Carries(x, v), Gen(x, v) = loads'[v].gen
      PROVE  loads'["repos"].loading \/ x.src = rows'["repos"].id
  <2>0. v \in Views /\ v \notin Local /\ v # "repos" /\ v # "tries"
    BY ViewsAre
  <2>1. CASE x \in N
    BY <1>3, <2>1 DEF Turned
  <2>2. CASE x \notin N
    <3>1. PICK y \in flight : Due(y, v) /\ y.kind = x.kind /\ (x.kind = "read" => x = y)
      BY <1>1, <1>3, <2>0, <2>2, DueBefore
    <3>2. loads'[v].gen = loads[v].gen /\ loads[v].loading
      BY <1>1, <1>3, <2>0, <2>2, DueBefore
    <3>3. x.kind = "read"
      <4>1. Mail(y)
        BY <3>1 DEF Types
      <4>2. y.kind = "stream" => y.left \subseteq Local
        BY <4>1, Kinds DEF Streams
      <4> QED BY <3>1, <4>2, <2>0 DEF Due, Carries
    <3>4. loads["repos"].loading \/ x.src = rows["repos"].id
      BY <3>1, <3>3 DEF Follows
    <3>5. ~Turns(loads[v], loads'[v])
      BY <1>2, <2>0, <3>2 DEF Turns, Starts, Ends, Blank
    <3> QED BY <3>4, <3>5 DEF Turned
  <2> QED BY <2>1, <2>2
<1>4. ASSUME NEW v \in Dependents, ~loads'["repos"].loading, ~loads'[v].loading, Fresh(loads'[v])
      PROVE  rows'[v].src = rows'["repos"].id
  <2>0. v \in Views /\ v # "remote"
    BY ViewsAre
  <2>1. CASE loads'[v] = loads[v] /\ rows'[v] = rows[v]
    <3>1. ~Turns(loads[v], loads'[v])
      BY <1>2, <1>4, <2>0, <2>1 DEF Turns, Starts, Ends, Blank, Fresh
    <3> QED BY <1>4, <2>1, <3>1 DEF Turned, DependentsFollow
  <2>2. ASSUME NEW x \in flight, Due(x, v),
               rows'[v].src = x.src /\ loads'["repos"] = loads["repos"] /\ rows'["repos"] = rows["repos"]
        PROVE  rows'[v].src = rows'["repos"].id
    BY <1>4, <2>2 DEF Follows
  <2> QED BY <1>4, <2>0, <2>1, <2>2 DEF Renewed
<1> QED BY <1>3, <1>4 DEF Follows, DependentsFollow, Due

\* The readers of what begins to load, as Reads gives them.
ReadSet(ls, W, src, since) ==
  {Read(ls, v, since, src) : v \in {w \in W : ls[w].loading /\ ~Waits(ls, w)}}

\* They are born, one for each view that need not wait.
ReadBy(x, W, src) ==
  /\ Born(x) /\ x.kind = "read" /\ x.since = epoch' /\ x.v \in W
  /\ x.v \in Dependents => x.src = src
ReadsRight(W, src, N) ==
  /\ \A x \in N : ReadBy(x, W, src)
  /\ \A x, y \in N : \A v : Carries(x, v) /\ Carries(y, v) => x = y
  /\ \A v \in W : loads'[v].loading =>
        Waits(loads', v) \/ \E x \in N : Carries(x, v) /\ Gen(x, v) = loads'[v].gen

LEMMA ReadsBorn ==
  ASSUME loads' \in Loads, epoch' \in Nat, NEW W, W \subseteq Views, NEW src, src \in Nat,
         \A v \in W : loads'[v].loading => Starts(loads[v], loads'[v]),
         NEW N, N = ReadSet(loads', W, src, epoch')
  PROVE  ReadsRight(W, src, N)
<1> DEFINE R(v) == Read(loads', v, epoch', src)
<1>1. \A v \in W : /\ R(v).kind = "read" /\ R(v).v = v /\ R(v).gen = loads'[v].gen /\ R(v).since = epoch'
                   /\ R(v).src \in Nat /\ (v \in Dependents => R(v).src = src)
  BY DEF Read
<1>2. \A x \in N : \E v \in W : x = R(v) /\ loads'[v].loading
  BY DEF ReadSet
<1>3. \A v \in W : loads'[v].loading /\ ~Waits(loads', v) => R(v) \in N
  BY DEF ReadSet
<1>4. \A v \in W : loads'[v].gen \in Nat
  BY DEF Loads, ViewState
<1> HIDE DEF R
<1>5. \A v \in W : loads'[v].loading => Born(R(v))
  BY <1>1, <1>4 DEF Born, Mail, Carries, Gen
<1>6. \A x \in N : ReadBy(x, W, src)
  BY <1>1, <1>2, <1>5 DEF ReadBy
<1> QED BY <1>1, <1>2, <1>3, <1>6 DEF Carries, Gen, ReadsRight

\* Requests only: nothing is answered.
Effects(C, R, N) == Comes(C, R, N) /\ Shifts /\ Steady(C, R)
Changes(C, R, N) ==
  /\ Effects(C, R, N)
  /\ Calm =>
        /\ Alive => Stays(C, R)
        /\ Feeds /\ Turned(N) /\ \A v \in Views : Renewed(v)
        /\ "recheck" \notin Rare => Tells(N)
        /\ "cancel" \notin Rare => Awake

\* What a step does, with the types after it.
Does(C, R, N) == Types' /\ Changes(C, R, N)

LEMMA CloneIs ==
  ASSUME NEW c \in CloneState
  PROVE  /\ NoClone \in CloneState /\ NoClone.phase = "idle"
         /\ \A via \in {"read", "stream"} :
               /\ Following(c, via) \in CloneState
               /\ Following(c, via).phase = c.phase /\ Following(c, via).min = c.min
         /\ \A gen, outcome, gone :
               /\ FinishedRefresh(c, gen, outcome, gone) \in CloneState
               /\ FinishedRefresh(c, gen, outcome, gone).phase = "refreshing"
                     => FinishedRefresh(c, gen, outcome, gone) = c
         /\ \A gen : /\ FinishedStream(c, gen) \in CloneState
                     /\ FinishedStream(c, gen).phase = "refreshing" => FinishedStream(c, gen) = c
<1>1. NoClone \in CloneState /\ NoClone.phase = "idle"
  BY DEF NoClone, CloneState
<1>2. ASSUME NEW via \in {"read", "stream"}
      PROVE  /\ Following(c, via) \in CloneState
             /\ Following(c, via).phase = c.phase /\ Following(c, via).min = c.min
  BY DEF Following, CloneState
<1>3. ASSUME NEW gen, NEW outcome, NEW gone
      PROVE  /\ FinishedRefresh(c, gen, outcome, gone) \in CloneState
             /\ FinishedRefresh(c, gen, outcome, gone).phase = "refreshing"
                   => FinishedRefresh(c, gen, outcome, gone) = c
  <2>1. LET d == [c EXCEPT !.phase = "opening"] IN d \in CloneState /\ d.phase = "opening"
    BY DEF CloneState
  <2> QED BY <1>1, <2>1 DEF FinishedRefresh
<1>4. ASSUME NEW gen
      PROVE  /\ FinishedStream(c, gen) \in CloneState
             /\ FinishedStream(c, gen).phase = "refreshing" => FinishedStream(c, gen) = c
  BY <1>1 DEF FinishedStream
<1> QED BY <1>1, <1>2, <1>3, <1>4

LEMMA DemandIs ==
  ASSUME Types, NEW which \in SUBSET Views, Demand(which)
  PROVE  /\ epoch' = epoch + 1 /\ epoch' \in Nat /\ must' \in [Views -> Nat]
         /\ \A v \in Views : must'[v] = IF v \in which THEN epoch' ELSE must[v]
BY DEF Demand, Demanded, Types

\* Mail of a step.
LEMMA MailStays ==
  ASSUME Types, NEW C, NEW R, NEW N, Comes(C, R, N)
  PROVE  \A x \in flight' : Mail(x)
BY DEF Types, Comes, Born, Remnant, Mail

LEMMA SteadyIs ==
  ASSUME Types, Types', NEW C
  PROVE  /\ /\ local' = local
            /\ clone'.phase = "refreshing" =>
                  \/ clone.phase = "refreshing" /\ clone'.min = clone.min /\ (stopped => stopped')
                  \/ clone'.min > loads["repos"].gen
            => Steady(C, {})
         /\ local'.gen > local.gen => Steady(C, {})
BY DEF Types, Steady

\* Requests: views are the same, begin to load or turn stale.
Asks(C, N) ==
  /\ Types' /\ rows' = rows
  /\ flight' = (flight \ C) \cup N /\ C \subseteq flight
  /\ \A x \in C : \A v \in Views : Carries(x, v) /\ loads'[v] = loads[v] => ~loads[v].loading
  /\ \A v \in Views : loads'[v] = loads[v] \/ Starts(loads[v], loads'[v]) \/ Ends(loads[v], loads'[v])
  /\ loads'["repos"] = loads["repos"] \/ Starts(loads["repos"], loads'["repos"])
  /\ \A x \in N : Born(x)
  /\ \A x, y \in N : \A v \in Sure : Carries(x, v) /\ Carries(y, v) => x = y
Reading(N) ==
  /\ \A v \in Views : Starts(loads[v], loads'[v]) =>
        Waits(loads', v) \/ \E x \in N : Carries(x, v) /\ Gen(x, v) = loads'[v].gen
  /\ \A x \in N : \A v \in Dependents : Carries(x, v) => x.src = rows'["repos"].id
Noted(N) ==
  /\ epoch' = epoch + 1
  /\ \A v \in Views :
        \/ must'[v] = must[v] \/ must'[v] = 0
        \/ /\ must'[v] = epoch'
           /\ \/ Starts(loads[v], loads'[v]) \/ Ends(loads[v], loads'[v])
              \/ loads'[v] = loads[v] /\ Blank(loads[v]) /\ v # "remote"
  /\ \A x \in N : /\ \A v \in Views : Carries(x, v) => x.since = epoch'
                  /\ x.kind = "cache" => x.gen <= loads'["remote"].gen /\ x.since >= must'["remote"]

LEMMA Asking ==
  ASSUME Types, NEW C, NEW N, Asks(C, N), Steady(C, {})
  PROVE  /\ Effects(C, {}, N) /\ Stays(C, {}) /\ \A v \in Views : Renewed(v)
         /\ Reading(N) => Feeds /\ Turned(N)
         /\ Noted(N) => Tells(N)
<1>0. \A v \in Views : loads[v].gen \in Nat /\ loads'[v].gen \in Nat
  BY DEF Types, Asks, Loads, ViewState
<1>1. Comes(C, {}, N)
  BY DEF Asks, Comes
<1>2. Shifts
  BY <1>0 DEF Asks, Shifts, Starts, Ends
<1>3. Stays(C, {})
  <2>1. \A v \in Views : loads'[v].gen = loads[v].gen /\ loads'[v].loading => loads'[v] = loads[v] /\
           loads[v].loading
    BY <1>0 DEF Asks, Starts, Ends
  <2> QED BY <2>1 DEF Asks, Stays, Due
<1>4. \A v \in Views : Renewed(v)
  BY DEF Asks, Renewed, Starts, Ends
<1>5. ASSUME Reading(N) PROVE Feeds /\ Turned(N)
  <2>1. loads["repos"].loading => loads'["repos"].loading
    BY DEF Asks, Starts
  <2>2. Turned(N)
    BY <1>5, <2>1 DEF Asks, Reading, Turned
  <2>3. ASSUME NEW v \in Views, loads'[v].loading, ~Waits(loads', v)
        PROVE  \/ \E x \in flight' : Carries(x, v) /\ Gen(x, v) = loads'[v].gen
               \/ loads'[v].gen = loads[v].gen /\ loads[v].loading /\ ~Waits(loads, v)
    <3>1. CASE loads'[v] = loads[v]
      BY <2>1, <2>3, <3>1 DEF Waits
    <3>2. CASE Starts(loads[v], loads'[v])
      BY <1>5, <2>3, <3>2 DEF Reading, Asks
    <3> QED BY <2>3, <3>1, <3>2 DEF Asks, Ends
  <2> QED BY <2>2, <2>3 DEF Feeds
<1>6. ASSUME Noted(N) PROVE Tells(N)
  <2>1. epoch \in Nat /\ epoch' \in Nat /\ \A v \in Views : must[v] \in Nat /\ must'[v] \in Nat
    BY DEF Types, Asks
  <2>2. ASSUME NEW v \in Views
        PROVE  \/ must'[v] <= must[v]
               \/ must'[v] <= epoch' /\ loads'[v].gen > loads[v].gen
               \/ must'[v] <= epoch' /\ loads'[v] = loads[v] /\ Blank(loads[v]) /\ v # "remote"
    BY <1>6, <2>1 DEF Noted, Starts, Ends
  <2> QED BY <1>6, <2>1, <2>2 DEF Noted, Tells
<1> QED BY <1>1, <1>2, <1>3, <1>4, <1>5, <1>6 DEF Effects

LEMMA Asked ==
  ASSUME Types, NEW C, NEW N, Asks(C, N), Steady(C, {}), Reading(N), Noted(N), Awake
  PROVE  Does(C, {}, N)
BY Asking DEF Does, Changes, Asks

\* Nothing is asked of a view and nothing answered.
LEMMA Resting ==
  ASSUME Types, Types', UNCHANGED <<loads, rows>>, NEW C, C \subseteq flight, NEW N,
         flight' = (flight \ C) \cup N, \A x \in C \cup N : Mail(x) /\ x.kind \in {"config", "cache"},
             Steady(C, {})
  PROVE  /\ Effects(C, {}, N) /\ Stays(C, {}) /\ Feeds /\ Turned(N) /\ \A v \in Views : Renewed(v)
         /\ epoch' >= epoch /\ (\A v \in Views : must'[v] = must[v]) /\ (\A x \in N : x.kind = "config") =>
              Tells(N)
<1>0. \A x \in C \cup N : \A v : ~Carries(x, v)
  BY DEF Carries
<1>1. Asks(C, N)
  BY <1>0 DEF Asks, Born
<1>2. Reading(N)
  <2>1. \A v \in Views : ~Starts(loads[v], loads'[v])
    BY DEF Starts, Types, Loads, ViewState
  <2> QED BY <1>0, <2>1 DEF Reading
<1>3. ASSUME epoch' >= epoch, \A v \in Views : must'[v] = must[v], \A x \in N : x.kind = "config"
      PROVE  Tells(N)
  <2>1. \A v \in Views : must[v] \in Nat
    BY DEF Types
  <2> QED BY <1>0, <1>3, <2>1 DEF Tells
<1> QED BY <1>1, <1>2, <1>3, Asking

-----------------------------------------------------------------------------
(***************************************************************************)
(* Requests.                                                               *)
(***************************************************************************)

\* A request for one view, with or without REPOS rows to wait for.
AsksOne(v, which, src, N) ==
  /\ Demand(which)
  /\ loads' \in Loads /\ rows' = rows /\ local' = local /\ clone' = clone /\ stopped' = stopped
  /\ view' \in {"other", "remote"} \cup Dependents
  /\ skills' \in [err : BOOLEAN, checking : BOOLEAN] /\ (skills'.checking => skills.checking)
  /\ triage' = triage
  /\ src = rows["repos"].id /\ N = ReadSet(loads', {v}, src, epoch') /\ flight' = flight \cup N
  /\ Starts(loads[v], loads'[v]) \/ Ends(loads[v], loads'[v])
  /\ \A w \in Views \ {v} : loads'[w] = loads[w] \/ (w \in Dependents /\ Ends(loads[w], loads'[w]))
  /\ \A w \in which : w = v \/ Ends(loads[w], loads'[w])

LEMMA ReadsAsked ==
  ASSUME Types, NEW v \in {"remote"} \cup Dependents, NEW which \in SUBSET Dependents, NEW src, NEW N,
         AsksOne(v, which, src, N)
  PROVE  Does({}, {}, N)
<1>0. v \in Views /\ v # "repos" /\ which \in SUBSET Views /\ src \in Nat /\ "repos" \in Views
      /\ "repos" \notin Dependents
  BY ViewsAre DEF Types, RowState, AsksOne
<1>1. /\ epoch' = epoch + 1 /\ epoch' \in Nat /\ must' \in [Views -> Nat]
      /\ \A w \in Views : must'[w] = IF w \in which THEN epoch' ELSE must[w]
  BY <1>0, DemandIs DEF AsksOne
<1>2. ReadsRight({v}, src, N)
  <2>1. PICK W : W = {v}
    OBVIOUS
  <2>2. W \subseteq Views /\ loads' \in Loads /\ N = ReadSet(loads', W, src, epoch')
        /\ (\A w \in W : loads'[w].loading => Starts(loads[w], loads'[w]))
    BY <1>0, <2>1 DEF AsksOne, Ends
  <2>3. ReadsRight(W, src, N)
    BY <1>0, <1>1, <2>2, ReadsBorn
  <2> QED BY <2>1, <2>3
<1>20. /\ \A x \in N : /\ Born(x) /\ Mail(x) /\ x.kind = "read" /\ x.since = epoch' /\ x.v = v
                       /\ v \in Dependents => x.src = src
       /\ \A x, y \in N : \A w : Carries(x, w) /\ Carries(y, w) => x = y
       /\ loads'[v].loading => Waits(loads', v) \/ \E x \in N : Carries(x, v) /\ Gen(x, v) = loads'[v].gen
  BY <1>2 DEF ReadsRight, ReadBy, Born
<1>3. Types'
  BY <1>1, <1>20 DEF Types, AsksOne
<1>4. Asks({}, N)
  <2>1. loads'["repos"] = loads["repos"]
    BY <1>0 DEF AsksOne
  <2>2. \A w \in Views : loads'[w] = loads[w] \/ Starts(loads[w], loads'[w]) \/ Ends(loads[w], loads'[w])
    BY <1>0 DEF AsksOne
  <2>3. rows' = rows /\ flight' = flight \cup N
    BY DEF AsksOne
  <2> QED BY <1>3, <1>20, <2>1, <2>2, <2>3 DEF Asks
<1>5. Steady({}, {})
  BY <1>3, SteadyIs DEF AsksOne
<1>6. Reading(N)
  <2>1. \A w \in Views : Starts(loads[w], loads'[w]) => w = v
    BY DEF Starts, Ends, Types, Loads, ViewState, AsksOne
  <2>2. \A x \in N : \A w \in Dependents : Carries(x, w) => x.src = rows'["repos"].id
    BY <1>20 DEF Carries, AsksOne
  <2>3. \A w \in Views : Starts(loads[w], loads'[w]) => loads'[w].loading
    BY DEF Starts
  <2> QED BY <1>20, <2>1, <2>2, <2>3 DEF Reading
<1>7. Noted(N)
  BY <1>0, <1>1, <1>20 DEF Noted, AsksOne
<1>8. Awake
  BY DEF Awake, AsksOne
<1> QED BY <1>4, <1>5, <1>6, <1>7, <1>8, Asked

LEMMA RequestDoes ==
  ASSUME Types, NEW v \in {"remote"} \cup Dependents, NEW which \in SUBSET {v}, which \in SUBSET Dependents,
         Request(v, which), view' \in {"other", "remote"} \cup Dependents,
         UNCHANGED <<triage, skills, stopped>>
  PROVE  \E C, R, N : Does(C, R, N)
<1>1. v \in Views /\ v # "repos"
  BY ViewsAre
<1>2. loads \in Loads
  BY DEF Types
<1>3. /\ loads' \in Loads
      /\ Starts(loads[v], loads'[v]) \/ Ends(loads[v], loads'[v])
      /\ \A w \in Views \ {v} : loads'[w] = loads[w]
  BY <1>1, <1>2, RequestedIs DEF Request
<1>4. /\ Demand(which) /\ rows' = rows /\ local' = local /\ clone' = clone
  BY DEF Request
<1>5. skills' \in [err : BOOLEAN, checking : BOOLEAN] /\ (skills'.checking => skills.checking) /\
         triage' = triage
      /\ stopped' = stopped
  BY DEF Types
<1>6. \A w \in which : w = v \/ Ends(loads[w], loads'[w])
  OBVIOUS
<1>7. PICK src, N : src = rows["repos"].id /\ N = ReadSet(loads', {v}, src, epoch') /\ flight' = flight \cup N
  BY DEF Request, Reads, ReadSet
<1>8. AsksOne(v, which, src, N)
  BY <1>3, <1>4, <1>5, <1>6, <1>7 DEF AsksOne
<1>9. Does({}, {}, N)
  BY <1>8, ReadsAsked
<1> QED BY <1>9

LEMMA ToggleDoes ==
  ASSUME Types, ToggleScope
  PROVE  \E C, R, N : Does(C, R, N)
<1> DEFINE reset == [v \in Views |->
              IF v \in Dependents THEN [NothingLoaded EXCEPT !.gen = loads[v].gen + 1] ELSE loads[v]]
<1>0. view \in Dependents /\ view \in Views /\ view # "repos" /\ Dependents \in SUBSET Dependents
  BY ViewsAre DEF ToggleScope
<1>1. \A v \in Views : loads[v] \in ViewState /\ loads[v].gen \in Nat /\ loads[v].gen + 1 \in Nat
  BY DEF Types, Loads, ViewState
<1>2. ASSUME NEW n \in Nat
      PROVE  LET s == [NothingLoaded EXCEPT !.gen = n]
             IN  s \in ViewState /\ s.gen = n /\ ~s.loading /\ ~s.fresh
  BY DEF NothingLoaded, ViewState
<1>3. ASSUME NEW v \in Dependents PROVE reset[v] \in ViewState /\ Ends(loads[v], reset[v])
  <2>1. v \in Views /\ reset[v] = [NothingLoaded EXCEPT !.gen = loads[v].gen + 1]
    BY ViewsAre
  <2>2. reset[v] \in ViewState /\ reset[v].gen = loads[v].gen + 1 /\ ~reset[v].loading /\ ~reset[v].fresh
    BY <1>1, <1>2, <2>1
  <2> QED BY <1>1, <2>1, <2>2 DEF Ends, Fresh
<1>4. reset \in Loads /\ \A v \in Views \ Dependents : reset[v] = loads[v]
  BY <1>1, <1>3 DEF Loads
<1>5. loads' = Requested(reset, view)
  BY DEF ToggleScope
<1> HIDE DEF reset
<1>6. /\ loads' \in Loads
      /\ Starts(reset[view], loads'[view]) \/ Ends(reset[view], loads'[view])
      /\ \A v \in Views \ {view} : loads'[v] = reset[v]
  BY <1>0, <1>4, <1>5, RequestedIs
<1>7. Starts(loads[view], loads'[view]) \/ Ends(loads[view], loads'[view])
  <2>1. loads[view].gen \in Nat /\ reset[view].gen \in Nat /\ loads'[view].gen \in Nat
    BY <1>0, <1>1, <1>3, <1>6 DEF Loads, ViewState
  <2> QED BY <1>0, <1>3, <1>6, <2>1 DEF Starts, Ends
<1>8. \A w \in Views \ {view} : loads'[w] = loads[w] \/ (w \in Dependents /\ Ends(loads[w], loads'[w]))
  BY <1>3, <1>4, <1>6
<1>9. \A w \in Dependents : w = view \/ Ends(loads[w], loads'[w])
  BY <1>3, <1>6, ViewsAre
<1>10. /\ Demand(Dependents) /\ rows' = rows /\ local' = local /\ clone' = clone /\ stopped' = stopped
       /\ view' = view /\ triage' = triage /\ skills' = [err |-> FALSE, checking |-> FALSE]
  BY DEF ToggleScope
<1>11. PICK v : v = view
  OBVIOUS
<1>12. PICK src, N : src = rows["repos"].id /\ N = ReadSet(loads', {v}, src, epoch') /\ flight' = flight \cup N
  BY <1>11 DEF ToggleScope, Reads, ReadSet
<1>13. PICK which : which = Dependents
  OBVIOUS
<1>14. AsksOne(v, which, src, N)
  BY <1>0, <1>6, <1>7, <1>8, <1>9, <1>10, <1>11, <1>12, <1>13 DEF AsksOne
<1>15. v \in {"remote"} \cup Dependents /\ which \in SUBSET Dependents
  BY <1>0, <1>11, <1>13
<1> QED BY <1>14, <1>15, ReadsAsked

LEMMA ReloadConfigDoes ==
  ASSUME Types, ReloadConfig
  PROVE  \E C, R, N : Does(C, R, N)
<1>1. Demand({}) /\ {} \in SUBSET Views
  BY DEF ReloadConfig
<1>2. /\ epoch' = epoch + 1 /\ epoch' \in Nat /\ must' \in [Views -> Nat] /\ epoch \in Nat
      /\ \A v \in Views : must'[v] = must[v]
  BY <1>1, DemandIs DEF Types
<1>3. PICK N : flight' = flight \cup N /\ \A x \in N : x.kind = "config"
  <2>1. PICK c : c = Config(view = "remote")
    OBVIOUS
  <2>2. flight' = flight \cup {c} /\ c.kind = "config"
    BY <2>1 DEF ReloadConfig, Config
  <2>3. PICK N : N = {c}
    OBVIOUS
  <2> QED BY <2>2, <2>3
<1>4. Types'
  BY <1>2, <1>3 DEF Types, ReloadConfig, Keep, Mail
<1>5. Steady({}, {}) /\ Awake
  BY <1>4, SteadyIs DEF ReloadConfig, Keep, Awake
<1>6. UNCHANGED <<loads, rows>> /\ \A x \in N : Mail(x)
  BY <1>3 DEF ReloadConfig, Mail
<1>7. Does({}, {}, N)
  BY <1>2, <1>3, <1>4, <1>5, <1>6, Resting DEF Does, Changes
<1> QED BY <1>7

LEMMA RecheckRemoteDoes ==
  ASSUME Types, RecheckRemote
  PROVE  \E C, R, N : Does(C, R, N)
<1>1. Demand({}) /\ {} \in SUBSET Views /\ "recheck" \in Rare
  BY DEF RecheckRemote
<1>2. /\ epoch' \in Nat /\ must' \in [Views -> Nat]
  BY <1>1, DemandIs
<1>3. PICK N : N = {Cache(loads)}
  OBVIOUS
<1>4. /\ Mail(Cache(loads)) /\ Cache(loads).kind = "cache"
  <2>1. loads["remote"].gen \in Nat /\ rows["remote"].since \in Nat
    BY ViewsAre DEF Types, Loads, ViewState, RowState
  <2> QED BY <2>1 DEF Mail, Cache
<1>5. Types'
  BY <1>2, <1>4 DEF Types, RecheckRemote, Keep
<1>6. Steady({}, {}) /\ Awake
  BY <1>5, SteadyIs DEF RecheckRemote, Keep, Awake
<1>7. UNCHANGED <<loads, rows>> /\ flight' = flight \cup N
  BY <1>3 DEF RecheckRemote
<1>8. Does({}, {}, N)
  BY <1>1, <1>3, <1>4, <1>5, <1>6, <1>7, Resting DEF Does, Changes
<1> QED BY <1>8

\* What only moves about, or concerns the clone.
LEMMA QuietDoes ==
  ASSUME Types, Types', UNCHANGED <<loads, rows, flight>>, Steady({}, {}), epoch' >= epoch,
         \A v \in Views : must'[v] = must[v], "cancel" \notin Rare => Awake
  PROVE  \E C, R, N : Does(C, R, N)
<1>1. PICK N : N = {}
  OBVIOUS
<1>2. Does({}, {}, N)
  BY <1>1, Resting DEF Does, Changes
<1> QED BY <1>2

LEMMA VisitDoes ==
  ASSUME Types, NEW v \in {"other", "remote"} \cup Dependents, Visit(v)
  PROVE  \E C, R, N : Does(C, R, N)
<1>1. UNCHANGED <<loads, rows, local, config, clone, triage, skills, flight, requests, epoch, must, stopped>> /\
         view' = v
  BY DEF Visit
<1>2. Types'
  BY <1>1 DEF Types
<1>3. Steady({}, {}) /\ Awake /\ epoch' >= epoch
  BY <1>1, <1>2, SteadyIs DEF Awake, Types
<1> QED BY <1>1, <1>2, <1>3, QuietDoes

LEMMA CancelCloneDoes ==
  ASSUME Types, CancelClone
  PROVE  \E C, R, N : Does(C, R, N)
<1>1. /\ UNCHANGED <<loads, rows, view, triage, skills, flight, epoch, must>>
      /\ clone' = [clone EXCEPT !.canceling = TRUE] /\ stopped' = TRUE
      /\ local' = local \/ (local' = [local EXCEPT !.live = FALSE] /\ "cancel" \in Rare)
  BY DEF CancelClone
<1>2. Types'
  <2>1. clone' \in CloneState
    BY <1>1 DEF Types, CloneState
  <2>2. local' \in [gen : Nat, live : BOOLEAN]
    BY <1>1 DEF Types
  <2> QED BY <1>1, <2>1, <2>2 DEF Types
<1>3. Steady({}, {})
  <2>1. local'.gen = local.gen /\ local.gen \in Nat
    BY <1>1 DEF Types
  <2> QED BY <1>1, <2>1 DEF Steady
<1>4. "cancel" \notin Rare => Awake
  BY <1>1 DEF Awake
<1>5. epoch' >= epoch
  BY <1>1 DEF Types
<1> QED BY <1>1, <1>2, <1>3, <1>4, <1>5, QuietDoes

LEMMA CloneEndsDoes ==
  ASSUME Types, CloneFailed \/ CloneOpened \/ OpenFailed
  PROVE  \E C, R, N : Does(C, R, N)
<1>1. /\ UNCHANGED <<loads, rows, view, local, triage, skills, flight, epoch, must, stopped>>
      /\ clone' = NoClone \/ clone' = [clone EXCEPT !.phase = "left"]
  BY DEF CloneFailed, CloneOpened, OpenFailed, Keep
<1>2. clone' \in CloneState /\ clone'.phase # "refreshing"
  <2>1. CASE clone' = NoClone
    BY <2>1, CloneIs DEF Types
  <2>2. CASE clone' = [clone EXCEPT !.phase = "left"]
    BY <2>2 DEF Types, CloneState
  <2> QED BY <1>1, <2>1, <2>2
<1>3. Types'
  BY <1>1, <1>2 DEF Types
<1>4. Steady({}, {}) /\ Awake /\ epoch' >= epoch
  BY <1>1, <1>2, <1>3, SteadyIs DEF Awake, Types
<1> QED BY <1>1, <1>3, <1>4, QuietDoes

LEMMA StartCloneDoes ==
  ASSUME Types, NEW open \in BOOLEAN, StartClone(open)
  PROVE  \E C, R, N : Does(C, R, N)
<1>1. /\ UNCHANGED <<loads, rows, view, local, triage, skills, flight>>
      /\ clone' = [NoClone EXCEPT !.phase = "running", !.open = open] /\ Demand({}) /\ {} \in SUBSET Views
  BY DEF StartClone
<1>2. /\ epoch' = epoch + 1 /\ epoch' \in Nat /\ must' \in [Views -> Nat] /\ epoch \in Nat
      /\ \A v \in Views : must'[v] = must[v]
  BY <1>1, DemandIs DEF Types
<1>3. clone' \in CloneState /\ clone'.phase # "refreshing"
  BY <1>1 DEF CloneState, NoClone
<1>4. Types'
  BY <1>1, <1>2, <1>3 DEF Types
<1>5. Steady({}, {}) /\ Awake /\ epoch' >= epoch
  BY <1>1, <1>2, <1>3, <1>4, SteadyIs DEF Awake
<1> QED BY <1>1, <1>2, <1>4, <1>5, QuietDoes

LEMMA TriageOpenDoes ==
  ASSUME Types, TriageOpen
  PROVE  \E C, R, N : Does(C, R, N)
<1>1. /\ UNCHANGED <<loads, rows, view, local, clone, skills, flight, stopped>>
      /\ Demand({}) /\ {} \in SUBSET Views /\ "triage" \in Rare
  BY DEF TriageOpen
<1>2. /\ epoch' = epoch + 1 /\ epoch' \in Nat /\ must' \in [Views -> Nat] /\ epoch \in Nat
      /\ \A v \in Views : must'[v] = must[v]
  BY <1>1, DemandIs DEF Types
<1>3. Types'
  BY <1>1, <1>2 DEF Types
<1>4. Steady({}, {}) /\ Awake /\ epoch' >= epoch
  BY <1>1, <1>2, <1>3, SteadyIs DEF Awake
<1> QED BY <1>1, <1>2, <1>3, <1>4, QuietDoes

\* The shared stream and the pair of TRIES and REPOS, when what they read begins.
LEMMA StreamBorn ==
  ASSUME local'.gen \in Nat, local'.gen = local.gen + 1, local'.live, epoch' \in Nat,
         \A v \in Local : loads'[v].gen \in Nat /\ Starts(loads[v], loads'[v]),
         NEW x, x = [kind |-> "stream", cycle |-> local'.gen, gens |-> [v \in Local |-> loads'[v].gen],
                     since |-> epoch', left |-> Local]
  PROVE  /\ Born(x) /\ x.kind = "stream" /\ x.since = epoch'
         /\ \A v : Carries(x, v) <=> v \in Local
         /\ \A v \in Local : Gen(x, v) = loads'[v].gen
<1>1. x.kind = "stream" /\ x.cycle = local'.gen /\ x.since = epoch' /\ x.left = Local
      /\ \A v \in Local : x.gens[v] = loads'[v].gen
  OBVIOUS
<1>2. x \in Streams
  BY DEF Streams
<1>3. \A v : Carries(x, v) <=> v \in Local
  BY <1>1 DEF Carries
<1>4. \A v \in Local : Gen(x, v) = loads'[v].gen
  BY <1>1 DEF Gen
<1>5. Born(x)
  BY <1>1, <1>2, <1>3, <1>4 DEF Born, Mail
<1> QED BY <1>1, <1>3, <1>4, <1>5

LEMMA PairBorn ==
  ASSUME epoch' \in Nat, \A v \in {"tries", "repos"} : loads'[v].gen \in Nat /\ Starts(loads[v], loads'[v]),
         NEW x, x = [kind |-> "pair", gens |-> [v \in {"tries", "repos"} |-> loads'[v].gen], since |-> epoch']
  PROVE  /\ Born(x) /\ x.kind = "pair" /\ x.since = epoch'
         /\ \A v : Carries(x, v) <=> v \in {"tries", "repos"}
         /\ \A v \in {"tries", "repos"} : Gen(x, v) = loads'[v].gen
<1>1. x.kind = "pair" /\ x.since = epoch' /\ \A v \in {"tries", "repos"} : x.gens[v] = loads'[v].gen
  OBVIOUS
<1>2. x \in Pairs
  BY DEF Pairs
<1>3. \A v : Carries(x, v) <=> v \in {"tries", "repos"}
  BY <1>1 DEF Carries
<1>4. \A v \in {"tries", "repos"} : Gen(x, v) = loads'[v].gen
  BY <1>1 DEF Gen
<1>5. Born(x)
  BY <1>1, <1>2, <1>3, <1>4 DEF Born, Mail
<1> QED BY <1>1, <1>3, <1>4, <1>5

LEMMA ReadBorn ==
  ASSUME epoch' \in Nat, NEW v \in Views, loads'[v].gen \in Nat, Starts(loads[v], loads'[v]),
         NEW src \in Nat, NEW x, x = Read(loads', v, epoch', src)
  PROVE  /\ Born(x) /\ x.kind = "read" /\ x.since = epoch'
         /\ \A w : Carries(x, w) <=> w = v
         /\ Gen(x, v) = loads'[v].gen
         /\ v \in Dependents => x.src = src
<1>1. /\ x.kind = "read" /\ x.v = v /\ x.gen = loads'[v].gen /\ x.since = epoch' /\ x.src \in Nat
      /\ v \in Dependents => x.src = src
  BY DEF Read
<1>2. (\A w : Carries(x, w) <=> w = v) /\ Gen(x, v) = loads'[v].gen
  BY <1>1 DEF Carries, Gen
<1>3. Born(x)
  BY <1>1, <1>2 DEF Born, Mail
<1> QED BY <1>1, <1>2, <1>3

LEMMA ActionDoneDoes ==
  ASSUME Types, ActionDone
  PROVE  \E C, R, N : Does(C, R, N)
<1>1. /\ Demand(Local \cup Dependents) /\ Local \cup Dependents \in SUBSET Views
      /\ loads' = BeginLocalLoads(loads) /\ local' = [gen |-> local.gen + 1, live |-> TRUE]
      /\ clone' = Following(clone, "stream") /\ flight' = flight \cup {Stream(loads')}
      /\ UNCHANGED <<rows, view, triage, skills, stopped>>
  BY ViewsAre DEF ActionDone, LocalLoads, Keep
<1>2. /\ epoch' = epoch + 1 /\ epoch' \in Nat /\ must' \in [Views -> Nat]
      /\ \A v \in Views : must'[v] = IF v \in Local \cup Dependents THEN epoch' ELSE must[v]
  BY <1>1, DemandIs
<1>3. loads \in Loads /\ local.gen \in Nat /\ clone \in CloneState
  BY DEF Types
<1>4. /\ loads' \in Loads /\ loads'["remote"] = loads["remote"]
      /\ \A v \in Local : Starts(loads[v], loads'[v]) /\ loads'[v].gen \in Nat
      /\ \A v \in Dependents : Turns(loads[v], loads'[v])
  BY <1>1, <1>3, BeginLocalIs, ViewsAre DEF Loads, ViewState
<1>5. local' \in [gen : Nat, live : BOOLEAN] /\ local'.gen = local.gen + 1 /\ local'.live /\
         local'.gen > local.gen
      /\ local'.gen \in Nat
  <2>1. local.gen + 1 \in Nat /\ local.gen + 1 > local.gen
    BY <1>3
  <2> QED BY <1>1, <2>1
<1>6. PICK x : x = Stream(loads')
  OBVIOUS
<1>7. x = [kind |-> "stream", cycle |-> local'.gen, gens |-> [v \in Local |-> loads'[v].gen],
           since |-> epoch', left |-> Local]
  BY <1>6 DEF Stream
<1>8. /\ Born(x) /\ x.kind = "stream" /\ x.since = epoch'
      /\ \A v : Carries(x, v) <=> v \in Local
      /\ \A v \in Local : Gen(x, v) = loads'[v].gen
  BY <1>2, <1>4, <1>5, <1>7, StreamBorn
<1>9. PICK N : N = {x}
  OBVIOUS
<1>10. Types'
  <2>1. clone' \in CloneState
    BY <1>1, <1>3, CloneIs
  <2>2. \A y \in flight' : Mail(y)
    BY <1>1, <1>6, <1>8 DEF Types, Born
  <2> QED BY <1>1, <1>2, <1>4, <1>5, <2>1, <2>2 DEF Types
<1>11. \A v \in Views : \/ Starts(loads[v], loads'[v]) \/ Ends(loads[v], loads'[v])
                        \/ loads'[v] = loads[v] /\ (Blank(loads[v]) \/ v = "remote")
  BY <1>4, ViewsAre DEF Turns
<1>12. Asks({}, N)
  BY <1>1, <1>4, <1>6, <1>8, <1>9, <1>10, <1>11, ViewsAre DEF Asks
<1>13. Steady({}, {}) /\ Awake
  <2>1. \A v \in Local : loads'[v].gen > loads[v].gen
    BY <1>4 DEF Starts
  <2> QED BY <1>5, <1>10, <2>1, SteadyIs DEF Awake
<1>14. Reading(N)
  <2>1. loads'["repos"].loading
    BY <1>4, ViewsAre DEF Starts
  <2>2. ASSUME NEW v \in Views, Starts(loads[v], loads'[v])
        PROVE  Waits(loads', v) \/ (Carries(x, v) /\ Gen(x, v) = loads'[v].gen)
    <3>1. v # "remote"
      BY <1>3, <1>4, <2>2 DEF Starts, Loads, ViewState
    <3>2. v \in Dependents \/ v \in Local
      BY <2>2, <3>1, ViewsAre
    <3> QED BY <1>8, <2>1, <3>2 DEF Waits
  <2> QED BY <1>8, <1>9, <2>2, ViewsAre DEF Reading
<1>15. Noted(N)
  BY <1>2, <1>8, <1>9, <1>11, ViewsAre DEF Noted
<1>16. Does({}, {}, N)
  BY <1>12, <1>13, <1>14, <1>15, Asked
<1> QED BY <1>16

\* Dependents turn, and what starts of them waits.
LEMMA RepoReadIs ==
  ASSUME NEW ls \in Loads, NEW ns \in Loads, ns = BeginViewLoad(ls, "repos")
  PROVE  /\ Starts(ls["repos"], ns["repos"]) /\ ns["repos"].loading
         /\ \A v \in Dependents : Turns(ls[v], ns[v]) /\ (Starts(ls[v], ns[v]) => Waits(ns, v))
         /\ \A v \in Views : v # "repos" /\ v \notin Dependents => ns[v] = ls[v]
<1>1. "repos" \in Views
  BY ViewsAre
<1>2. Starts(ls["repos"], ns["repos"]) /\ ns["repos"].loading
  BY <1>1, BeginIs DEF Starts
<1>3. \A v \in Views \ {"repos"} : IF v \in Dependents THEN Turns(ls[v], ns[v]) ELSE ns[v] = ls[v]
  BY <1>1, BeginIs
<1> QED BY <1>2, <1>3, ViewsAre DEF Waits

LEMMA TryDoneDoes ==
  ASSUME Types, TryDone
  PROVE  \E C, R, N : Does(C, R, N)
<1>1. PICK which : which = {"tries", "repos"} \cup Dependents
  OBVIOUS
<1>2. /\ Demand(which) /\ which \in SUBSET Views
      /\ loads' = BeginViewLoad(BeginViewLoad(loads, "tries"), "repos")
      /\ clone' = Following(clone, "read") /\ flight' = flight \cup {Pair(loads')}
      /\ UNCHANGED <<rows, local, view, triage, skills, stopped>>
  BY <1>1, ViewsAre DEF TryDone, Keep
<1>3. /\ epoch' = epoch + 1 /\ epoch' \in Nat /\ must' \in [Views -> Nat]
      /\ \A v \in Views : must'[v] = IF v \in which THEN epoch' ELSE must[v]
  BY <1>2, DemandIs
<1>4. loads \in Loads /\ local.gen \in Nat /\ clone \in CloneState
  BY DEF Types
<1>5. PICK mid \in Loads : /\ loads' = BeginViewLoad(mid, "repos")
                           /\ Starts(loads["tries"], mid["tries"])
                           /\ \A v \in Views \ {"tries"} : mid[v] = loads[v]
  BY <1>2, <1>4, BeginIs, ViewsAre
<1>6. /\ loads' \in Loads /\ Starts(loads["tries"], loads'["tries"]) /\ Starts(loads["repos"], loads'["repos"])
      /\ \A v \in Dependents : Turns(loads[v], loads'[v]) /\ (Starts(loads[v], loads'[v]) => Waits(loads', v))
      /\ \A v \in Views : v \notin which => loads'[v] = loads[v]
  <2>1. loads' \in Loads
    BY <1>5, BeginIs, ViewsAre
  <2>2. /\ Starts(mid["repos"], loads'["repos"])
        /\ \A v \in Dependents : Turns(mid[v], loads'[v]) /\ (Starts(mid[v], loads'[v]) => Waits(loads', v))
        /\ \A v \in Views : v # "repos" /\ v \notin Dependents => loads'[v] = mid[v]
    BY <1>5, <2>1, RepoReadIs
  <2> QED BY <1>1, <1>5, <2>1, <2>2, ViewsAre
<1>7. PICK x : x = Pair(loads')
  OBVIOUS
<1>8. /\ Born(x) /\ x.kind = "pair" /\ x.since = epoch'
      /\ \A v : Carries(x, v) <=> v \in {"tries", "repos"}
      /\ \A v \in {"tries", "repos"} : Gen(x, v) = loads'[v].gen
  <2>1. x = [kind |-> "pair", gens |-> [v \in {"tries", "repos"} |-> loads'[v].gen], since |-> epoch']
    BY <1>7 DEF Pair
  <2>2. \A v \in {"tries", "repos"} : loads'[v].gen \in Nat /\ Starts(loads[v], loads'[v])
    BY <1>6, ViewsAre DEF Loads, ViewState
  <2> QED BY <1>3, <2>1, <2>2, PairBorn
<1>9. PICK N : N = {x}
  OBVIOUS
<1>10. Types'
  <2>1. clone' \in CloneState
    BY <1>2, <1>4, CloneIs
  <2>2. \A y \in flight' : Mail(y)
    BY <1>2, <1>7, <1>8 DEF Types, Born
  <2> QED BY <1>2, <1>3, <1>6, <2>1, <2>2 DEF Types
<1>11. \A v \in Views : \/ Starts(loads[v], loads'[v]) \/ Ends(loads[v], loads'[v])
                        \/ loads'[v] = loads[v] /\ ((Blank(loads[v]) /\ v # "remote") \/ v \notin which)
  BY <1>1, <1>6, ViewsAre DEF Turns
<1>12. Asks({}, N)
  BY <1>2, <1>6, <1>7, <1>8, <1>9, <1>10, <1>11 DEF Asks
<1>13. Steady({}, {}) /\ Awake
  <2>1. clone'.phase = "refreshing" => clone.phase = "refreshing" /\ clone'.min = clone.min
    BY <1>2, <1>4, CloneIs
  <2> QED BY <1>2, <1>10, <2>1, SteadyIs DEF Awake
<1>14. Reading(N)
  <2>1. ASSUME NEW v \in Views, Starts(loads[v], loads'[v])
        PROVE  Waits(loads', v) \/ (Carries(x, v) /\ Gen(x, v) = loads'[v].gen)
    <3>1. v \in which
      BY <1>4, <1>6, <2>1 DEF Starts, Loads, ViewState
    <3> QED BY <1>1, <1>6, <1>8, <2>1, <3>1
  <2> QED BY <1>8, <1>9, <2>1, ViewsAre DEF Reading
<1>15. Noted(N)
  BY <1>3, <1>8, <1>9, <1>11 DEF Noted
<1>16. Does({}, {}, N)
  BY <1>12, <1>13, <1>14, <1>15, Asked
<1> QED BY <1>16

LEMMA BeginAsks ==
  ASSUME Types, Types', NEW v \in Views, loads' = BeginViewLoad(loads, v), rows' = rows,
         NEW x, Born(x), \A w : Carries(x, w) <=> w = v, Gen(x, v) = loads'[v].gen,
         NEW N, N = {x}, flight' = flight \cup N
  PROVE  /\ Asks({}, N)
         /\ (v \in Dependents => x.src = rows["repos"].id) => Reading(N)
<1>1. loads \in Loads
  BY DEF Types
<1>2. /\ Starts(loads[v], loads'[v])
      /\ \A w \in Views \ {v} : IF v = "repos" /\ w \in Dependents THEN Turns(loads[w], loads'[w])
                                ELSE loads'[w] = loads[w]
  BY <1>1, BeginIs
<1>3. \A w \in Views : loads'[w] = loads[w] \/ Starts(loads[w], loads'[w]) \/ Ends(loads[w], loads'[w])
  BY <1>2 DEF Turns
<1>4. loads'["repos"] = loads["repos"] \/ Starts(loads["repos"], loads'["repos"])
  BY <1>2, ViewsAre
<1>5. Asks({}, N)
  BY <1>3, <1>4 DEF Asks
<1>6. ASSUME v \in Dependents => x.src = rows["repos"].id PROVE Reading(N)
  <2>1. ASSUME NEW w \in Views, Starts(loads[w], loads'[w])
        PROVE  Waits(loads', w) \/ (Carries(x, w) /\ Gen(x, w) = loads'[w].gen)
    <3>1. w = v \/ (v = "repos" /\ w \in Dependents)
      BY <1>1, <1>2, <2>1 DEF Starts, Loads, ViewState
    <3>2. v = "repos" => loads'["repos"].loading
      BY <1>2 DEF Starts
    <3> QED BY <3>1, <3>2 DEF Waits
  <2> QED BY <1>6, <2>1 DEF Reading
<1> QED BY <1>5, <1>6

LEMMA ReadNowDoes ==
  ASSUME Types, NEW v \in Views, ReadNow(v)
  PROVE  \E C, R, N : Does(C, R, N)
<1>1. PICK which : which = IF v = "repos" THEN {v} \cup Dependents ELSE {v}
  OBVIOUS
<1>2. PICK src : src = rows["repos"].id
  OBVIOUS
<1>3. PICK x : x = Read(loads', v, epoch', src)
  OBVIOUS
<1>4. PICK N : N = {x}
  OBVIOUS
<1>5. /\ Demand(which) /\ which \in SUBSET Views /\ v # "remote"
      /\ loads' = BeginViewLoad(loads, v) /\ flight' = flight \cup N
      /\ clone' = clone \/ clone' = Following(clone, "read")
      /\ UNCHANGED <<rows, local, view, triage, skills, stopped>>
  BY <1>1, <1>2, <1>3, <1>4, ViewsAre DEF ReadNow, Keep
<1>6. /\ epoch' = epoch + 1 /\ epoch' \in Nat /\ must' \in [Views -> Nat]
      /\ \A w \in Views : must'[w] = IF w \in which THEN epoch' ELSE must[w]
  BY <1>5, DemandIs
<1>7. loads \in Loads /\ clone \in CloneState /\ src \in Nat
  BY <1>2, ViewsAre DEF Types, RowState
<1>8. /\ loads' \in Loads /\ Starts(loads[v], loads'[v])
      /\ \A w \in Views \ {v} : IF v = "repos" /\ w \in Dependents THEN Turns(loads[w], loads'[w])
                                ELSE loads'[w] = loads[w]
  BY <1>5, <1>7, BeginIs
<1>9. /\ Born(x) /\ x.kind = "read" /\ x.since = epoch'
      /\ \A w : Carries(x, w) <=> w = v
      /\ Gen(x, v) = loads'[v].gen
      /\ v \in Dependents => x.src = src
  <2>1. loads'[v].gen \in Nat
    BY <1>8 DEF Loads, ViewState
  <2> QED BY <1>3, <1>6, <1>7, <1>8, <2>1, ReadBorn
<1>10. Types'
  <2>1. clone' \in CloneState
    BY <1>5, <1>7, CloneIs
  <2>2. \A y \in flight' : Mail(y)
    BY <1>4, <1>5, <1>9 DEF Types, Born
  <2> QED BY <1>5, <1>6, <1>8, <2>1, <2>2 DEF Types
<1>11. Asks({}, N) /\ Reading(N)
  BY <1>2, <1>4, <1>5, <1>9, <1>10, BeginAsks
<1>12. Steady({}, {}) /\ Awake
  <2>1. clone'.phase = "refreshing" => clone.phase = "refreshing" /\ clone'.min = clone.min
    BY <1>5, <1>7, CloneIs
  <2> QED BY <1>5, <1>10, <2>1, SteadyIs DEF Awake
<1>13. Noted(N)
  <2>1. ASSUME NEW w \in Views, w \in which
        PROVE  \/ Starts(loads[w], loads'[w]) \/ Ends(loads[w], loads'[w])
               \/ loads'[w] = loads[w] /\ Blank(loads[w]) /\ w # "remote"
    BY <1>1, <1>5, <1>8, <2>1, ViewsAre DEF Turns
  <2> QED BY <1>4, <1>6, <1>9, <2>1 DEF Noted
<1>14. Does({}, {}, N)
  BY <1>11, <1>12, <1>13, Asked
<1> QED BY <1>14

LEMMA ClonedDoes ==
  ASSUME Types, Cloned
  PROVE  \E C, R, N : Does(C, R, N)
<1>1. PICK src : src = 0
  OBVIOUS
<1>2. PICK x : x = Read(loads', "repos", epoch', src)
  OBVIOUS
<1>3. PICK N : N = {x}
  OBVIOUS
<1>4. /\ loads' = BeginViewLoad(loads, "repos") /\ flight' = flight \cup N
      /\ clone' = [clone EXCEPT !.phase = "refreshing", !.canceling = FALSE,
                                !.open = @ /\ ~clone.canceling, !.min = loads'["repos"].gen,
                                !.since = epoch', !.via = "read"]
      /\ epoch' = epoch + 1
      /\ must' = [v \in Views |-> IF v \in {"repos"} \cup Dependents THEN epoch + 1 ELSE must[v]]
      /\ UNCHANGED <<rows, local, view, triage, skills, stopped>>
  BY <1>1, <1>2, <1>3 DEF Cloned, Keep
<1>5. loads \in Loads /\ clone \in CloneState /\ src \in Nat /\ epoch \in Nat /\ "repos" \in Views /\
         epoch' \in Nat
      /\ must' \in [Views -> Nat] /\ local \in [gen : Nat, live : BOOLEAN]
  BY <1>1, <1>4, ViewsAre DEF Types
<1>6. /\ loads' \in Loads /\ Starts(loads["repos"], loads'["repos"]) /\ loads'["repos"].gen \in Nat
      /\ \A v \in Dependents : Turns(loads[v], loads'[v])
      /\ \A w \in Views \ {"repos"} : IF w \in Dependents THEN Turns(loads[w], loads'[w])
                                      ELSE loads'[w] = loads[w]
  BY <1>4, <1>5, BeginIs, ViewsAre DEF Loads, ViewState
<1>7. /\ Born(x) /\ x.kind = "read" /\ x.since = epoch'
      /\ \A w : Carries(x, w) <=> w = "repos"
      /\ Gen(x, "repos") = loads'["repos"].gen
  BY <1>2, <1>5, <1>6, ReadBorn
<1>8. clone' \in CloneState /\ clone'.min = loads'["repos"].gen
  <2>1. PICK b \in BOOLEAN : b = (clone.open /\ ~clone.canceling)
    OBVIOUS
  <2>2. PICK n \in Nat, e \in Nat : n = loads'["repos"].gen /\ e = epoch'
    BY <1>5, <1>6
  <2>3. clone' = [clone EXCEPT !.phase = "refreshing", !.canceling = FALSE, !.open = b, !.min = n,
                               !.since = e, !.via = "read"]
    BY <1>4, <2>1, <2>2
  <2>4. clone' \in CloneState /\ clone'.min = n
    BY <1>5, <2>3 DEF CloneState
  <2> QED BY <2>2, <2>4
<1>9. Types'
  <2>1. \A y \in flight' : Mail(y)
    BY <1>3, <1>4, <1>7 DEF Types, Born
  <2> QED BY <1>4, <1>5, <1>6, <1>8, <2>1 DEF Types
<1>10. Asks({}, N) /\ Reading(N)
  BY <1>3, <1>4, <1>5, <1>7, <1>9, BeginAsks, ViewsAre
<1>11. Steady({}, {}) /\ Awake
  BY <1>4, <1>6, <1>8, <1>9, SteadyIs DEF Awake, Starts
<1>12. Noted(N)
  <2>1. ASSUME NEW w \in Views, w \in {"repos"} \cup Dependents
        PROVE  \/ Starts(loads[w], loads'[w]) \/ Ends(loads[w], loads'[w])
               \/ loads'[w] = loads[w] /\ Blank(loads[w]) /\ w # "remote"
    BY <1>6, <2>1, ViewsAre DEF Turns
  <2> QED BY <1>3, <1>4, <1>7, <2>1 DEF Noted
<1>13. Does({}, {}, N)
  BY <1>10, <1>11, <1>12, Asked
<1> QED BY <1>13

LEMMA CheckSkillsDoes ==
  ASSUME Types, CheckSkills
  PROVE  \E C, R, N : Does(C, R, N)
<1>1. PICK x : x = CheckMsg(loads')
  OBVIOUS
<1>2. PICK N : N = {x}
  OBVIOUS
<1>3. /\ Demand({}) /\ {} \in SUBSET Views /\ "check" \in Rare /\ view = "skills"
      /\ loads' = BeginViewLoad(loads, "skills") /\ flight' = flight \cup N
      /\ skills' = [skills EXCEPT !.checking = TRUE]
      /\ UNCHANGED <<rows, view, local, clone, triage, stopped>>
  BY <1>1, <1>2 DEF CheckSkills
<1>4. "skills" \in Views /\ "skills" \in Dependents /\ loads \in Loads
  BY <1>3, ViewsAre DEF Types
<1>5. /\ epoch' \in Nat /\ must' \in [Views -> Nat]
  BY <1>3, DemandIs
<1>6. loads' \in Loads /\ Starts(loads["skills"], loads'["skills"]) /\ loads'["skills"].gen \in Nat
  BY <1>3, <1>4, BeginIs DEF Loads, ViewState
<1>7. /\ x.kind = "read" /\ x.v = "skills" /\ x.gen = loads'["skills"].gen
      /\ x.since \in Nat /\ x.src \in Nat
  BY <1>1, <1>4 DEF CheckMsg, Types, RowState
<1>8. /\ \A w : Carries(x, w) <=> w = "skills"
      /\ Gen(x, "skills") = loads'["skills"].gen
      /\ Mail(x)
  BY <1>4, <1>6, <1>7 DEF Carries, Gen, Mail
<1>9. Born(x)
  BY <1>6, <1>7, <1>8 DEF Born
<1>10. Types'
  <2>1. \A y \in flight' : Mail(y)
    BY <1>2, <1>3, <1>8 DEF Types
  <2>2. skills' \in [err : BOOLEAN, checking : BOOLEAN]
    BY <1>3 DEF Types
  <2> QED BY <1>3, <1>4, <1>5, <1>6, <2>1, <2>2 DEF Types
<1>11. Asks({}, N)
  BY <1>2, <1>3, <1>4, <1>8, <1>9, <1>10, BeginAsks
<1>12. Steady({}, {})
  BY <1>3, <1>10, SteadyIs
<1>13. Does({}, {}, N)
  BY <1>3, <1>10, <1>11, <1>12, Asking DEF Does, Changes, Calm
<1> QED BY <1>13

-----------------------------------------------------------------------------
(***************************************************************************)
(* Ends of streams, the configuration, the cache.                          *)
(***************************************************************************)

LEMMA ConfigFailedDoes ==
  ASSUME Types, NEW x \in flight, ConfigFailed(x)
  PROVE  \E C, R, N : Does(C, R, N)
<1>1. PICK C, N : C = {x} /\ N = {}
  OBVIOUS
<1>2. /\ x.kind = "config" /\ flight' = (flight \ C) \cup N
      /\ UNCHANGED <<loads, rows, view, local, clone, epoch, must, triage, skills, stopped>>
  BY <1>1 DEF ConfigFailed, Message, Keep
<1>3. Types'
  BY <1>1, <1>2 DEF Types
<1>4. Steady(C, {}) /\ Awake /\ epoch' >= epoch
  BY <1>2, <1>3, SteadyIs DEF Awake, Types
<1>5. \A y \in C \cup N : Mail(y) /\ y.kind \in {"config", "cache"}
  BY <1>1, <1>2 DEF Types
<1>6. Does(C, {}, N)
  BY <1>1, <1>2, <1>3, <1>4, <1>5, Resting DEF Does, Changes
<1> QED BY <1>6

LEMMA StreamEndDoes ==
  ASSUME Types, StreamsInv, NEW x \in flight, StreamEnd(x)
  PROVE  \E C, R, N : Does(C, R, N)
<1>1. PICK C : C = {x}
  OBVIOUS
<1>2. /\ x.kind = "stream"
      /\ x.left # {} => ~Current(x) \/ ~local.live
      /\ flight' = flight \ C
      /\ UNCHANGED <<loads, rows, view, epoch, must, triage, skills, stopped>>
      /\ \/ Current(x) /\ local' = [local EXCEPT !.live = FALSE] /\
              clone' = FinishedStream(clone, x.gens["repos"])
         \/ ~Current(x) /\ local' = local /\ clone' = clone
  BY <1>1 DEF StreamEnd, Message, Keep
<1>3. clone \in CloneState /\ local \in [gen : Nat, live : BOOLEAN] /\ local.gen \in Nat
  BY DEF Types
<1>4. local' \in [gen : Nat, live : BOOLEAN] /\ local'.gen = local.gen
  BY <1>2, <1>3
<1>5. Types'
  <2>1. clone' \in CloneState
    BY <1>2, <1>3, CloneIs
  <2> QED BY <1>1, <1>2, <1>4, <2>1 DEF Types
<1>6. Comes(C, {}, {})
  BY <1>1, <1>2 DEF Comes
<1>7. Shifts /\ Turned({}) /\ \A v \in Views : Renewed(v)
  BY <1>2 DEF Shifts, Turned, Renewed
<1>8. Feeds
  BY <1>2 DEF Feeds, Waits
<1>9. Tells({})
  BY <1>2 DEF Types, Tells
<1>10. ASSUME Current(x) PROVE \A y \in flight' : y.kind = "stream" => y.cycle # local.gen
  BY <1>1, <1>2, <1>10 DEF StreamsInv, Current
<1>11. Awake
  BY <1>2, <1>10 DEF Awake
<1>12. Steady(C, {})
  BY <1>2, <1>3, <1>4, <1>10 DEF Steady
<1>13. ASSUME Alive PROVE Stays(C, {})
  <2>1. \A v \in Views : Due(x, v) => v \in x.left /\ v \in Local
    <3>1. x \in Streams
      BY <1>2, Kinds DEF Types
    <3> QED BY <1>2, <3>1 DEF Due, Carries, Streams
  <2>2. \A v \in Views : ~Due(x, v)
    BY <1>2, <1>13, <2>1 DEF Alive
  <2> QED BY <1>1, <2>2 DEF Stays
<1>14. Does(C, {}, {})
  BY <1>5, <1>6, <1>7, <1>8, <1>9, <1>11, <1>12, <1>13 DEF Does, Changes, Effects
<1> QED BY <1>14

LEMMA CacheAnswerDoes ==
  ASSUME Types, NEW x \in flight, NEW stale \in BOOLEAN, CacheAnswer(x, stale)
  PROVE  \E C, R, N : Does(C, R, N)
<1>1. PICK C : C = {x}
  OBVIOUS
<1>2. /\ x.kind = "cache" /\ flight' = flight \ C
      /\ rows' = [rows EXCEPT !["remote"] = Shown("remote", x.gen, "ok", x.since, 0)]
      /\ loads' = IF Accepts(loads, "remote", x.gen)
                  THEN [loads EXCEPT !["remote"].has = TRUE, !["remote"].fresh = ~stale,
                                     !["remote"].ok = TRUE]
                  ELSE loads
      /\ UNCHANGED <<view, local, clone, epoch, must, triage, skills, stopped>>
  BY <1>1 DEF CacheAnswer, Message, Keep
<1>3. /\ loads \in Loads /\ rows \in [Views -> RowState] /\ "remote" \in Views /\ loads["remote"] \in ViewState
      /\ x.gen \in Nat /\ x.since \in Nat
  BY <1>2, ViewsAre, Kinds DEF Types, Loads
<1>4. /\ loads' \in Loads
      /\ \A v \in Views : loads'[v].gen = loads[v].gen /\ loads'[v].loading = loads[v].loading
      /\ \A v \in Views : v # "remote" => loads'[v] = loads[v]
  <2>1. ASSUME NEW b \in BOOLEAN, NEW ls, ls = [loads EXCEPT !["remote"].has = TRUE, !["remote"].fresh = b,
           !["remote"].ok = TRUE]
        PROVE  /\ ls \in Loads
               /\ \A v \in Views : ls[v].gen = loads[v].gen /\ ls[v].loading = loads[v].loading
               /\ \A v \in Views : v # "remote" => ls[v] = loads[v]
    <3>1. LET s == [loads["remote"] EXCEPT !.has = TRUE, !.fresh = b, !.ok = TRUE]
          IN  s \in ViewState /\ s.gen = loads["remote"].gen /\ s.loading = loads["remote"].loading
      BY <1>3 DEF ViewState
    <3>2. ls = [loads EXCEPT !["remote"] = [@ EXCEPT !.has = TRUE, !.fresh = b, !.ok = TRUE]]
      BY <1>3, <2>1 DEF Loads
    <3> QED BY <1>3, <3>1, <3>2 DEF Loads
  <2> QED BY <1>2, <1>3, <2>1
<1>5. rows' \in [Views -> RowState] /\ \A v \in Views : v # "remote" => rows'[v] = rows[v]
  BY <1>2, <1>3 DEF Shown, RowState
<1>6. Types'
  BY <1>1, <1>2, <1>4, <1>5 DEF Types
<1>7. Comes(C, {}, {})
  BY <1>1, <1>2 DEF Comes
<1>8. \A v : ~Carries(x, v)
  BY <1>2 DEF Carries
<1>9. Shifts /\ Stays(C, {}) /\ Turned({})
  <2>1. rows'["repos"] = rows["repos"] /\ loads'["repos"] = loads["repos"]
    BY <1>4, <1>5, ViewsAre
  <2> QED BY <1>1, <1>4, <1>8, <2>1 DEF Shifts, Stays, Due, Turned
<1>10. Feeds
  BY <1>4, ViewsAre DEF Feeds, Waits
<1>11. Tells({}) /\ Awake
  BY <1>2 DEF Types, Tells, Awake
<1>12. Steady(C, {})
  BY <1>2, <1>6, SteadyIs
<1>13. ASSUME NEW v \in Views PROVE Renewed(v)
  <2>1. CASE v = "remote" /\ Accepts(loads, "remote", x.gen)
    <3>1. rows'[v].since = x.since /\ x.gen = loads[v].gen /\ v \notin Dependents
      BY <1>2, <1>3, <2>1, ViewsAre DEF Shown, Accepts
    <3> QED BY <1>2, <2>1, <3>1 DEF Renewed
  <2>2. CASE ~(v = "remote" /\ Accepts(loads, "remote", x.gen))
    BY <1>2, <1>3, <1>4, <1>5, <2>2 DEF Renewed, Shown
  <2> QED BY <2>1, <2>2
<1>14. Does(C, {}, {})
  BY <1>6, <1>7, <1>9, <1>10, <1>11, <1>12, <1>13 DEF Does, Changes, Effects
<1> QED BY <1>14

-----------------------------------------------------------------------------
(***************************************************************************)
(* Answers with rows.                                                      *)
(***************************************************************************)

\* x is what the view waits for, and `ls` says of the view what it has brought.
Got(x, v, ls) ==
  /\ Due(x, v)
  /\ ls[v].gen = loads[v].gen /\ ~ls[v].loading
  /\ Fresh(ls[v]) => rows'[v].since = x.since /\ (v \in Dependents => rows'[v].src = x.src)

\* The views after x, of which R is left, before REPOS lets others go on.
Brings(x, R, ls) ==
  /\ ls \in Loads /\ rows' \in [Views -> RowState]
  /\ \A y \in R : Remnant(y, x)
  /\ \A y, z \in R : y = z
  /\ \A v \in Views :
        \/ /\ ls[v] = loads[v] /\ rows'[v] = rows[v]
           /\ Due(x, v) => \E y \in R : Carries(y, v)
        \/ Got(x, v, ls) /\ \A y \in R : ~Carries(y, v)
  /\ must' = must /\ epoch' = epoch /\ local' = local /\ stopped' = stopped /\ triage' = triage /\ view' = view
  /\ skills' \in [err : BOOLEAN, checking : BOOLEAN] /\ (skills'.checking => skills.checking)

LEMMA ClosedIs ==
  ASSUME Types, Messages, NEW x \in flight, NEW R, NEW N, Comes({x}, R, N), NEW v \in Views,
         Due(x, v), \A y \in R \cup N : ~Carries(y, v),
         loads'[v].gen = loads[v].gen, ~loads'[v].loading
  PROVE  Closed(v)
<1>1. ASSUME v \in Sure, NEW y \in flight', Carries(y, v), Gen(y, v) = loads'[v].gen PROVE FALSE
  <2>1. y \in flight /\ y # x
    BY <1>1 DEF Comes
  <2>2. Due(y, v)
    BY <1>1 DEF Due
  <2> QED BY <1>1, <2>1, <2>2 DEF Messages
<1> QED BY <1>1 DEF Closed

\* What is left of a stream.
LEMMA LeftIs ==
  ASSUME Types, NEW x \in flight, NEW R, NEW ls, Brings(x, R, ls),
         \A v \in Local : loads'[v] = ls[v]
  PROVE  \A c \in {x}, y \in R : Remnant(y, c) =>
            \A v \in c.left \ y.left : c.gens[v] = loads'[v].gen => ~loads'[v].loading
<1> SUFFICES ASSUME NEW y \in R, Remnant(y, x), NEW v \in x.left \ y.left, x.gens[v] = loads'[v].gen
             PROVE  ~loads'[v].loading
  OBVIOUS
<1>1. x \in Streams /\ y \in Streams /\ x.kind = "stream" /\ y.kind = "stream" /\ v \in Local /\ v \in Views
  BY ViewsAre DEF Remnant, Streams
<1>2. Carries(x, v) /\ ~Carries(y, v) /\ Gen(x, v) = loads'[v].gen /\ loads'[v] = ls[v]
  BY <1>1 DEF Carries, Gen
<1>3. CASE ls[v] = loads[v] /\ (Due(x, v) => \E z \in R : Carries(z, v))
  BY <1>2, <1>3 DEF Brings, Due
<1>4. CASE Got(x, v, ls)
  BY <1>2, <1>4 DEF Got
<1> QED BY <1>1, <1>3, <1>4 DEF Brings

\* An answer that is not of REPOS, or is late.
LEMMA PlainDoes ==
  ASSUME Types, Messages, NEW x \in flight, NEW R, NEW ls, Brings(x, R, ls),
         loads' = ls, clone' = clone, flight' = (flight \ {x}) \cup R,
         loads'["repos"] = loads["repos"], rows'["repos"] = rows["repos"]
  PROVE  \E C, S, N : Does(C, S, N)
<1>1. PICK C, N : C = {x} /\ N = {}
  OBVIOUS
<1>2. Comes(C, R, N)
  BY <1>1 DEF Comes, Brings
<1>3. Types'
  <2>1. \A y \in flight' : Mail(y)
    BY <1>2, MailStays
  <2> QED BY <2>1 DEF Types, Brings
<1>4. \A v \in Views : \/ /\ loads'[v] = loads[v] /\ rows'[v] = rows[v]
                          /\ Due(x, v) => \E y \in R : Carries(y, v)
                       \/ Got(x, v, loads') /\ \A y \in R : ~Carries(y, v)
  BY DEF Brings
<1>5. ASSUME NEW v \in Views, Got(x, v, loads'), \A y \in R : ~Carries(y, v) PROVE Closed(v)
  BY <1>1, <1>2, <1>5, ClosedIs DEF Got
<1>6. Shifts
  BY <1>4, <1>5 DEF Shifts
<1>7. Stays(C, R)
  <2>1. ASSUME NEW v \in Views, Due(x, v), loads'[v].loading
        PROVE  \E y \in R : Remnant(y, x) /\ Carries(y, v)
    BY <1>4, <2>1 DEF Got, Brings
  <2> QED BY <1>1, <2>1 DEF Stays
<1>8. Steady(C, R)
  <2>1. \A c \in C, y \in R : Remnant(y, c) =>
            \A v \in c.left \ y.left : c.gens[v] = loads'[v].gen => ~loads'[v].loading
    BY <1>1, LeftIs
  <2>2. local' = local /\ stopped' = stopped /\ local.gen \in Nat
    BY DEF Brings, Types
  <2> QED BY <2>1, <2>2 DEF Steady
<1>9. Feeds
  BY <1>4 DEF Feeds, Got, Waits
<1>10. Turned(N) /\ Awake
  BY <1>1 DEF Turned, Awake, Brings
<1>11. \A v \in Views : Renewed(v)
  BY <1>4 DEF Renewed, Got, Brings
<1>12. Tells(N)
  BY <1>1 DEF Tells, Brings, Types
<1>13. Does(C, R, N)
  BY <1>2, <1>3, <1>6, <1>7, <1>8, <1>9, <1>10, <1>11, <1>12 DEF Does, Changes, Effects
<1> QED BY <1>13

\* An answer of REPOS that is awaited.
LEMMA ReposDoes ==
  ASSUME Types, Messages, NEW x \in flight, NEW R, NEW ls, NEW outcome, NEW src, NEW N, Brings(x, R, ls),
         \A v \in Dependents : ls[v] = loads[v] /\ rows'[v] = rows[v],
         loads' = AfterRepos(ls, outcome),
         src = rows'["repos"].id, N = ReadSet(loads', Dependents, src, epoch'),
         flight' = ((flight \ {x}) \cup R) \cup N,
         clone' \in CloneState, clone'.phase = "refreshing" => clone' = clone
  PROVE  \E C, S, M : Does(C, S, M)
<1>0. Dependents \subseteq Views /\ src \in Nat /\ epoch' \in Nat /\ local.gen \in Nat
  BY ViewsAre DEF Brings, RowState, Types
<1>1. PICK C : C = {x}
  OBVIOUS
<1>2. ls \in Loads
  BY DEF Brings
<1>3. /\ loads' \in Loads
      /\ \A v \in Views \ Dependents : loads'[v] = ls[v]
      /\ \A v \in Dependents : Turns(loads[v], loads'[v])
  BY <1>2, AfterReposIs
<1>4. \A v \in Dependents : loads'[v].loading => Starts(loads[v], loads'[v])
  BY <1>3 DEF Turns, Ends, Blank
<1>5. ReadsRight(Dependents, src, N)
  BY <1>0, <1>3, <1>4, ReadsBorn
<1>6. /\ \A y \in N : /\ Born(y) /\ y.kind = "read" /\ y.since = epoch' /\ y.v \in Dependents /\ y.src = src
      /\ \A y, z \in N : \A v : Carries(y, v) /\ Carries(z, v) => y = z
      /\ \A v \in Dependents : loads'[v].loading =>
            Waits(loads', v) \/ \E y \in N : Carries(y, v) /\ Gen(y, v) = loads'[v].gen
  BY <1>5 DEF ReadsRight, ReadBy
<1>7. \A y \in N : \A v : Carries(y, v) => v \in Dependents
  BY <1>6 DEF Carries
<1>8. Comes(C, R, N)
  BY <1>1, <1>6 DEF Comes, Brings
<1>9. Types'
  <2>1. \A y \in flight' : Mail(y)
    BY <1>8, MailStays
  <2> QED BY <1>3, <2>1 DEF Types, Brings
<1>10. \A v \in Views \ Dependents :
          \/ /\ loads'[v] = loads[v] /\ rows'[v] = rows[v]
             /\ Due(x, v) => \E y \in R : Carries(y, v)
          \/ Got(x, v, loads') /\ \A y \in R \cup N : ~Carries(y, v)
  BY <1>3, <1>7 DEF Brings, Got
<1>11. ASSUME NEW v \in Views, Got(x, v, loads'), \A y \in R \cup N : ~Carries(y, v) PROVE Closed(v)
  BY <1>1, <1>8, <1>11, ClosedIs DEF Got
<1>12. Shifts
  BY <1>3, <1>10, <1>11 DEF Shifts, Turns, Starts, Ends
<1>13. Stays(C, R)
  <2>1. ASSUME NEW v \in Views, Due(x, v), loads'[v].gen = loads[v].gen, loads'[v].loading
        PROVE  \E y \in R : Remnant(y, x) /\ Carries(y, v)
    <3>1. v \notin Dependents
      BY <1>0, <1>4, <2>1 DEF Starts, Types, Loads, ViewState
    <3> QED BY <1>10, <2>1, <3>1 DEF Got, Brings
  <2> QED BY <1>1, <2>1 DEF Stays
<1>14. Steady(C, R)
  <2>1. \A c \in C, y \in R : Remnant(y, c) =>
            \A v \in c.left \ y.left : c.gens[v] = loads'[v].gen => ~loads'[v].loading
    <3>1. \A v \in Local : loads'[v] = ls[v]
      BY <1>3, ViewsAre
    <3> QED BY <1>1, <3>1, LeftIs
  <2>2. local' = local /\ stopped' = stopped
    BY DEF Brings
  <2> QED BY <1>0, <2>1, <2>2 DEF Steady
<1>15. Feeds
  <2>1. ASSUME NEW v \in Views, loads'[v].loading, ~Waits(loads', v)
        PROVE  \/ \E y \in flight' : Carries(y, v) /\ Gen(y, v) = loads'[v].gen
               \/ loads'[v].gen = loads[v].gen /\ loads[v].loading /\ ~Waits(loads, v)
    <3>1. CASE v \in Dependents
      BY <1>6, <2>1, <3>1 DEF Comes
    <3>2. CASE v \notin Dependents
      BY <1>10, <2>1, <3>2 DEF Got, Waits
    <3> QED BY <3>1, <3>2
  <2> QED BY <2>1 DEF Feeds
<1>16. Turned(N) /\ Awake
  BY <1>3, <1>6 DEF Turned, Awake, Brings
<1>17. ASSUME NEW v \in Views PROVE Renewed(v)
  <2>1. CASE v \in Dependents
    BY <1>3, <2>1 DEF Renewed, Turns, Starts, Ends
  <2>2. CASE v \notin Dependents
    BY <1>10, <2>2 DEF Renewed, Got, Brings
  <2> QED BY <2>1, <2>2
<1>18. Tells(N)
  BY <1>6 DEF Tells, Brings, Types
<1>19. Does(C, R, N)
  BY <1>8, <1>9, <1>12, <1>13, <1>14, <1>15, <1>16, <1>17, <1>18 DEF Does, Changes, Effects
<1> QED BY <1>19

\* ReposResult, after an answer that may hold REPOS.
LEMMA ReposResultDoes ==
  ASSUME Types, Messages, NEW x \in flight, NEW R, NEW ls, NEW gen, NEW outcome, NEW gone, NEW rest,
         Brings(x, R, ls), rest = (flight \ {x}) \cup R, ReposResult(ls, gen, outcome, gone, rest),
         Accepts(loads, "repos", gen) => \A v \in Dependents : ls[v] = loads[v] /\ rows'[v] = rows[v],
         ~Accepts(loads, "repos", gen) => ls["repos"] = loads["repos"] /\ rows'["repos"] = rows["repos"]
  PROVE  \E C, S, N : Does(C, S, N)
<1>1. CASE Accepts(loads, "repos", gen)
  <2>1. PICK src, N : src = rows'["repos"].id /\ N = ReadSet(loads', Dependents, src, epoch')
                      /\ flight' = rest \cup N
    <3>1. PICK src : src = rows'["repos"].id
      OBVIOUS
    <3>2. flight' = rest \cup Reads(loads', Dependents, src)
      BY <1>1, <3>1 DEF ReposResult
    <3>3. Reads(loads', Dependents, src) = ReadSet(loads', Dependents, src, epoch')
      BY DEF Reads, ReadSet
    <3> QED BY <3>1, <3>2, <3>3
  <2>2. loads' = AfterRepos(ls, outcome) /\ clone' = FinishedRefresh(clone, gen, outcome, gone)
    BY <1>1 DEF ReposResult
  <2>3. clone' \in CloneState /\ (clone'.phase = "refreshing" => clone' = clone)
    BY <2>2, CloneIs DEF Types
  <2>4. flight' = ((flight \ {x}) \cup R) \cup N
    BY <2>1
  <2> QED BY <1>1, <2>1, <2>2, <2>3, <2>4, ReposDoes
<1>2. CASE ~Accepts(loads, "repos", gen)
  BY <1>2, PlainDoes DEF ReposResult
<1> QED BY <1>1, <1>2

\* What Applied and Shown make of one view's answer.
LEMMA AppliedGot ==
  ASSUME Types, NEW x \in flight, NEW v \in Views, NEW gen \in Nat, NEW outcome, NEW since \in Nat,
           NEW src \in Nat
  PROVE  LET ns == Applied(loads, v, gen, outcome)[v]
             r == Shown(v, gen, outcome, since, src)
         IN  /\ r \in RowState
             /\ ~Accepts(loads, v, gen) => ns = loads[v] /\ r = rows[v]
             /\ Accepts(loads, v, gen) =>
                   /\ ns.gen = loads[v].gen /\ ~ns.loading
                   /\ Fresh(ns) => r.since = since /\ r.src = src
<1>1. loads \in Loads /\ loads[v] \in ViewState /\ rows[v] \in RowState
  BY DEF Types, Loads
<1>2. Shown(v, gen, outcome, since, src) \in RowState
  BY <1>1 DEF Shown, RowState
<1>3. CASE ~Accepts(loads, v, gen)
  BY <1>1, <1>2, <1>3, AppliedIs DEF Shown
<1>4. CASE Accepts(loads, v, gen)
  <2>1. Applied(loads, v, gen, outcome)[v] = Result(loads[v], outcome)
    BY <1>1, <1>4, AppliedIs
  <2>2. /\ Result(loads[v], outcome).gen = loads[v].gen /\ ~Result(loads[v], outcome).loading
        /\ Result(loads[v], outcome).fresh = (outcome = "ok")
    BY <1>1, States
  <2>3. outcome = "ok" => /\ Shown(v, gen, outcome, since, src).since = since
                          /\ Shown(v, gen, outcome, since, src).src = src
    BY <1>4 DEF Shown
  <2> QED BY <1>2, <1>4, <2>1, <2>2, <2>3 DEF Fresh
<1> QED BY <1>3, <1>4

LEMMA AnswerDoes ==
  ASSUME Types, Messages, NEW x \in flight, NEW outcome, NEW gone, Answer(x, outcome, gone)
  PROVE  \E C, R, N : Does(C, R, N)
<1>1. PICK v : v = x.v
  OBVIOUS
<1>2. PICK R : R = {}
  OBVIOUS
<1>3. PICK ls : ls = Applied(loads, v, x.gen, outcome)
  OBVIOUS
<1>4. /\ x.kind = "read" /\ rows' = [rows EXCEPT ![v] = Shown(v, x.gen, outcome, x.since, x.src)]
      /\ UNCHANGED <<view, local, triage, epoch, must, stopped>>
      /\ skills' = skills \/ skills' = [err |-> outcome # "ok", checking |-> FALSE]
  BY <1>1 DEF Answer, Message
<1>5. v \in Views /\ x.gen \in Nat /\ x.since \in Nat /\ x.src \in Nat /\ loads \in Loads /\
         rows \in [Views -> RowState]
  BY <1>1, <1>4, Kinds DEF Types
<1>6. /\ rows'[v] \in RowState
      /\ ~Accepts(loads, v, x.gen) => ls[v] = loads[v] /\ rows'[v] = rows[v]
      /\ Accepts(loads, v, x.gen) => /\ ls[v].gen = loads[v].gen /\ ~ls[v].loading
                                     /\ Fresh(ls[v]) => rows'[v].since = x.since /\ rows'[v].src = x.src
  BY <1>3, <1>4, <1>5, AppliedGot
<1>7. ls \in Loads /\ \A w \in Views \ {v} : ls[w] = loads[w] /\ rows'[w] = rows[w]
  BY <1>3, <1>4, <1>5, AppliedIs
<1>8. rows' \in [Views -> RowState]
  BY <1>4, <1>5, <1>6
<1>9. \A w : Carries(x, w) <=> w = v
  BY <1>1, <1>4 DEF Carries
<1>10. Due(x, v) <=> Accepts(loads, v, x.gen)
  BY <1>4, <1>9 DEF Due, Gen, Accepts
<1>11. Brings(x, R, ls)
  <2>1. \A w \in Views : \/ /\ ls[w] = loads[w] /\ rows'[w] = rows[w]
                            /\ Due(x, w) => \E y \in R : Carries(y, w)
                         \/ Got(x, w, ls) /\ \A y \in R : ~Carries(y, w)
    BY <1>2, <1>6, <1>7, <1>9, <1>10 DEF Got, Due
  <2>2. skills' \in [err : BOOLEAN, checking : BOOLEAN] /\ (skills'.checking => skills.checking)
    <3>1. PICK b \in BOOLEAN : b = (outcome # "ok")
      OBVIOUS
    <3>2. skills' = skills \/ skills' = [err |-> b, checking |-> FALSE]
      BY <1>4, <3>1
    <3>3. CASE skills' = skills
      BY <3>3 DEF Types
    <3>4. CASE skills' = [err |-> b, checking |-> FALSE]
      <4>1. skills'.checking = FALSE
        BY <3>4
      <4> QED BY <3>4, <4>1
    <3> QED BY <3>2, <3>3, <3>4
  <2> QED BY <1>2, <1>4, <1>7, <1>8, <2>1, <2>2 DEF Brings
<1>12. PICK rest : rest = (flight \ {x}) \cup R
  OBVIOUS
<1>13. CASE v = "repos"
  <2>1. ReposResult(ls, x.gen, outcome, gone, rest)
    BY <1>1, <1>2, <1>3, <1>12, <1>13 DEF Answer
  <2>2. \A w \in Dependents : ls[w] = loads[w] /\ rows'[w] = rows[w]
    BY <1>7, <1>13, ViewsAre
  <2>3. ~Accepts(loads, "repos", x.gen) => ls["repos"] = loads["repos"] /\ rows'["repos"] = rows["repos"]
    BY <1>6, <1>13
  <2> QED BY <1>11, <1>12, <2>1, <2>2, <2>3, ReposResultDoes
<1>14. CASE v # "repos"
  <2>1. loads' = ls /\ flight' = (flight \ {x}) \cup R /\ clone' = clone
    BY <1>1, <1>2, <1>3, <1>14 DEF Answer
  <2>2. loads'["repos"] = loads["repos"] /\ rows'["repos"] = rows["repos"]
    BY <1>7, <1>14, <2>1, ViewsAre
  <2> QED BY <1>11, <2>1, <2>2, PlainDoes
<1> QED BY <1>13, <1>14

LEMMA PairAnswerDoes ==
  ASSUME Types, Messages, NEW x \in flight, NEW outcomes, NEW gone, PairAnswer(x, outcomes, gone)
  PROVE  \E C, R, N : Does(C, R, N)
<1>1. PICK R : R = {}
  OBVIOUS
<1>2. PICK tg, rg : tg = x.gens["tries"] /\ rg = x.gens["repos"]
  OBVIOUS
<1>3. PICK mid : mid = Applied(loads, "tries", tg, outcomes["tries"])
  OBVIOUS
<1>4. PICK ls : ls = Applied(mid, "repos", rg, outcomes["repos"])
  OBVIOUS
<1>5. PICK rest : rest = (flight \ {x}) \cup R
  OBVIOUS
<1>6. /\ x.kind = "pair"
      /\ rows' = [v \in Views |-> IF v \in {"tries", "repos"}
                      THEN Shown(v, x.gens[v], outcomes[v], x.since, 0) ELSE rows[v]]
      /\ UNCHANGED <<view, local, triage, skills, epoch, must, stopped>>
      /\ ReposResult(ls, rg, outcomes["repos"], gone, rest)
  BY <1>1, <1>2, <1>3, <1>4, <1>5 DEF PairAnswer, Message, Keep
<1>7. /\ x \in Pairs /\ tg \in Nat /\ rg \in Nat /\ x.since \in Nat /\ 0 \in Nat
      /\ loads \in Loads /\ rows \in [Views -> RowState] /\ "tries" \in Views /\ "repos" \in Views
  <2>1. x \in Pairs
    BY <1>6, Kinds DEF Types
  <2> QED BY <1>2, <2>1, ViewsAre DEF Pairs, Types
<1>8. mid \in Loads /\ \A w \in Views \ {"tries"} : mid[w] = loads[w]
  BY <1>3, <1>7, AppliedIs
<1>9. /\ ls \in Loads /\ \A w \in Views \ {"repos"} : ls[w] = mid[w]
      /\ ls["repos"] = Applied(loads, "repos", rg, outcomes["repos"])["repos"]
  <2>1. ls \in Loads /\ \A w \in Views \ {"repos"} : ls[w] = mid[w]
    BY <1>4, <1>7, <1>8, AppliedIs
  <2>2. Accepts(mid, "repos", rg) <=> Accepts(loads, "repos", rg)
    BY <1>7, <1>8 DEF Accepts
  <2>3. mid["repos"] = loads["repos"]
    BY <1>7, <1>8
  <2>4. CASE Accepts(loads, "repos", rg)
    <3>1. ls["repos"] = Result(mid["repos"], outcomes["repos"])
      BY <1>4, <1>7, <1>8, <2>2, <2>4, AppliedIs
    <3>2. Applied(loads, "repos", rg, outcomes["repos"])["repos"] = Result(loads["repos"], outcomes["repos"])
      BY <1>7, <2>4, AppliedIs
    <3> QED BY <2>1, <2>3, <3>1, <3>2
  <2>5. CASE ~Accepts(loads, "repos", rg)
    <3>1. ls = mid
      BY <1>4, <1>7, <1>8, <2>2, <2>5, AppliedIs
    <3>2. Applied(loads, "repos", rg, outcomes["repos"]) = loads
      BY <1>7, <2>5, AppliedIs
    <3> QED BY <2>1, <2>3, <3>1, <3>2
  <2> QED BY <2>4, <2>5
<1>10. /\ rows'["tries"] = Shown("tries", tg, outcomes["tries"], x.since, 0)
       /\ rows'["repos"] = Shown("repos", rg, outcomes["repos"], x.since, 0)
       /\ \A w \in Views \ {"tries", "repos"} : rows'[w] = rows[w] /\ ls[w] = loads[w]
  BY <1>2, <1>6, <1>7, <1>8, <1>9
<1>11. /\ rows'["tries"] \in RowState
       /\ ~Accepts(loads, "tries", tg) => ls["tries"] = loads["tries"] /\ rows'["tries"] = rows["tries"]
       /\ Accepts(loads, "tries", tg) => /\ ls["tries"].gen = loads["tries"].gen /\ ~ls["tries"].loading
                                         /\ Fresh(ls["tries"]) => rows'["tries"].since = x.since
  <2>1. ls["tries"] = Applied(loads, "tries", tg, outcomes["tries"])["tries"]
    BY <1>3, <1>7, <1>9
  <2> QED BY <1>7, <1>10, <2>1, AppliedGot
<1>12. /\ rows'["repos"] \in RowState
       /\ ~Accepts(loads, "repos", rg) => ls["repos"] = loads["repos"] /\ rows'["repos"] = rows["repos"]
       /\ Accepts(loads, "repos", rg) => /\ ls["repos"].gen = loads["repos"].gen /\ ~ls["repos"].loading
                                         /\ Fresh(ls["repos"]) => rows'["repos"].since = x.since
  BY <1>7, <1>9, <1>10, AppliedGot
<1>13. rows' \in [Views -> RowState]
  <2>1. \A w \in Views : rows'[w] \in RowState
    BY <1>7, <1>10, <1>11, <1>12
  <2> QED BY <1>6, <2>1
<1>14. \A w : Carries(x, w) <=> w \in {"tries", "repos"}
  BY <1>6 DEF Carries
<1>15. (Due(x, "tries") <=> Accepts(loads, "tries", tg)) /\ (Due(x, "repos") <=> Accepts(loads, "repos", rg))
  BY <1>2, <1>6, <1>14 DEF Due, Gen, Accepts
<1>16. Brings(x, R, ls)
  <2>1. \A w \in Views : \/ /\ ls[w] = loads[w] /\ rows'[w] = rows[w]
                            /\ Due(x, w) => \E y \in R : Carries(y, w)
                         \/ Got(x, w, ls) /\ \A y \in R : ~Carries(y, w)
    BY <1>1, <1>10, <1>11, <1>12, <1>14, <1>15, ViewsAre DEF Got, Due
  <2>2. skills' \in [err : BOOLEAN, checking : BOOLEAN] /\ (skills'.checking => skills.checking)
    BY <1>6 DEF Types
  <2> QED BY <1>1, <1>6, <1>9, <1>13, <2>1, <2>2 DEF Brings
<1>17. \A w \in Dependents : ls[w] = loads[w] /\ rows'[w] = rows[w]
  BY <1>10, ViewsAre
<1>18. PICK outcome : outcome = outcomes["repos"]
  OBVIOUS
<1> QED BY <1>5, <1>6, <1>12, <1>16, <1>17, <1>18, ReposResultDoes

LEMMA StreamAnswerDoes ==
  ASSUME Types, Messages, NEW x \in flight, NEW v \in Local, NEW outcome, NEW gone,
           StreamAnswer(x, v, outcome, gone)
  PROVE  \E C, R, N : Does(C, R, N)
<1>1. PICK y : y = [x EXCEPT !.left = @ \ {v}]
  OBVIOUS
<1>2. PICK R : R = {y}
  OBVIOUS
<1>3. PICK gen : gen = x.gens[v]
  OBVIOUS
<1>4. PICK ls : ls = Applied(loads, v, gen, outcome)
  OBVIOUS
<1>5. PICK rest : rest = (flight \ {x}) \cup R
  OBVIOUS
<1>6. /\ x.kind = "stream" /\ v \in x.left
      /\ rows' = [rows EXCEPT ![v] = Shown(v, gen, outcome, x.since, 0)]
      /\ UNCHANGED <<view, local, triage, skills, epoch, must, stopped>>
      /\ IF v = "repos" THEN ReposResult(ls, gen, outcome, gone, rest)
         ELSE loads' = ls /\ flight' = rest /\ UNCHANGED clone
  BY <1>1, <1>2, <1>3, <1>4, <1>5 DEF StreamAnswer, Message, Keep
<1>7. /\ x \in Streams /\ gen \in Nat /\ x.since \in Nat /\ 0 \in Nat /\ v \in Views /\ v \notin Dependents
      /\ loads \in Loads /\ rows \in [Views -> RowState]
  <2>1. x \in Streams
    BY <1>6, Kinds DEF Types
  <2> QED BY <1>3, <2>1, ViewsAre DEF Streams, Types
<1>8. /\ y \in Streams /\ y.kind = "stream" /\ y.left = x.left \ {v}
      /\ y.cycle = x.cycle /\ y.gens = x.gens /\ y.since = x.since
  BY <1>1, <1>7 DEF Streams
<1>9. Remnant(y, x) /\ \A w : Carries(y, w) <=> Carries(x, w) /\ w # v
  BY <1>6, <1>7, <1>8 DEF Remnant, Carries
<1>10. /\ rows'[v] \in RowState
       /\ ~Accepts(loads, v, gen) => ls[v] = loads[v] /\ rows'[v] = rows[v]
       /\ Accepts(loads, v, gen) => /\ ls[v].gen = loads[v].gen /\ ~ls[v].loading
                                    /\ Fresh(ls[v]) => rows'[v].since = x.since
  BY <1>4, <1>6, <1>7, AppliedGot
<1>11. ls \in Loads /\ \A w \in Views \ {v} : ls[w] = loads[w] /\ rows'[w] = rows[w]
  BY <1>4, <1>6, <1>7, AppliedIs
<1>12. rows' \in [Views -> RowState]
  BY <1>6, <1>7, <1>10
<1>13. Due(x, v) <=> Accepts(loads, v, gen)
  BY <1>3, <1>6 DEF Due, Gen, Accepts, Carries
<1>14. Brings(x, R, ls)
  <2>1. ASSUME NEW w \in Views
        PROVE  \/ /\ ls[w] = loads[w] /\ rows'[w] = rows[w]
                  /\ Due(x, w) => \E z \in R : Carries(z, w)
               \/ Got(x, w, ls) /\ \A z \in R : ~Carries(z, w)
    <3>1. CASE w = v
      BY <1>2, <1>7, <1>9, <1>10, <1>13, <3>1 DEF Got
    <3>2. CASE w # v
      BY <1>2, <1>9, <1>11, <3>2 DEF Due
    <3> QED BY <3>1, <3>2
  <2>2. skills' \in [err : BOOLEAN, checking : BOOLEAN] /\ (skills'.checking => skills.checking)
    BY <1>6 DEF Types
  <2>3. (\A z \in R : Remnant(z, x)) /\ \A z, w \in R : z = w
    BY <1>2, <1>9
  <2> QED BY <1>6, <1>11, <1>12, <2>1, <2>2, <2>3 DEF Brings
<1>15. CASE v = "repos"
  <2>1. ReposResult(ls, gen, outcome, gone, rest)
    BY <1>6, <1>15
  <2>2. \A w \in Dependents : ls[w] = loads[w] /\ rows'[w] = rows[w]
    BY <1>7, <1>11, ViewsAre
  <2>3. ~Accepts(loads, "repos", gen) => ls["repos"] = loads["repos"] /\ rows'["repos"] = rows["repos"]
    BY <1>10, <1>15
  <2> QED BY <1>5, <1>14, <2>1, <2>2, <2>3, ReposResultDoes
<1>16. CASE v # "repos"
  <2>1. loads' = ls /\ flight' = (flight \ {x}) \cup R /\ clone' = clone
    BY <1>5, <1>6, <1>16
  <2>2. loads'["repos"] = loads["repos"] /\ rows'["repos"] = rows["repos"]
    BY <1>11, <1>16, <2>1, ViewsAre
  <2> QED BY <1>14, <2>1, <2>2, PlainDoes
<1> QED BY <1>15, <1>16

-----------------------------------------------------------------------------
(***************************************************************************)
(* The configuration, a triage's return, the hand-off.                     *)
(***************************************************************************)

LEMMA ConfigAppliedDoes ==
  ASSUME Types, NEW x \in flight, ConfigApplied(x)
  PROVE  \E C, R, N : Does(C, R, N)
<1>1. PICK C : C = {x}
  OBVIOUS
<1>2. PICK s, r : s = Stream(loads') /\ r = Read(loads', "remote", epoch', 0)
  OBVIOUS
<1>3. PICK N : N = {s} \cup (IF x.remote THEN {r} ELSE {})
  OBVIOUS
<1>4. PICK mid : mid = BeginLocalLoads(loads)
  OBVIOUS
<1>5. /\ x.kind = "config" /\ epoch' = epoch + 1
      /\ must' = [v \in Views |-> IF v = "remote" /\ ~x.remote THEN must[v] ELSE epoch + 1]
      /\ loads' = IF x.remote THEN BeginViewLoad(mid, "remote") ELSE [mid EXCEPT !["remote"] = Invalidated(@)]
      /\ local' = [gen |-> local.gen + 1, live |-> TRUE] /\ clone' = Following(clone, "stream")
      /\ flight' = (flight \ C) \cup N
      /\ UNCHANGED <<rows, view, triage, skills, stopped>>
  BY <1>1, <1>2, <1>3, <1>4 DEF ConfigApplied, Message, Keep
<1>6. /\ loads \in Loads /\ local.gen \in Nat /\ clone \in CloneState /\ epoch \in Nat /\
           must \in [Views -> Nat]
      /\ "remote" \in Views
  BY ViewsAre DEF Types
<1>7. /\ epoch' \in Nat /\ epoch' = epoch + 1 /\ must' \in [Views -> Nat]
      /\ \A v \in Views : must'[v] = must[v] \/ must'[v] = epoch'
      /\ ~x.remote => must'["remote"] = must["remote"]
  BY <1>5, <1>6
<1>8. /\ mid \in Loads /\ mid["remote"] = loads["remote"] /\ loads["remote"] \in ViewState
      /\ \A v \in Local : Starts(loads[v], mid[v])
      /\ \A v \in Dependents : Turns(loads[v], mid[v])
  BY <1>4, <1>6, BeginLocalIs DEF Loads
<1>9. /\ loads' \in Loads /\ \A v \in Views \ {"remote"} : loads'[v] = mid[v]
      /\ x.remote => Starts(loads["remote"], loads'["remote"])
      /\ ~x.remote => Ends(loads["remote"], loads'["remote"])
  <2>1. CASE x.remote
    BY <1>5, <1>6, <1>8, <2>1, BeginIs
  <2>2. CASE ~x.remote
    <3>1. Invalidated(loads["remote"]) \in ViewState /\ Ends(loads["remote"], Invalidated(loads["remote"]))
      BY <1>8, States
    <3>2. loads' = [mid EXCEPT !["remote"] = Invalidated(loads["remote"])]
      BY <1>5, <1>8, <2>2
    <3> QED BY <1>6, <1>8, <2>2, <3>1, <3>2 DEF Loads
  <2> QED BY <2>1, <2>2
<1>10. /\ \A v \in Local : Starts(loads[v], loads'[v]) /\ loads'[v].gen \in Nat
       /\ \A v \in Dependents : Turns(loads[v], loads'[v])
       /\ loads'["remote"].gen \in Nat
  BY <1>6, <1>8, <1>9, ViewsAre DEF Loads, ViewState
<1>11. local' \in [gen : Nat, live : BOOLEAN] /\ local'.gen = local.gen + 1 /\ local'.live /\
         local'.gen > local.gen
       /\ local'.gen \in Nat
  <2>1. local.gen + 1 \in Nat /\ local.gen + 1 > local.gen
    BY <1>6
  <2> QED BY <1>5, <2>1
<1>12. /\ Born(s) /\ s.kind = "stream" /\ s.since = epoch'
       /\ \A v : Carries(s, v) <=> v \in Local
       /\ \A v \in Local : Gen(s, v) = loads'[v].gen
  <2>1. s = [kind |-> "stream", cycle |-> local'.gen, gens |-> [v \in Local |-> loads'[v].gen],
             since |-> epoch', left |-> Local]
    BY <1>2 DEF Stream
  <2> QED BY <1>7, <1>10, <1>11, <2>1, StreamBorn
<1>13. ASSUME x.remote
       PROVE  /\ Born(r) /\ r.kind = "read" /\ r.since = epoch'
              /\ \A v : Carries(r, v) <=> v = "remote"
              /\ Gen(r, "remote") = loads'["remote"].gen
  <2>1. 0 \in Nat
    OBVIOUS
  <2> QED BY <1>2, <1>6, <1>7, <1>9, <1>10, <1>13, <2>1, ReadBorn
<1>14. \A y \in N : /\ Born(y) /\ y.kind \in {"stream", "read"} /\ y.since = epoch'
                    /\ \A v : Carries(y, v) => v \notin Dependents
                    /\ y = s \/ (y = r /\ x.remote)
  BY <1>3, <1>12, <1>13, ViewsAre
<1>15. Types'
  <2>1. clone' \in CloneState
    BY <1>5, <1>6, CloneIs
  <2>2. \A y \in flight' : Mail(y)
    BY <1>1, <1>5, <1>14 DEF Types, Born
  <2> QED BY <1>5, <1>7, <1>9, <1>11, <2>1, <2>2 DEF Types
<1>16. \A v \in Views : \/ Starts(loads[v], loads'[v]) \/ Ends(loads[v], loads'[v])
                        \/ loads'[v] = loads[v] /\ Blank(loads[v]) /\ v # "remote"
  BY <1>9, <1>10, ViewsAre DEF Turns
<1>17. Asks(C, N)
  <2>1. \A y \in C : \A v : ~Carries(y, v)
    BY <1>1, <1>5 DEF Carries
  <2>2. \A y, z \in N : \A v \in Sure : Carries(y, v) /\ Carries(z, v) => y = z
    BY <1>12, <1>13, <1>14, ViewsAre
  <2>3. C \subseteq flight
    BY <1>1
  <2> QED BY <1>5, <1>10, <1>14, <1>15, <1>16, <2>1, <2>2, <2>3, ViewsAre DEF Asks
<1>18. Steady(C, {}) /\ Awake
  <2>1. \A v \in Local : loads'[v].gen > loads[v].gen
    BY <1>10 DEF Starts
  <2> QED BY <1>11, <1>15, <2>1, SteadyIs DEF Awake
<1>19. Reading(N)
  <2>1. loads'["repos"].loading
    BY <1>10, ViewsAre DEF Starts
  <2>2. ASSUME NEW v \in Views, Starts(loads[v], loads'[v])
        PROVE  Waits(loads', v) \/ \E y \in N : Carries(y, v) /\ Gen(y, v) = loads'[v].gen
    <3>1. CASE v \in Dependents
      BY <2>1, <3>1 DEF Waits
    <3>2. CASE v \in Local
      BY <1>3, <1>12, <3>2
    <3>3. CASE v = "remote"
      <4>1. x.remote
        BY <1>9, <2>2, <3>3 DEF Starts, Ends
      <4> QED BY <1>3, <1>13, <3>3, <4>1
    <3> QED BY <2>2, <3>1, <3>2, <3>3, ViewsAre
  <2> QED BY <1>14, <2>2 DEF Reading
<1>20. Noted(N)
  BY <1>7, <1>14, <1>16 DEF Noted
<1>21. Does(C, {}, N)
  BY <1>17, <1>18, <1>19, <1>20, Asked
<1> QED BY <1>21

LEMMA TriageReturnDoes ==
  ASSUME Types, NEW valid, TriageReturn(valid)
  PROVE  \E C, R, N : Does(C, R, N)
<1>1. /\ triage # -1 /\ triage' = -1 /\ "triage" \in Rare
      /\ UNCHANGED <<view, clone, skills, flight, epoch, must, stopped>>
  BY DEF TriageReturn, Types
<1>2. loads \in Loads /\ rows \in [Views -> RowState] /\ local.gen \in Nat
  BY DEF Types
<1>3. Comes({}, {}, {})
  BY <1>1 DEF Comes
<1>4. ASSUME triage = local.gen
      PROVE  /\ loads' \in Loads /\ rows' \in [Views -> RowState] /\ local' \in [gen : Nat, live : BOOLEAN]
             /\ local'.gen > local.gen /\ Shifts
  <2>1. /\ local' = [gen |-> local.gen + 1, live |-> FALSE]
        /\ loads' = [v \in Views |-> IF v \in Local THEN Merged(loads[v], v \in valid) ELSE loads[v]]
        /\ rows' = IF "repos" \in valid THEN [rows EXCEPT !["repos"].id = loads'["repos"].gen] ELSE rows
    BY <1>4 DEF TriageReturn
  <2>2. ASSUME NEW a \in ViewState, NEW b \in BOOLEAN
        PROVE  Merged(a, b) \in ViewState /\ Merged(a, b).gen > a.gen
    <3>1. PICK n \in Nat : n = a.gen + 1
      BY DEF ViewState
    <3>2. PICK e : e = [a EXCEPT !.gen = n, !.loading = FALSE]
      OBVIOUS
    <3>3. e \in ViewState /\ e.gen = n
      BY <3>2 DEF ViewState
    <3>4. Invalidated(e) \in ViewState /\ Invalidated(e).gen > n
      BY <3>3, States DEF Ends
    <3>5. Merged(a, b) = e \/ Merged(a, b) = Invalidated(e)
      BY <3>1, <3>2 DEF Merged
    <3>6. a.gen \in Nat /\ n > a.gen /\ Invalidated(e).gen \in Nat
      BY <3>1, <3>4 DEF ViewState
    <3> QED BY <3>3, <3>4, <3>5, <3>6
  <2>3. \A v \in Views : loads[v] \in ViewState /\ (v \in valid) \in BOOLEAN
    BY <1>2 DEF Loads
  <2>4. /\ \A v \in Views : loads'[v] = (IF v \in Local THEN Merged(loads[v], v \in valid) ELSE loads[v])
        /\ \A v \in Views : loads'[v] \in ViewState /\ (loads'[v].gen > loads[v].gen \/ loads'[v] = loads[v])
    BY <2>1, <2>2, <2>3
  <2>5. loads' \in Loads
    BY <2>1, <2>4 DEF Loads
  <2>6. Shifts
    BY <2>4 DEF Shifts
  <2>7. rows' \in [Views -> RowState]
    <3>1. "repos" \in Views
      BY ViewsAre
    <3>2. PICK n \in Nat : n = loads'["repos"].gen
      BY <2>4, <3>1 DEF ViewState
    <3>3. [rows EXCEPT !["repos"].id = n] \in [Views -> RowState]
      BY <1>2, <3>1 DEF RowState
    <3> QED BY <1>2, <2>1, <3>2, <3>3
  <2>8. local.gen + 1 \in Nat /\ local.gen + 1 > local.gen
    BY <1>2
  <2> QED BY <2>1, <2>5, <2>6, <2>7, <2>8
<1>5. ASSUME triage # local.gen PROVE UNCHANGED <<local, loads, rows>>
  BY <1>5 DEF TriageReturn
<1>6. Types'
  BY <1>1, <1>4, <1>5 DEF Types
<1>7. Steady({}, {})
  BY <1>1, <1>4, <1>5, <1>6, SteadyIs
<1>8. Shifts
  BY <1>4, <1>5 DEF Shifts
<1>9. Does({}, {}, {})
  BY <1>1, <1>3, <1>6, <1>7, <1>8 DEF Does, Changes, Effects, Calm
<1> QED BY <1>9

\* The views after a hand-off: what was being read begins again.
HandedOff(W, ended, mid, begun, noted) ==
  /\ W = Interrupted
  /\ ended = [v \in Views |-> IF v \in W THEN Invalidated(loads[v]) ELSE loads[v]]
  /\ mid = IF "repos" \in W THEN BeginViewLoad(ended, "repos") ELSE ended
  /\ begun = [v \in Views |-> IF v \in W \ {"repos"} THEN Started(mid[v]) ELSE mid[v]]
  /\ noted = IF skills.checking THEN [begun EXCEPT !["skills"] = Invalidated(@)] ELSE begun
BegunAgain(W, noted) ==
  /\ noted \in Loads
  /\ \A v \in W : Starts(loads[v], noted[v]) \/ Ends(loads[v], noted[v])
  /\ \A v \in Views \ W :
        \/ noted[v] = loads[v]
        \/ "repos" \in W /\ v \in Dependents /\ Turns(loads[v], noted[v])
        \/ skills.checking /\ Ends(loads[v], noted[v])
  /\ noted["repos"] = loads["repos"] \/ Starts(loads["repos"], noted["repos"])
  /\ ~skills.checking => \A v \in W : Starts(loads[v], noted[v])

LEMMA HandoffLoads ==
  ASSUME Types, NEW W, NEW ended, NEW mid, NEW begun, NEW noted, HandedOff(W, ended, mid, begun, noted)
  PROVE  BegunAgain(W, noted)
<1>0. W \subseteq Views /\ "repos" \in Views /\ "repos" \notin Dependents /\ Dependents \subseteq Views
      /\ (skills.checking => "skills" \in Dependents)
  BY ViewsAre DEF Interrupted, Types, HandedOff
<1>1. \A v \in Views : loads[v] \in ViewState /\ loads[v].gen \in Nat
  BY DEF Types, Loads, ViewState
<1>2. /\ ended \in Loads
      /\ \A v \in W : Ends(loads[v], ended[v])
      /\ \A v \in Views \ W : ended[v] = loads[v]
  <2>1. \A v \in Views : Invalidated(loads[v]) \in ViewState /\ Ends(loads[v], Invalidated(loads[v]))
    BY <1>1, States
  <2>2. ended = [v \in Views |-> IF v \in W THEN Invalidated(loads[v]) ELSE loads[v]]
    BY DEF HandedOff
  <2> QED BY <1>0, <1>1, <2>1, <2>2 DEF Loads
<1>3. /\ mid \in Loads
      /\ "repos" \in W => Starts(ended["repos"], mid["repos"])
      /\ "repos" \notin W => mid = ended
      /\ \A v \in Views \ {"repos"} : \/ mid[v] = ended[v]
                                      \/ "repos" \in W /\ v \in Dependents /\ Turns(ended[v], mid[v])
  BY <1>0, <1>2, BeginIs DEF HandedOff
<1>4. \A v \in Views : mid[v] \in ViewState /\ mid[v].gen \in Nat /\ ended[v].gen \in Nat
  BY <1>2, <1>3 DEF Loads, ViewState
<1>5. ASSUME NEW v \in W PROVE mid[v].gen > loads[v].gen
  <2>1. v \in Views /\ ended[v].gen > loads[v].gen /\ mid[v].gen \in Nat /\ ended[v].gen \in Nat /\
           loads[v].gen \in Nat
    BY <1>0, <1>1, <1>2, <1>4 DEF Ends
  <2>2. mid[v] = ended[v] \/ mid[v].gen > ended[v].gen
    BY <1>3, <2>1 DEF Turns, Starts, Ends
  <2> QED BY <2>1, <2>2
<1>6. /\ begun \in Loads
      /\ \A v \in W : Starts(loads[v], begun[v])
      /\ \A v \in Views \ W : begun[v] = mid[v]
      /\ begun["repos"] = mid["repos"]
  <2>1. \A v \in Views : /\ Started(mid[v]) \in ViewState /\ Started(mid[v]).gen = mid[v].gen + 1
                         /\ Started(mid[v]).loading
    BY <1>4, States DEF Starts
  <2>0. begun = [v \in Views |-> IF v \in W \ {"repos"} THEN Started(mid[v]) ELSE mid[v]]
    BY DEF HandedOff
  <2>2. begun \in Loads
    BY <1>4, <2>0, <2>1 DEF Loads
  <2>3. ASSUME NEW v \in W PROVE Starts(loads[v], begun[v])
    <3>1. CASE v = "repos"
      BY <1>0, <1>3, <1>5, <2>0, <3>1 DEF Starts
    <3>2. CASE v # "repos"
      BY <1>0, <1>1, <1>4, <1>5, <2>0, <2>1, <3>2 DEF Starts
    <3> QED BY <3>1, <3>2
  <2> QED BY <1>0, <2>0, <2>2, <2>3
<1>7. \A v \in Views \ W : \/ begun[v] = loads[v]
                           \/ "repos" \in W /\ v \in Dependents /\ Turns(loads[v], begun[v])
  BY <1>2, <1>3, <1>6
<1>8. begun["repos"] = loads["repos"] \/ Starts(loads["repos"], begun["repos"])
  BY <1>0, <1>6, <1>7
<1>9. CASE skills.checking
  <2>1. "skills" \in Views /\ "skills" # "repos"
    BY <1>0, <1>9
  <2>2. begun["skills"] \in ViewState /\ begun["skills"].gen >= loads["skills"].gen
    <3>1. begun["skills"] \in ViewState /\ begun["skills"].gen \in Nat
      BY <1>6, <2>1 DEF Loads, ViewState
    <3>2. begun["skills"] = loads["skills"] \/ begun["skills"].gen > loads["skills"].gen
      BY <1>6, <1>7, <2>1 DEF Starts, Turns, Ends
    <3> QED BY <1>1, <2>1, <3>1, <3>2
  <2>3. Invalidated(begun["skills"]) \in ViewState /\ Ends(begun["skills"], Invalidated(begun["skills"]))
    BY <2>2, States
  <2>4. Ends(loads["skills"], Invalidated(begun["skills"]))
    BY <1>1, <2>1, <2>2, <2>3 DEF Ends, ViewState
  <2>5. noted = [begun EXCEPT !["skills"] = Invalidated(begun["skills"])]
    BY <1>9 DEF HandedOff
  <2>6. /\ noted \in Loads /\ noted["skills"] = Invalidated(begun["skills"])
        /\ \A v \in Views \ {"skills"} : noted[v] = begun[v]
    BY <1>6, <2>1, <2>3, <2>5 DEF Loads
  <2> QED BY <1>0, <1>6, <1>7, <1>8, <1>9, <2>1, <2>4, <2>6 DEF BegunAgain
<1>10. CASE ~skills.checking
  BY <1>6, <1>7, <1>8, <1>10 DEF HandedOff, BegunAgain
<1> QED BY <1>9, <1>10

LEMMA HandoffDoes ==
  ASSUME Types, Handoff
  PROVE  \E C, R, N : Does(C, R, N)
<1>1. PICK W : W = Interrupted
  OBVIOUS
<1>2. PICK src : src = rows["repos"].id
  OBVIOUS
<1>3. PICK ended : ended = [v \in Views |-> IF v \in W THEN Invalidated(loads[v]) ELSE loads[v]]
  OBVIOUS
<1>4. PICK mid : mid = IF "repos" \in W THEN BeginViewLoad(ended, "repos") ELSE ended
  OBVIOUS
<1>5. PICK begun : begun = [v \in Views |-> IF v \in W \ {"repos"} THEN Started(mid[v]) ELSE mid[v]]
  OBVIOUS
<1>6. PICK noted : noted = IF skills.checking THEN [begun EXCEPT !["skills"] = Invalidated(@)] ELSE begun
  OBVIOUS
<1>7. PICK cached : cached = (~loads["remote"].has /\ "remote" \notin W)
  OBVIOUS
<1>8. PICK c, h, m : c = Config(FALSE) /\ h = Cache(loads') /\ m = CheckMsg(loads')
  OBVIOUS
<1>9. PICK Q, X : /\ Q = ReadSet(loads', W, src, epoch')
                  /\ X = (IF config.waiting THEN {c} ELSE {}) \cup (IF cached THEN {h} ELSE {}) \cup
                         (IF skills.checking THEN {m} ELSE {})
  OBVIOUS
<1>10. PICK N : N = Q \cup X
  OBVIOUS
<1>11. loads' = noted
  BY <1>1, <1>3, <1>4, <1>5, <1>6 DEF Handoff
<1>12. /\ Demanded /\ must' = IF cached THEN [must EXCEPT !["remote"] = 0] ELSE must
       /\ local' = [gen |-> local.gen + 1, live |-> FALSE]
       /\ UNCHANGED <<rows, clone, view, triage, skills, stopped>>
  BY <1>1, <1>7 DEF Handoff, Keep
<1>13. flight' = N
  <2>1. Reads(loads', W, src) = Q
    BY <1>9 DEF Reads, ReadSet
  <2>2. flight' = Reads(loads', W, src) \cup
              (IF config.waiting THEN {c} ELSE {}) \cup
              (IF cached THEN {h} ELSE {}) \cup
              (IF skills.checking THEN {m} ELSE {})
    BY <1>1, <1>2, <1>3, <1>4, <1>5, <1>6, <1>7, <1>8, <1>11 DEF Handoff
  <2> QED BY <1>9, <1>10, <2>1, <2>2
<1>14. BegunAgain(W, loads')
  <2>1. HandedOff(W, ended, mid, begun, noted)
    BY <1>1, <1>3, <1>4, <1>5, <1>6 DEF HandedOff
  <2> QED BY <1>11, <2>1, HandoffLoads
<1>15. /\ W \subseteq Views /\ src \in Nat /\ epoch' \in Nat /\ epoch' = epoch + 1 /\ "remote" \in Views
       /\ rows \in [Views -> RowState] /\ local.gen \in Nat /\ \A v \in Views \ W : ~loads[v].loading
       /\ "repos" \in Views
  BY <1>1, <1>2, <1>12, ViewsAre DEF Interrupted, Types, RowState, Demanded
<1>16. /\ must' \in [Views -> Nat] /\ \A v \in Views : must'[v] = must[v] \/ must'[v] = 0
       /\ cached => must'["remote"] = 0
  BY <1>12, <1>15 DEF Types
<1>17. ReadsRight(W, src, Q)
  <2>1. \A v \in W : loads'[v].loading => Starts(loads[v], loads'[v])
    BY <1>14 DEF Ends, BegunAgain
  <2> QED BY <1>9, <1>14, <1>15, <2>1, ReadsBorn DEF BegunAgain
<1>18. /\ \A y \in Q : /\ Born(y) /\ Mail(y) /\ y.kind = "read" /\ y.since = epoch'
                       /\ y.v \in Dependents => y.src = src
       /\ \A y, z \in Q : \A v : Carries(y, v) /\ Carries(z, v) => y = z
       /\ \A v \in W : loads'[v].loading =>
             Waits(loads', v) \/ \E y \in Q : Carries(y, v) /\ Gen(y, v) = loads'[v].gen
  BY <1>17 DEF ReadsRight, ReadBy, Born
<1>19. /\ c.kind = "config" /\ Mail(c)
       /\ h.kind = "cache" /\ h.gen = loads'["remote"].gen /\ h.gen \in Nat /\ h.since \in Nat /\ Mail(h)
  <2>1. loads'["remote"].gen \in Nat /\ rows["remote"].since \in Nat
    BY <1>14, <1>15 DEF Loads, ViewState, RowState, BegunAgain
  <2>2. h.kind = "cache" /\ h.gen = loads'["remote"].gen /\ h.since \in Nat
    BY <1>8, <2>1 DEF Cache
  <2> QED BY <1>8, <2>1, <2>2 DEF Config, Mail
<1>20. ASSUME skills.checking
       PROVE  /\ Mail(m) /\ m.kind = "read" /\ m.v = "skills" /\ "skills" \notin Sure /\ "check" \in Rare
  <2>1. "skills" \in Views /\ "check" \in Rare
    BY <1>20, ViewsAre DEF Types
  <2>2. m.kind = "read" /\ m.v = "skills" /\ m.gen = loads'["skills"].gen
        /\ m.since = rows["skills"].since /\ m.src = rows["skills"].src
    BY <1>8, <1>12 DEF CheckMsg
  <2>3. m.gen \in Nat /\ m.since \in Nat /\ m.src \in Nat
    BY <1>14, <1>15, <2>1, <2>2 DEF Loads, ViewState, RowState, BegunAgain
  <2> QED BY <2>1, <2>2, <2>3 DEF Mail, Sure
<1>21. \A y \in X : /\ Mail(y) /\ y.kind # "stream" /\ \A v \in Sure : ~Carries(y, v)
                    /\ ~skills.checking => \A v : ~Carries(y, v)
                    /\ y.kind = "cache" => cached /\ y = h
  BY <1>9, <1>19, <1>20 DEF Carries
<1>22. \A y \in X : Born(y)
  BY <1>21 DEF Born
<1>23. Types'
  <2>1. \A y \in flight' : Mail(y)
    BY <1>10, <1>13, <1>18, <1>21
  <2>2. local' \in [gen : Nat, live : BOOLEAN]
    BY <1>12, <1>15
  <2> QED BY <1>12, <1>14, <1>15, <1>16, <2>1, <2>2 DEF Types, BegunAgain
<1>24. PICK C : C = flight
  OBVIOUS
<1>25. \A v \in Views : loads'[v] = loads[v] \/ Starts(loads[v], loads'[v]) \/ Ends(loads[v], loads'[v])
  BY <1>14 DEF Turns, BegunAgain
<1>26. Asks(C, N)
  <2>1. flight' = (flight \ C) \cup N /\ C \subseteq flight
    BY <1>13, <1>24
  <2>2. \A v \in Views : loads'[v] = loads[v] => ~loads[v].loading
    <3>1. \A v \in W : loads'[v] # loads[v]
      BY <1>14, <1>15 DEF Starts, Ends, Types, Loads, ViewState, BegunAgain
    <3> QED BY <1>15, <3>1
  <2>3. \A y \in N : Born(y)
    BY <1>10, <1>18, <1>22
  <2>4. \A y, z \in N : \A v \in Sure : Carries(y, v) /\ Carries(z, v) => y = z
    BY <1>10, <1>18, <1>21
  <2> QED BY <1>12, <1>14, <1>23, <1>25, <2>1, <2>2, <2>3, <2>4 DEF Asks, BegunAgain
<1>27. Steady(C, {})
  <2>1. local'.gen > local.gen
    BY <1>12, <1>15
  <2> QED BY <1>23, <2>1, SteadyIs
<1>28. Awake
  BY <1>10, <1>13, <1>18, <1>21 DEF Awake
<1>29. ASSUME Calm PROVE Reading(N) /\ Noted(N)
  <2>1. ~skills.checking
    BY <1>29 DEF Calm, Types
  <2>2. ASSUME NEW v \in Views, Starts(loads[v], loads'[v])
        PROVE  Waits(loads', v) \/ \E y \in N : Carries(y, v) /\ Gen(y, v) = loads'[v].gen
    <3>1. CASE v \in W
      BY <1>10, <1>18, <2>2, <3>1 DEF Starts
    <3>2. CASE v \notin W
      <4>1. "repos" \in W /\ v \in Dependents
        BY <1>14, <2>1, <2>2, <3>2 DEF Starts, Types, Loads, ViewState, BegunAgain
      <4>2. loads'["repos"].loading
        BY <1>14, <2>1, <4>1 DEF Starts, BegunAgain
      <4> QED BY <4>1, <4>2 DEF Waits
    <3> QED BY <3>1, <3>2
  <2>3. \A y \in N : \A v \in Dependents : Carries(y, v) => y.src = rows'["repos"].id
    <3>1. \A y \in Q : \A v : Carries(y, v) => v = y.v
      BY <1>18 DEF Carries
    <3> QED BY <1>2, <1>10, <1>12, <1>18, <1>21, <2>1, <3>1
  <2>4. \A y \in N : /\ \A v \in Views : Carries(y, v) => y.since = epoch'
                     /\ y.kind = "cache" => y.gen <= loads'["remote"].gen /\ y.since >= must'["remote"]
    BY <1>10, <1>16, <1>18, <1>19, <1>21, <2>1
  <2> QED BY <1>15, <1>16, <2>2, <2>3, <2>4 DEF Reading, Noted
<1>30. Does(C, {}, N)
  BY <1>23, <1>26, <1>27, <1>28, <1>29, Asking DEF Does, Changes
<1> QED BY <1>30

-----------------------------------------------------------------------------
(***************************************************************************)
(* The whole: messages and streams, always.                                *)
(***************************************************************************)

DashInv == Types /\ Messages /\ StreamsInv

LEMMA DashInit == Init => DashInv
<1> SUFFICES ASSUME Init PROVE DashInv
  OBVIOUS
<1>1. NothingLoaded \in ViewState /\ NothingLoaded.gen = 0
  BY DEF NothingLoaded, ViewState
<1>2. Started(NothingLoaded) \in ViewState /\ Started(NothingLoaded).gen = 1 /\ Started(NothingLoaded).loading
  BY <1>1, States DEF Starts
<1>3. /\ loads \in Loads
      /\ \A v \in Local : loads[v].gen = 1 /\ loads[v].loading
  BY <1>1, <1>2, ViewsAre DEF Init, Loads
<1>4. PICK s, c : /\ s = [kind |-> "stream", cycle |-> 1, gens |-> [v \in Local |-> 1], since |-> 0,
                       left |-> Local]
                  /\ c = [kind |-> "cache", gen |-> 0, since |-> 0]
  OBVIOUS
<1>5. flight = {s, c} /\ local = [gen |-> 1, live |-> TRUE] /\ clone = NoClone
  BY <1>4 DEF Init
<1>6. s \in Streams /\ s.kind = "stream" /\ s.cycle = 1 /\ s.left = Local /\ \A v \in Local : s.gens[v] = 1
  BY <1>4 DEF Streams
<1>7. c.kind = "cache" /\ c.gen = 0 /\ c.since = 0
  BY <1>4
<1>8. Types
  <2>1. \A x \in flight : Mail(x)
    BY <1>5, <1>6, <1>7 DEF Mail
  <2>2. rows \in [Views -> RowState] /\ must \in [Views -> Nat] /\ epoch \in Nat
    BY DEF Init, RowState
  <2>3. clone \in CloneState /\ local \in [gen : Nat, live : BOOLEAN]
    BY <1>5 DEF NoClone, CloneState
  <2>4. /\ skills \in [err : BOOLEAN, checking : BOOLEAN] /\ ~skills.checking /\ triage = -1
        /\ view \in {"other", "remote"} \cup Dependents
    BY DEF Init
  <2> QED BY <1>3, <2>1, <2>2, <2>3, <2>4 DEF Types
<1>9. \A x \in flight : \A v : Carries(x, v) => x = s /\ v \in Local /\ Gen(x, v) = loads[v].gen
  BY <1>3, <1>5, <1>6, <1>7 DEF Carries, Gen
<1>10. Messages
  <2>1. \A v \in Sure : loads[v].gen \in Nat
    BY <1>3 DEF Sure, Loads, ViewState
  <2> QED BY <1>3, <1>9, <2>1 DEF Messages, Due
<1>11. StreamsInv
  <2>1. \A x \in flight : x.kind = "stream" => x = s
    BY <1>5, <1>7
  <2>2. local.gen = 1 /\ local.live
    BY <1>5
  <2> QED BY <1>3, <1>6, <2>1, <2>2 DEF StreamsInv, Cut
<1> QED BY <1>8, <1>10, <1>11 DEF DashInv

LEMMA StepDoes ==
  ASSUME DashInv, [Next]_vars
  PROVE  \E C, R, N : Does(C, R, N)
<1>0. Types /\ Messages /\ StreamsInv
  BY DEF DashInv
<1>1. CASE UNCHANGED vars
  <2>1. UNCHANGED <<loads, rows, view, local, clone, triage, skills, flight, epoch, must, stopped>>
    BY <1>1 DEF vars
  <2>2. Types'
    BY <1>0, <2>1 DEF Types
  <2>3. Steady({}, {}) /\ Awake
    BY <1>0, <2>1, <2>2, SteadyIs DEF Awake
  <2>4. epoch' >= epoch /\ \A v \in Views : must'[v] = must[v]
    BY <1>0, <2>1 DEF Types
  <2> QED BY <1>0, <2>1, <2>2, <2>3, <2>4, QuietDoes
<1>2. ASSUME NEW v \in {"remote"} \cup Dependents, VisitLoading(v) PROVE \E C, R, N : Does(C, R, N)
  <2>1. PICK which : which = {}
    OBVIOUS
  <2>2. /\ Request(v, which) /\ view' \in {"other", "remote"} \cup Dependents /\
             UNCHANGED <<triage, skills, stopped>>
        /\ which \in SUBSET {v} /\ which \in SUBSET Dependents
    BY <1>2, <2>1 DEF VisitLoading
  <2> QED BY <1>0, <2>2, RequestDoes
<1>3. ASSUME NEW v \in Dependents, Refresh(v) PROVE \E C, R, N : Does(C, R, N)
  <2>1. PICK which : which = {v}
    OBVIOUS
  <2>2. /\ Request(v, which) /\ view' \in {"other", "remote"} \cup Dependents /\
             UNCHANGED <<triage, skills, stopped>>
        /\ which \in SUBSET {v} /\ which \in SUBSET Dependents
    BY <1>0, <1>3, <2>1 DEF Refresh, Keep, Types
  <2> QED BY <1>0, <2>2, RequestDoes
<1>4. CASE Requests
  BY <1>0, <1>2, <1>3, <1>4, VisitDoes, ToggleDoes, ReloadConfigDoes, ActionDoneDoes, TryDoneDoes, ReadNowDoes,
     RecheckRemoteDoes, CheckSkillsDoes, StartCloneDoes, CancelCloneDoes, TriageOpenDoes, HandoffDoes
  DEF Requests
<1>5. ASSUME NEW x \in flight, Answered(x) PROVE \E C, R, N : Does(C, R, N)
  BY <1>0, <1>5, AnswerDoes, PairAnswerDoes, StreamAnswerDoes, StreamEndDoes, ConfigFailedDoes, ConfigAppliedDoes,
     CacheAnswerDoes
  DEF Answered, StreamAnswers
<1>6. CASE CloneAnswers
  BY <1>0, <1>6, CloneEndsDoes, ClonedDoes DEF CloneAnswers
<1>7. CASE Triaged
  BY <1>0, <1>7, TriageReturnDoes DEF Triaged
<1> QED BY <1>1, <1>4, <1>5, <1>6, <1>7 DEF Next, Answers

LEMMA DashStep ==
  ASSUME DashInv, [Next]_vars
  PROVE  DashInv'
<1>1. PICK C, R, N : Does(C, R, N)
  BY StepDoes
<1>2. Types /\ Messages /\ StreamsInv /\ Types' /\ Comes(C, R, N) /\ Shifts /\ Steady(C, R)
  BY <1>1 DEF DashInv, Does, Changes, Effects
<1> QED BY <1>2, MessagesStay, StreamsStay DEF DashInv

\* No answer under way is ahead of its view, the one a view waits for is the only
\* one, and a stream's results are counted as they come (applyViewResult, localMsg).
THEOREM AnswersInOrder == Spec => []DashInv
BY DashInit, DashStep, PTL DEF Spec

-----------------------------------------------------------------------------
(***************************************************************************)
(* Clones.                                                                 *)
(***************************************************************************)

\* What CloneNotAbandoned says of a step.
Abandons ==
  clone.phase = "refreshing" /\ clone'.phase = "idle"
    => \/ ~loads'["repos"].loading \/ stopped
       \/ \E x \in flight \ flight' :
             /\ x.kind = "stream" /\ x.gens["repos"] >= clone.min
             /\ x.gens["repos"] < loads["repos"].gen

LEMMA ReposEnds ==
  ASSUME NEW ls \in Loads, NEW gen, NEW outcome, NEW gone, NEW rest,
         ReposResult(ls, gen, outcome, gone, rest),
         Accepts(loads, "repos", gen) => ~ls["repos"].loading
  PROVE  clone' = clone \/ ~loads'["repos"].loading
<1>1. AfterRepos(ls, outcome)["repos"] = ls["repos"]
  BY AfterReposIs, ViewsAre
<1> QED BY <1>1 DEF ReposResult

LEMMA AcceptedEnds ==
  ASSUME NEW ls \in Loads, NEW gen, NEW outcome, Accepts(loads, "repos", gen), ls["repos"] = loads["repos"]
  PROVE  ~Applied(ls, "repos", gen, outcome)["repos"].loading
<1>1. Accepts(ls, "repos", gen) /\ "repos" \in Views /\ ls["repos"] \in ViewState
  BY ViewsAre DEF Accepts, Loads
<1> QED BY <1>1, AppliedIs, States

LEMMA CloneStep ==
  ASSUME DashInv, Next
  PROVE  Abandons
<1>0. Types /\ StreamsInv /\ loads \in Loads /\ clone \in CloneState /\ "repos" \in Views /\ "repos" # "tries"
  BY ViewsAre DEF DashInv, Types
<1> SUFFICES ASSUME clone.phase = "refreshing", clone'.phase = "idle"
             PROVE  \/ ~loads'["repos"].loading \/ stopped
                    \/ \E x \in flight \ flight' :
                          /\ x.kind = "stream" /\ x.gens["repos"] >= clone.min
                          /\ x.gens["repos"] < loads["repos"].gen
  BY DEF Abandons
<1>1. clone' # clone /\ \A via \in {"read", "stream"} : clone' # Following(clone, via)
  BY <1>0, CloneIs
<1>2. ~Requests
  <2>1. ~\E open \in BOOLEAN : StartClone(open)
    BY DEF StartClone, Keys
  <2>2. ~CancelClone
    <3>1. [clone EXCEPT !.canceling = TRUE].phase = clone.phase
      BY <1>0 DEF CloneState
    <3> QED BY <3>1 DEF CancelClone
  <2>3. ~(\/ \E v \in {"other", "remote"} \cup Dependents : Visit(v)
          \/ \E v \in {"remote"} \cup Dependents : VisitLoading(v)
          \/ \E v \in Dependents : Refresh(v)
          \/ ToggleScope \/ ReloadConfig \/ RecheckRemote \/ CheckSkills \/ TriageOpen \/ Handoff)
    BY <1>1 DEF Visit, VisitLoading, Refresh, Request, ToggleScope, ReloadConfig, RecheckRemote, CheckSkills,
                TriageOpen, Handoff
  <2>4. ~(ActionDone \/ TryDone \/ \E v \in Views : ReadNow(v))
    BY <1>1 DEF ActionDone, LocalLoads, TryDone, ReadNow
  <2> QED BY <2>1, <2>2, <2>3, <2>4 DEF Requests
<1>3. ~CloneAnswers
  BY DEF CloneAnswers, CloneFailed, Cloned, CloneOpened, OpenFailed
<1>4. ~Triaged
  BY <1>1 DEF Triaged, TriageReturn
<1>5. PICK x \in flight : Answered(x)
  BY <1>2, <1>3, <1>4 DEF Next, Answers
<1>6. ASSUME NEW outcome, NEW gone, Answer(x, outcome, gone) PROVE ~loads'["repos"].loading
  <2>1. x.v = "repos"
    BY <1>1, <1>6 DEF Answer
  <2>2. PICK gen, rest, ls : gen = x.gen /\ rest = flight \ {x} /\ ls = Applied(loads, "repos", gen, outcome)
    OBVIOUS
  <2>3. ReposResult(ls, gen, outcome, gone, rest)
    BY <1>6, <2>1, <2>2 DEF Answer
  <2>4. ls \in Loads /\ (Accepts(loads, "repos", gen) => ~ls["repos"].loading)
    BY <1>0, <2>2, AppliedIs, AcceptedEnds
  <2> QED BY <1>1, <2>3, <2>4, ReposEnds
<1>7. ASSUME NEW outcomes, NEW gone, PairAnswer(x, outcomes, gone) PROVE ~loads'["repos"].loading
  <2>1. PICK tg, rg, rest : tg = x.gens["tries"] /\ rg = x.gens["repos"] /\ rest = flight \ {x}
    OBVIOUS
  <2>2. PICK mid : mid = Applied(loads, "tries", tg, outcomes["tries"])
    OBVIOUS
  <2>3. PICK outcome, ls : outcome = outcomes["repos"] /\ ls = Applied(mid, "repos", rg, outcome)
    OBVIOUS
  <2>4. ReposResult(ls, rg, outcome, gone, rest)
    BY <1>7, <2>1, <2>2, <2>3 DEF PairAnswer
  <2>5. mid \in Loads /\ mid["repos"] = loads["repos"]
    BY <1>0, <2>2, AppliedIs, ViewsAre
  <2>6. ls \in Loads /\ (Accepts(loads, "repos", rg) => ~ls["repos"].loading)
    BY <1>0, <2>3, <2>5, AppliedIs, AcceptedEnds
  <2> QED BY <1>1, <2>4, <2>6, ReposEnds
<1>8. ASSUME NEW v \in Local, NEW outcome, NEW gone,
         StreamAnswer(x, v, outcome, gone) PROVE ~loads'["repos"].loading
  <2>1. v = "repos"
    BY <1>1, <1>8 DEF StreamAnswer
  <2>2. PICK gen, rest, ls : /\ gen = x.gens["repos"] /\
                                  rest = (flight \ {x}) \cup {[x EXCEPT !.left = @ \ {v}]}
                             /\ ls = Applied(loads, "repos", gen, outcome)
    OBVIOUS
  <2>3. ReposResult(ls, gen, outcome, gone, rest)
    BY <1>8, <2>1, <2>2 DEF StreamAnswer
  <2>4. ls \in Loads /\ (Accepts(loads, "repos", gen) => ~ls["repos"].loading)
    BY <1>0, <2>2, AppliedIs, AcceptedEnds
  <2> QED BY <1>1, <2>3, <2>4, ReposEnds
<1>9. ASSUME StreamEnd(x)
      PROVE  \/ ~loads'["repos"].loading \/ stopped
             \/ x \in flight \ flight' /\ x.kind = "stream" /\ x.gens["repos"] >= clone.min
                /\ x.gens["repos"] < loads["repos"].gen
  <2>1. /\ Current(x) /\ x.kind = "stream" /\ clone' = FinishedStream(clone, x.gens["repos"])
        /\ flight' = flight \ {x} /\ loads' = loads
        /\ x.left # {} => ~Current(x) \/ ~local.live
    BY <1>1, <1>9 DEF StreamEnd, Message
  <2>2. ~(x.gens["repos"] < clone.min)
    BY <1>1, <2>1 DEF FinishedStream
  <2>3. x \in Streams /\ x.gens["repos"] \in Nat /\ clone.min \in Nat /\ loads["repos"].gen \in Nat /\
           "repos" \in Local
    <3>1. x \in Streams
      BY <1>0, <2>1, Kinds DEF Types
    <3> QED BY <1>0, <3>1, ViewsAre DEF Streams, CloneState, Loads, ViewState
  <2>4. x.gens["repos"] >= clone.min
    BY <2>2, <2>3
  <2>5. CASE x.left # {}
    BY <1>0, <2>1, <2>4, <2>5 DEF StreamsInv, Cut, Current
  <2>6. CASE x.left = {}
    <3>1. /\ x.gens["repos"] <= loads["repos"].gen
          /\ x.gens["repos"] = loads["repos"].gen => ~loads["repos"].loading
      BY <1>0, <2>1, <2>3, <2>6 DEF StreamsInv
    <3> QED BY <2>1, <2>3, <2>4, <3>1
  <2> QED BY <2>5, <2>6
<1>10. ~ConfigFailed(x) /\ ~ConfigApplied(x) /\ \A stale : ~CacheAnswer(x, stale)
  BY <1>1 DEF ConfigFailed, ConfigApplied, CacheAnswer
<1> QED BY <1>5, <1>6, <1>7, <1>8, <1>9, <1>10 DEF Answered, StreamAnswers

\* A clone is given up while REPOS is being read only if the user has cancelled
\* it, or a stream begun after it ends whose own REPOS result is superseded
\* (finishRemoteCloneRefresh, finishRemoteCloneStream).
THEOREM CloneKept == Spec => CloneNotAbandoned
<1>1. DashInv /\ [Next]_vars => [Abandons]_vars
  BY CloneStep
<1>2. Abandons =>
        (clone.phase = "refreshing" /\ clone'.phase = "idle"
          => \/ ~loads'["repos"].loading \/ stopped
             \/ \E x \in flight \ flight' :
                   /\ x.kind = "stream" /\ x.gens["repos"] >= clone.min
                   /\ x.gens["repos"] < loads["repos"].gen)
  BY DEF Abandons
<1> QED BY <1>1, <1>2, AnswersInOrder, PTL DEF Spec, CloneNotAbandoned

\* What is left of a clone once the user has cancelled it.
Cancelled ==
  stopped => /\ clone.phase \in {"running", "opening"} => clone.canceling
             /\ clone.phase = "refreshing" => clone.canceling \/ ~clone.open
             /\ clone.phase # "left"

LEMMA RefreshCancelled ==
  ASSUME Cancelled, stopped' = stopped, NEW gen, NEW outcome, NEW gone, clone \in CloneState,
         clone' = clone \/ clone' = FinishedRefresh(clone, gen, outcome, gone) \/
             clone' = FinishedStream(clone, gen)
  PROVE  Cancelled'
<1>1. NoClone.phase = "idle"
  BY DEF NoClone
<1>2. CASE clone' = clone
  BY <1>2 DEF Cancelled
<1>3. CASE clone' = NoClone
  BY <1>1, <1>3 DEF Cancelled
<1>4. CASE clone' = [clone EXCEPT !.phase = "opening"] /\ clone.phase = "refreshing" /\ ~clone.canceling /\
         clone.open
  <2>1. clone'.phase = "opening"
    BY <1>4 DEF CloneState
  <2> QED BY <1>4, <2>1 DEF Cancelled
<1> QED BY <1>2, <1>3, <1>4 DEF FinishedRefresh, FinishedStream

LEMMA CancelledStep ==
  ASSUME Types, Cancelled, [Next]_vars
  PROVE  Cancelled'
<1>0. clone \in CloneState
  BY DEF Types
<1>1. ASSUME clone' = clone \/ clone' = Following(clone, "read") \/ clone' = Following(clone, "stream"),
             stopped' = stopped
      PROVE  Cancelled'
  <2>1. clone'.phase = clone.phase /\ clone'.canceling = clone.canceling /\ clone'.open = clone.open
    BY <1>0, <1>1 DEF Following, CloneState
  <2> QED BY <1>1, <2>1 DEF Cancelled
<1>2. CASE UNCHANGED vars
  BY <1>1, <1>2 DEF vars
<1>3. CASE Requests
  <2>1. ASSUME NEW open, StartClone(open) PROVE Cancelled'
    BY <2>1 DEF StartClone, Cancelled
  <2>2. CASE CancelClone
    <3>1. /\ clone'.canceling /\ clone'.phase = clone.phase
      BY <1>0, <2>2 DEF CancelClone, CloneState
    <3>2. clone.phase # "left"
      BY <2>2 DEF CancelClone, Listening, Running
    <3> QED BY <3>1, <3>2 DEF Cancelled
  <2>3. CASE \/ \E v \in {"other", "remote"} \cup Dependents : Visit(v)
             \/ \E v \in {"remote"} \cup Dependents : VisitLoading(v)
             \/ \E v \in Dependents : Refresh(v)
             \/ ToggleScope \/ ReloadConfig \/ RecheckRemote \/ CheckSkills \/ TriageOpen \/ Handoff
    BY <1>1, <2>3 DEF Visit, VisitLoading, Refresh, Request, ToggleScope, ReloadConfig, RecheckRemote, CheckSkills,
                      TriageOpen, Handoff, Keep
  <2>4. CASE ActionDone \/ TryDone \/ \E v \in Views : ReadNow(v)
    BY <1>1, <2>4 DEF ActionDone, LocalLoads, TryDone, ReadNow, Keep
  <2> QED BY <1>3, <2>1, <2>2, <2>3, <2>4 DEF Requests
<1>4. CASE CloneAnswers
  <2>1. stopped' = stopped /\ NoClone.phase = "idle"
    BY <1>4 DEF CloneAnswers, CloneFailed, Cloned, CloneOpened, OpenFailed, Keep, NoClone
  <2>2. CASE CloneFailed \/ OpenFailed
    BY <2>1, <2>2 DEF CloneFailed, OpenFailed, Cancelled
  <2>3. CASE CloneOpened
    <3>1. CASE clone.canceling
      BY <2>1, <2>3, <3>1 DEF CloneOpened, Cancelled
    <3>2. CASE ~clone.canceling
      <4>1. ~stopped
        BY <2>3, <3>2 DEF CloneOpened, Cancelled
      <4> QED BY <2>1, <4>1 DEF Cancelled
    <3> QED BY <3>1, <3>2
  <2>4. CASE Cloned
    <3>1. clone.phase = "running" /\ clone'.phase = "refreshing" /\
             clone'.open = (clone.open /\ ~clone.canceling)
      BY <1>0, <2>4 DEF Cloned, CloneState
    <3> QED BY <2>1, <3>1 DEF Cancelled
  <2> QED BY <1>4, <2>2, <2>3, <2>4 DEF CloneAnswers
<1>5. CASE Triaged
  BY <1>1, <1>5 DEF Triaged, TriageReturn
<1>6. ASSUME NEW x \in flight, Answered(x) PROVE Cancelled'
  <2>1. stopped' = stopped
    BY <1>6 DEF Answered, StreamAnswers, Answer, PairAnswer, StreamAnswer, StreamEnd, ConfigFailed, ConfigApplied,
                CacheAnswer, Keep
  <2>2. \/ clone' = clone \/ clone' = Following(clone, "stream")
        \/ \E gen, outcome, gone : clone' = FinishedRefresh(clone, gen, outcome, gone)
        \/ \E gen : clone' = FinishedStream(clone, gen)
    BY <1>6 DEF Answered, StreamAnswers, Answer, PairAnswer, StreamAnswer, StreamEnd, ConfigFailed, ConfigApplied,
                CacheAnswer, ReposResult
  <2> QED BY <1>0, <1>1, <2>1, <2>2, RefreshCancelled
<1> QED BY <1>2, <1>3, <1>4, <1>5, <1>6 DEF Next, Answers

\* The dashboard is never left for a clone the user has cancelled: a late success
\* of its command forgets the cancellation and keeps the checkout closed
\* (updateList, case remoteCloneMsg, finishRemoteCloneRefresh).
THEOREM CancelHolds == Spec => []CancelStays
<1>1. Init => Cancelled
  BY DEF Init, Cancelled
<1>2. DashInv /\ Cancelled /\ [Next]_vars => Cancelled'
  BY CancelledStep DEF DashInv
<1>3. Cancelled => CancelStays
  BY DEF Cancelled, CancelStays
<1> QED BY <1>1, <1>2, <1>3, AnswersInOrder, PTL DEF Spec

-----------------------------------------------------------------------------
(***************************************************************************)
(* What views show and wait for, in the instance of MCDashboard that moves *)
(* without triage and checks of skills.                                    *)
(***************************************************************************)

LEMMA InitShows ==
  ASSUME Init
  PROVE  Since /\ FreshIsCurrent /\ Follows /\ DependentsFollow /\ Alive /\ NoEndlessWait
<1>0. DashInv
  BY DashInit
<1>1. \A v \in Views : ~NothingLoaded.has /\ ~NothingLoaded.loading /\ Started(NothingLoaded).has = FALSE
  BY DEF NothingLoaded, Started
<1>2. \A v \in Views : /\ ~loads[v].has /\ (loads[v].loading => v \in Local)
                       /\ must[v] = 0 /\ rows[v].since = 0
  BY <1>1 DEF Init
<1>3. FreshIsCurrent /\ DependentsFollow
  BY <1>2, ViewsAre DEF FreshIsCurrent, DependentsFollow, Fresh
<1>4. PICK s, c : /\ s = [kind |-> "stream", cycle |-> 1, gens |-> [v \in Local |-> 1], since |-> 0,
                       left |-> Local]
                  /\ c = [kind |-> "cache", gen |-> 0, since |-> 0]
  OBVIOUS
<1>5. flight = {s, c} /\ local.gen = 1 /\ local.live /\ epoch = 0
  BY <1>4 DEF Init
<1>6. /\ s.kind = "stream" /\ s.cycle = 1 /\ s.left = Local /\ s.since = 0 /\ (\A v \in Local : s.gens[v] = 1)
      /\ c.kind = "cache" /\ c.gen = 0 /\ c.since = 0
  BY <1>4
<1>7. NothingLoaded \in ViewState /\ NothingLoaded.gen = 0 /\ Started(NothingLoaded).gen = 1
  <2>1. NothingLoaded \in ViewState /\ NothingLoaded.gen = 0
    BY DEF NothingLoaded, ViewState
  <2> QED BY <2>1, States
<1>8. loads["remote"].gen = 0 /\ \A v \in Local : loads[v].gen = 1
  BY <1>7, ViewsAre DEF Init
<1>9. Since
  BY <1>2, <1>5, <1>6, <1>8, ViewsAre DEF Since
<1>10. Follows
  BY <1>5, <1>6, ViewsAre DEF Follows, Due, Carries
<1>11. Alive
  BY <1>5, <1>6 DEF Alive, Current
<1>12. NoEndlessWait
  BY <1>2, <1>5, <1>6, <1>8 DEF NoEndlessWait, Answering
<1> QED BY <1>3, <1>9, <1>10, <1>11, <1>12

Daily == part = "daily"
DailyShown == Daily => DashInv /\ Since /\ FreshIsCurrent
DailyFollow == Daily => DashInv /\ Follows /\ DependentsFollow
DailyWait == Daily => DashInv /\ Alive /\ NoEndlessWait

LEMMA DailyInit == DashboardInit /\ Daily => Init
BY DEF DashboardInit, Daily

LEMMA DailyStep == [DashboardNext]_<<part, vars>> /\ Daily' => Daily /\ [Next]_vars
BY DEF DashboardNext, Daily

LEMMA ShownStep ==
  ASSUME "triage" \notin Rare, "check" \notin Rare, "recheck" \notin Rare,
         DashInv, Since, FreshIsCurrent, [Next]_vars
  PROVE  DashInv' /\ Since' /\ FreshIsCurrent'
<1>1. PICK C, R, N : Does(C, R, N)
  BY StepDoes
<1>2. /\ Types /\ Messages /\ Types' /\ Comes(C, R, N) /\ Shifts /\ Tells(N)
      /\ \A v \in Views : Renewed(v)
  BY <1>1 DEF DashInv, Does, Changes, Effects, Calm
<1> QED BY <1>2, SinceStays, DashStep

LEMMA FollowStep ==
  ASSUME "triage" \notin Rare, "check" \notin Rare,
         DashInv, Follows, DependentsFollow, [Next]_vars
  PROVE  DashInv' /\ Follows' /\ DependentsFollow'
<1>1. PICK C, R, N : Does(C, R, N)
  BY StepDoes
<1>2. /\ Types /\ Messages /\ Types' /\ Comes(C, R, N) /\ Shifts /\ Turned(N)
      /\ \A v \in Views : Renewed(v)
  BY <1>1 DEF DashInv, Does, Changes, Effects, Calm
<1> QED BY <1>2, FollowsStay, DashStep

LEMMA WaitStep ==
  ASSUME "triage" \notin Rare, "check" \notin Rare, "cancel" \notin Rare,
         DashInv, Alive, NoEndlessWait, [Next]_vars
  PROVE  DashInv' /\ Alive' /\ NoEndlessWait'
<1>1. PICK C, R, N : Does(C, R, N)
  BY StepDoes
<1>2. /\ Types /\ Messages /\ StreamsInv /\ Types' /\ Comes(C, R, N) /\ Shifts /\ Stays(C, R) /\ Feeds /\ Awake
  BY <1>1 DEF DashInv, Does, Changes, Effects, Calm
<1> QED BY <1>2, AliveStays, WaitsStay, DashStep

\* A view that is not loading and calls its rows fresh shows the effect of the
\* last request that asked for them (applyViewResult), in an instance without
\* triage, checks of skills and re-checks of an issue: each of them breaks it.
THEOREM ShownCurrent ==
  ASSUME "triage" \notin Rare, "check" \notin Rare, "recheck" \notin Rare
  PROVE  DashboardSpec => []ShownIsCurrent
<1>1. DashboardInit => DailyShown
  BY DailyInit, DashInit, InitShows DEF DailyShown
<1>2. DailyShown /\ [DashboardNext]_<<part, vars>> => DailyShown'
  BY DailyStep, ShownStep DEF DailyShown
<1>3. DailyShown => ShownIsCurrent
  BY DEF DailyShown, Daily, ShownIsCurrent
<1> QED BY <1>1, <1>2, <1>3, PTL DEF DashboardSpec

\* Fresh rows of SKILLS and MCP are of the repositories REPOS shows
\* (afterReposResult, prepareRepoDependentsForReload), in an instance without
\* triage and checks of skills: each of them breaks it.
THEOREM DependentsCurrent ==
  ASSUME "triage" \notin Rare, "check" \notin Rare
  PROVE  DashboardSpec => []DependentsAgree
<1>1. DashboardInit => DailyFollow
  BY DailyInit, DashInit, InitShows DEF DailyFollow
<1>2. DailyFollow /\ [DashboardNext]_<<part, vars>> => DailyFollow'
  BY DailyStep, FollowStep DEF DailyFollow
<1>3. DailyFollow => DependentsAgree
  BY DEF DailyFollow, Daily, DependentsAgree
<1> QED BY <1>1, <1>2, <1>3, PTL DEF DashboardSpec

\* A spinner turns only while a message that stops it is under way, or while
\* REPOS is, for a view that waits for it (viewWaitsForRepos), in an instance
\* without triage, cancelled streams and checks of skills: the first two break it,
\* and after a check two answers of SKILLS may be awaited, which Messages excludes.
THEOREM SpinnersTurn ==
  ASSUME "triage" \notin Rare, "check" \notin Rare, "cancel" \notin Rare
  PROVE  DashboardSpec => []SpinnersStop
<1>1. DashboardInit => DailyWait
  BY DailyInit, DashInit, InitShows DEF DailyWait
<1>2. DailyWait /\ [DashboardNext]_<<part, vars>> => DailyWait'
  BY DailyStep, WaitStep DEF DailyWait
<1>3. DailyWait => SpinnersStop
  BY DEF DailyWait, Daily, SpinnersStop
<1> QED BY <1>1, <1>2, <1>3, PTL DEF DashboardSpec
=============================================================================
