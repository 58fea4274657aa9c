----------------------------- MODULE MCLeaseLive -----------------------------
(***************************************************************************)
(* Lease with callers that stop: MaxCalls calls are started or cancelled   *)
(* in all.  Weak fairness of the polling processes is then enough for each *)
(* call to get its locks in the end.  The calls of one behaviour name the  *)
(* repository r1 and one other set of keys, which may be a branch of it,   *)
(* both repositories, or the other repository: calls on r1 and on r2 share *)
(* no lock but that of the state file.                                     *)
(***************************************************************************)
EXTENDS MCLease

CONSTANT MaxCalls   \* calls started or cancelled in one behaviour
VARIABLES budget,   \* how many may still be
          family    \* the key sets that are called on
all == <<vars, budget, family>>

\* Processes and operations are interchangeable: the first call names which
\* come first.
First(p) ==
    /\ p = CHOOSE q \in Procs : TRUE
    /\ call'[p].name \in Kind => call'[p].req.op = CHOOSE o \in Ops : TRUE

CountedStart(p) ==
    /\ budget > 0 /\ budget' = budget - 1
    /\ Start(p) /\ call'[p].keys \in family
    /\ budget = MaxCalls => First(p)

LiveInit ==
    /\ Init /\ budget = MaxCalls
    /\ \E K \in KeySets \ {Alone} : family = {Alone, K}
LiveNext ==
    /\ UNCHANGED family
    /\ \E p \in Procs :
          \/ CountedStart(p)
          \/ Cancel(p) /\ budget > 0 /\ budget' = budget - 1
          \/ (Step(p) \/ Crash(p)) /\ UNCHANGED budget
LiveSpec ==
    /\ LiveInit /\ [][LiveNext]_all
    /\ \A p \in Procs : WF_all(Step(p) /\ UNCHANGED <<budget, family>>)

\* Every call returns, to a process that does not crash: lockx polls, a holder
\* leaves, and the canonical key order rules out waiting in a circle.
EveryCallReturns == \A p \in Procs : (pc[p] # "idle") ~> (pc[p] = "idle")
===============================================================================
