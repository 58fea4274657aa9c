------------------------------ MODULE MCTaskFlow ------------------------------
(* Instances of TaskFlow for TLC.                                           *)
EXTENDS TaskFlow

CONSTANTS p1, p2, u1, u2

OneProc  == {p1}
TwoProcs == {p1, p2}
OneUnit  == {u1}
TwoUnits == {u1, u2}

AllHabits  == {"edit", "edit main", "commit", "commit main", "push", "fetch",
               "review", "delete remote", "delete local"}
===============================================================================
