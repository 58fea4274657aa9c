----------------------------- MODULE MCTaskStore -----------------------------
(* Small instances of TaskStore. *)
EXTENDS TaskStore, TLC

\* The methods that production code calls: Tx.Save and the unconditional Delete
\* have no caller outside the tests and the superseded retire.Service.
CallersUse == {"Save", "Create", "Update", "ReplaceDone", "SaveIfRevision",
               "ImportExact", "DeleteIfRevision"}

Symmetry == Permutations(Procs)
===============================================================================
