------------------------------- MODULE MCLease -------------------------------
(***************************************************************************)
(* Small instances of Lease.  Keys are ordered as Key.canonical orders     *)
(* them: by repository, the branches of a repository before itself.        *)
(***************************************************************************)
EXTENDS Lease

CONSTANTS r1, r2, b1

\* An order of the keys that agrees with Key.canonical.
Position(k) == (CASE k.repository = r1 -> 0 [] OTHER -> 2)
             + (CASE k.branch = b1 -> 0 [] OTHER -> 1)
CanonicalRank == [k \in Key |-> Position(k)]

\* A repository, and beside it a branch under it, both repositories, or the
\* other repository.
Alone == {RepositoryKey(r1)}
Mixed == {Alone, {BranchKey(r1, b1)}, {RepositoryKey(r1), RepositoryKey(r2)}, {RepositoryKey(r2)}}
===============================================================================
