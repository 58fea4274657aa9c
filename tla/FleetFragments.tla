--------------------------- MODULE FleetFragments ---------------------------
(***************************************************************************)
(* Generated registrations of hosts beside the user's primary list of      *)
(* remotes: one fragment per ssh alias in one directory, written and       *)
(* removed under a file lock.  The user, and other tools, change the same  *)
(* files without the lock.  A writer therefore exchanges its staged file   *)
(* with the fragment atomically, looks at what it displaced, and exchanges *)
(* back when that is not the file it had looked at.  A registration that   *)
(* does not fit the merged list any more is taken back by the same means.  *)
(***************************************************************************)
EXTENDS Naturals, FiniteSets

CONSTANTS Processes,    \* dev commands, one registration or removal each
          Aliases,      \* ssh aliases: the fragment of an alias has one name
          Names,        \* names of hosts, unique over the merged list
          None,
          MaxSaves      \* bound: changes by the user

(* A file: the host name it registers, or "edited" when it is not what dev *)
(* renders; its identity is who created it, and which of their files   *)
(* it is.                                                                   *)
File(text, by, nr) == [text |-> text, by |-> by, nr |-> nr]
Files == [text : Names \cup {"edited"}, by : Processes \cup {None}, nr : 0..(MaxSaves + 2)]

FleetAssumption ==
    /\ None \notin Processes \cup Names \cup Files /\ "edited" \notin Names
    /\ Processes \cap Aliases = {}
    /\ MaxSaves \in Nat

Text(file) == IF file = None THEN None ELSE file.text
Canonical(file) == file # None => file.text \in Names

(* What a command does: to which fragment, the host name it wants there,   *)
(* None for no fragment, and the file it looked at.                         *)
Operation(kind, alias, want, prev) ==
    [kind |-> kind, alias |-> alias, want |-> want, prev |-> prev]

VARIABLES entry,      \* the directory: a name per alias, and a private one per process
          primary,    \* host names in the user's own file
          touched,    \* history: the aliases whose fragment the user has changed
          saves,      \* changes by the user so far
          lock,       \* who holds the lock of the directory
          pc, op,     \* per process
          result

vars == <<entry, primary, touched, saves, lock, pc, op, result>>

Target(p) == entry[op[p].alias]
Existed(p) == op[p].prev # None
Staged(p) == File(op[p].want, p, IF op[p].kind = "undo" THEN 2 ELSE 1)

(* LoadConfig: every fragment as rendered, every host name once.           *)
Loads(fragments) ==
    /\ \A a \in Aliases : Canonical(fragments[a])
    /\ \A a \in Aliases : Text(fragments[a]) \notin primary
    /\ \A a, b \in Aliases :
          a # b /\ fragments[a] # None => Text(fragments[a]) # Text(fragments[b])

(* validateManagedWriteMerge: the list loads, and loads with the new host. *)
Merges(alias, name) ==
    Loads(entry) /\ Loads([entry EXCEPT ![alias] = File(name, None, 0)])

Init ==
    /\ \E a \in Aliases, n \in Names :
          entry = [x \in Aliases \cup Processes |-> IF x = a THEN File(n, None, 0) ELSE None]
    /\ primary = {}
    /\ touched = {}
    /\ saves = 0
    /\ lock = None
    /\ pc = [p \in Processes |-> "idle"]
    /\ op = [p \in Processes |-> None]
    /\ result = [p \in Processes |-> None]

-----------------------------------------------------------------------------
Go(p, label) == pc' = [pc EXCEPT ![p] = label]

Stay == UNCHANGED <<primary, touched, saves>>

(* A step under the lock that leaves the directory, or changes it.         *)
Continue(p, label) == Go(p, label) /\ Stay /\ UNCHANGED <<lock, op, result>>

End(p, outcome) ==
    /\ Go(p, "done")
    /\ lock' = None
    /\ result' = [result EXCEPT ![p] = outcome]
    /\ Stay
    /\ UNCHANGED op

Start(p, operation) ==
    /\ pc[p] = "idle"
    /\ Go(p, "waiting")
    /\ op' = [op EXCEPT ![p] = operation]
    /\ Stay
    /\ UNCHANGED <<entry, lock, result>>

Register(p) ==
    \E a \in Aliases, n \in Names :
        Merges(a, n) /\ Start(p, Operation("register", a, n, entry[a]))

Unregister(p) ==
    \E a \in Aliases :
        /\ entry[a] # None
        /\ Canonical(entry[a])
        /\ Start(p, Operation("unregister", a, None, entry[a]))

Enter(p) ==
    /\ pc[p] = "waiting"
    /\ lock = None
    /\ lock' = p
    /\ Go(p, "locked")
    /\ Stay
    /\ UNCHANGED <<entry, op, result>>

\* Seeded fault: the merged list is validated before the lock only.
MergeHeld(p) == TRUE

(* Under the lock everything is looked at again: the fragment must be the  *)
(* file seen before, unless it is as wanted already.                        *)
MergeHolds(p) == op[p].kind = "register" => Merges(op[p].alias, op[p].want)

Recheck(p) ==
    /\ pc[p] = "locked"
    /\ UNCHANGED entry
    /\ \/ ~(MergeHolds(p) /\ Canonical(Target(p))) /\ End(p, "failed")
       \/ /\ MergeHolds(p) /\ Canonical(Target(p))
          /\ \/ Text(Target(p)) = op[p].want /\ End(p, "ok")
             \/ /\ Text(Target(p)) # op[p].want
                /\ \/ Target(p) # op[p].prev /\ End(p, "failed")
                   \/ /\ Target(p) = op[p].prev
                      /\ Continue(p, IF op[p].kind = "register" THEN "writing" ELSE "removing")

-----------------------------------------------------------------------------
(* writeManagedFragmentOS                                                   *)
Stage(p) ==
    /\ pc[p] = "writing"
    /\ \/ /\ Target(p) = op[p].prev
          /\ entry' = [entry EXCEPT ![p] = Staged(p)]
          /\ Continue(p, "staged")
       \/ Target(p) # op[p].prev /\ UNCHANGED entry /\ End(p, "failed")

Validate(p) ==
    /\ pc[p] = "staged"
    /\ UNCHANGED entry
    /\ Continue(p, IF Target(p) = op[p].prev THEN "ready" ELSE "cleaning")

(* RENAME_EXCHANGE needs both names, RENAME_NOREPLACE a vacant one.        *)
Swap(p) == [entry EXCEPT ![op[p].alias] = entry[p], ![p] = Target(p)]

Publish(p) ==
    /\ pc[p] = "ready"
    /\ \/ /\ Existed(p) <=> (Target(p) # None)
          /\ entry' = Swap(p)
          /\ Continue(p, "published")
       \/ /\ ~(Existed(p) <=> (Target(p) # None))
          /\ UNCHANGED entry
          /\ Continue(p, "cleaning")

\* Seeded fault: the displaced file is not looked at.
MatchesPublished(p) == Target(p) = Staged(p)

(* Both files are read back.                                                *)
Matches(p) == Target(p) = Staged(p) /\ (Existed(p) => entry[p] = op[p].prev)

Compare(p) ==
    /\ pc[p] = "published"
    /\ UNCHANGED entry
    /\ Continue(p, CASE ~Matches(p) -> "undoing"
                     [] Matches(p) /\ Existed(p) -> "matched"
                     [] OTHER -> "final")

Discard(p) ==
    /\ pc[p] = "matched"
    /\ entry' = [entry EXCEPT ![p] = None]
    /\ Continue(p, "final")

Undo(p) ==
    /\ pc[p] = "undoing"
    /\ entry' = IF Target(p) # None THEN Swap(p) ELSE entry
    /\ Continue(p, "cleaning")

(* removeIfSame: the staged file, by its identity, and nothing else.       *)
OwnStage(p) == entry[p] # None /\ entry[p].by = p /\ entry[p].nr = Staged(p).nr

Clean(p) ==
    /\ pc[p] = "cleaning"
    /\ entry' = IF OwnStage(p) THEN [entry EXCEPT ![p] = None] ELSE entry
    /\ End(p, "failed")

Final(p) ==
    /\ pc[p] = "final"
    /\ UNCHANGED entry
    /\ \/ Target(p) = Staged(p) /\ op[p].kind = "register" /\ Continue(p, "verify")
       \/ ~(Target(p) = Staged(p) /\ op[p].kind = "register") /\ End(p, "failed")

-----------------------------------------------------------------------------

(* The merged list is loaded once more; a publication that does not fit is *)
(* taken back, unless the fragment is somebody else's by now.               *)
Verify(p) ==
    /\ pc[p] = "verify"
    /\ UNCHANGED entry
    /\ \/ Text(Target(p)) # op[p].want /\ End(p, "failed")
       \/ Text(Target(p)) = op[p].want /\ Loads(entry) /\ End(p, "ok")
       \/ /\ Text(Target(p)) = op[p].want
          /\ ~Loads(entry)
          /\ op' = [op EXCEPT ![p] = Operation("undo", @.alias, Text(@.prev), Target(p))]
          /\ Go(p, "rollback")
          /\ Stay
          /\ UNCHANGED <<lock, result>>

Rollback(p) ==
    /\ pc[p] = "rollback"
    /\ UNCHANGED entry
    /\ \/ Target(p) # op[p].prev /\ End(p, "failed")
       \/ /\ Target(p) = op[p].prev
          /\ Continue(p, IF op[p].want = None THEN "removing" ELSE "writing")

-----------------------------------------------------------------------------
(* removeManagedFragmentOS: the fragment is moved to a private name, looked *)
(* at there, and only then removed.                                         *)
Remove(p) ==
    /\ pc[p] = "removing"
    /\ UNCHANGED entry
    /\ \/ Target(p) = op[p].prev /\ Continue(p, "leaving")
       \/ Target(p) # op[p].prev /\ End(p, "failed")

RenameOut(p) ==
    /\ pc[p] = "leaving"
    /\ \/ Target(p) # None /\ entry' = Swap(p) /\ Continue(p, "out")
       \/ Target(p) = None /\ UNCHANGED entry /\ End(p, "failed")

Moved(p) == entry[p] = op[p].prev

CompareOut(p) ==
    /\ pc[p] = "out"
    /\ \/ Moved(p) /\ entry' = [entry EXCEPT ![p] = None] /\ Continue(p, "gone")
       \/ /\ ~Moved(p)
          /\ entry' = IF Target(p) = None THEN Swap(p) ELSE entry
          /\ End(p, "failed")

Gone(p) ==
    /\ pc[p] = "gone"
    /\ UNCHANGED entry
    /\ \/ op[p].kind = "unregister" /\ Target(p) = None /\ End(p, "ok")
       \/ ~(op[p].kind = "unregister" /\ Target(p) = None) /\ End(p, "failed")

(* A crash, or Ctrl-C while waiting.                                        *)
Kill(p) ==
    /\ pc[p] \notin {"idle", "done"}
    /\ Go(p, "done")
    /\ lock' = IF lock = p THEN None ELSE lock
    /\ result' = [result EXCEPT ![p] = "killed"]
    /\ Stay
    /\ UNCHANGED <<entry, op>>

-----------------------------------------------------------------------------
Saves(a) ==
    /\ saves < MaxSaves
    /\ saves' = saves + 1
    /\ touched' = touched \cup {a}
    /\ UNCHANGED <<primary, lock, pc, op, result>>

(* Another file under the name of a fragment, with any bytes.              *)
Replace(a) ==
    /\ Saves(a)
    /\ \E text \in Names \cup {"edited"} :
          entry' = [entry EXCEPT ![a] = File(text, None, saves')]

EditInPlace(a) ==
    /\ entry[a] # None
    /\ Saves(a)
    /\ entry' = [entry EXCEPT ![a].text = "edited"]

Delete(a) ==
    /\ entry[a] # None
    /\ Saves(a)
    /\ entry' = [entry EXCEPT ![a] = None]

EditPrimary ==
    /\ saves < MaxSaves
    /\ saves' = saves + 1
    /\ \E n \in Names : primary' = (primary \ {n}) \cup ({n} \ primary)
    /\ UNCHANGED <<entry, touched, lock, pc, op, result>>

Next ==
    \/ \E p \in Processes :
          \/ Register(p) \/ Unregister(p) \/ Enter(p) \/ Recheck(p)
          \/ Stage(p) \/ Validate(p) \/ Publish(p) \/ Compare(p) \/ Discard(p)
          \/ Undo(p) \/ Clean(p) \/ Final(p) \/ Verify(p) \/ Rollback(p)
          \/ Remove(p) \/ RenameOut(p) \/ CompareOut(p) \/ Gone(p) \/ Kill(p)
    \/ \E a \in Aliases : Replace(a) \/ EditInPlace(a) \/ Delete(a)
    \/ EditPrimary

Spec == Init /\ [][Next]_vars

-----------------------------------------------------------------------------
(* Types; the lock is held exactly past "waiting".                         *)
TypeOK ==
    /\ entry \in [Aliases \cup Processes -> Files \cup {None}]
    /\ primary \subseteq Names
    /\ touched \subseteq Aliases
    /\ saves \in 0..MaxSaves
    /\ result \in [Processes -> {"ok", "failed", "killed", None}]
    /\ \A p \in Processes :
          /\ lock = p <=> pc[p] \notin {"idle", "waiting", "done"}
          /\ pc[p] # "idle" => op[p].prev \in Files \cup {None}

(* While the user changes nothing, whoever loads the merged list at any    *)
(* moment finds it valid (validateManagedWriteMerge under the lock).       *)
AlwaysLoads == saves = 0 => Loads(entry)

(* A file disappears from the directory by dev's hand only if the command  *)
(* that holds the lock has looked at this very file, or has created it     *)
(* (replace, removeManagedFragmentOS, removeIfSame).                        *)
Looks ==
    \A x \in DOMAIN entry :
        (entry[x] # None /\ saves' = saves /\ \A y \in DOMAIN entry : entry'[y] # entry[x]) =>
            \E p \in Processes :
                lock = p /\ (entry[x] = op[p].prev \/ entry[x].by = p)
OnlyLooked == [][Looks]_vars

(* A command that fails after it had begun to write leaves the fragment    *)
(* with the text it found, unless the user has changed it                  *)
(* (rollbackManagedFragmentPublication and the exchanges back).             *)
Reverted ==
    [][\A p \in Processes :
          (/\ pc[p] \notin {"locked", "done"}
           /\ result'[p] = "failed"
           /\ op[p].alias \notin touched) =>
              Text(entry'[op[p].alias]) =
                  (IF op[p].kind = "undo" THEN op[p].want ELSE Text(op[p].prev))]_vars

(* A command that was not killed leaves no staged file behind, and nothing *)
(* at all under its private name unless the user has changed the fragment  *)
(* meanwhile.                                                               *)
Tidy ==
    \A p \in Processes :
        (result[p] \in {"ok", "failed"} /\ entry[p] # None) =>
            op[p].alias \in touched /\ entry[p] # Staged(p)
=============================================================================
