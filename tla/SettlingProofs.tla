--------------------------- MODULE SettlingProofs ---------------------------
(* Theorems of MCSettling: of SubmoduleRemoval, for any number of          *)
(* submodules, nested in any way, and any number of removals, faults,      *)
(* crashes and files put in the way, as long as no recovery starts while a *)
(* removal runs; and of RetireHandoff, for any panes, workspaces,          *)
(* processes and changes of panes.                                         *)
EXTENDS MCSettling, TLAPS

\* The record of a holder whose moves are under way is the one on disk.
Synced == pc \in {"rename", "fill", "check", "remove", "receipt"} =>
              memory # None /\ journal = memory

\* The item a step works on, and the quarantine it works in.
Position ==
    /\ pc \in {"record", "rename", "fill"} => k \in Item /\ area # 0
    /\ pc = "rename" => memory.down = k /\ memory.run = area
    /\ pc = "fill" => k \in Child
    /\ pc \in {"receipt", "dispose"} => ~outer

\* Moves are made from the last item to the first and taken back from the
\* first to the last, so what is in quarantine lies on one side of the step.
Ordered ==
    \A i \in Item : Staged(i) =>
        /\ pc \in {"record", "rename"} => i > k
        /\ pc \in {"fill", "undo", "restore"} => i >= k

\* A recovery acts on the journal that is there.
Current ==
    /\ read # None => read = journal /\ pc \in {"idle", "revive", "restore"}
    /\ pc \in {"revive", "restore"} => read # None

Inv == TypeOK /\ runs \in 0..MaxRuns /\ Accounted /\ Synced /\ Position /\ Ordered /\ Current

\* The initial states satisfy the invariant.
LEMMA InitInv == Init => Inv
<1> SUFFICES ASSUME Init PROVE Inv
  OBVIOUS
<1>1. TypeOK /\ runs \in 0..MaxRuns
  BY BoundsAssumption DEF Init, TypeOK, Steps
<1>2. \A i \in Item : ~Staged(i)
  BY DEF Init, Staged
<1> QED
  BY <1>1, <1>2 DEF Init, Inv, Accounted, Synced, Position, Ordered, Current

\* A record of the moves made so far is a journal.
LEMMA RecordType == ASSUME TypeOK, NEW i \in Item PROVE Recorded(i) \in Journal /\ Recorded(i) # None
<1>1. Recorded(i) \in Journal
  BY BoundsAssumption DEF TypeOK, Recorded, Journal
<1> QED
  BY <1>1, NoneAssumption DEF Journal, Item

\* Only a step of some action changes the state.
LEMMA TypeStep == Inv /\ [Next]_vars => TypeOK' /\ runs' \in 0..MaxRuns
<1> SUFFICES ASSUME Inv, [Next]_vars PROVE TypeOK' /\ runs' \in 0..MaxRuns
  OBVIOUS
<1> USE BoundsAssumption DEF holder, bounds
<1>a. TypeOK /\ runs \in 0..MaxRuns /\ Synced /\ Position /\ Current
  BY DEF Inv
<1>0. CASE UNCHANGED vars
  BY <1>a, <1>0 DEF vars, TypeOK
<1>1. CASE Begin
  BY <1>a, <1>1 DEF Begin, TypeOK, Go, Leave, Fault, Steps, Applying
<1>2. CASE Record
  <2>1. Recorded(k) \in Journal
    BY <1>a, <1>2, RecordType DEF Record, Position
  <2> QED
    BY <1>a, <1>2, <2>1 DEF Record, TypeOK, Go, Leave, Fault, Steps, Applying
<1>3. CASE Rename
  BY <1>a, <1>3 DEF Rename, TypeOK, Go, Leave, Fault, Steps, Applying, Position, Item, Child
<1>4. CASE Fill
  BY <1>a, <1>4 DEF Fill, TypeOK, Go, Leave, Fault, Steps, Applying, Position, Item, Child
<1>5. CASE Check
  BY <1>a, <1>5 DEF Check, TypeOK, Go, Leave, Fault, Steps, Applying
<1>6. CASE RemoveOuter
  <2>1. pc # "dispose" => memory.down \in Item
    BY <1>a, <1>6 DEF RemoveOuter, Synced, TypeOK, Journal, Applying
  <2> QED
    <3>1. pc' \in Steps /\ k' \in 0..(N + 1) /\ memory' = memory
      BY <1>6, <2>1 DEF RemoveOuter, Go, Steps, Applying, Item
    <3> QED
      BY <1>a, <1>6, <3>1 DEF RemoveOuter, TypeOK, Fault
<1>7. CASE Receipt
  <2>1. journal \in Journal
    BY <1>a, <1>7 DEF Receipt, Synced, TypeOK
  <2>2. [journal EXCEPT !.removed = TRUE] \in Journal
    BY <2>1 DEF Journal
  <2>3. journal' \in Journal /\ memory' \in {memory, None}
    BY <1>7, <2>1, <2>2 DEF Receipt, Go, Leave
  <2>4. pc' \in Steps /\ k' \in 0..(N + 1)
    BY <1>7 DEF Receipt, Go, Leave, Steps, Applying
  <2>5. UNCHANGED <<at, hole, outer, area, read, runs>>
    BY <1>7 DEF Receipt, Fault
  <2> QED
    BY <1>a, <2>3, <2>4, <2>5 DEF TypeOK
<1>8. CASE Dispose
  BY <1>a, <1>8 DEF Dispose, TypeOK, Go, Leave, Fault, Steps, Applying
<1>9. CASE Fail
  <2>1. pc # "dispose" => memory.down \in Item
    BY <1>a, <1>9 DEF Fail, Synced, TypeOK, Journal, Applying
  <2> QED
    BY <1>a, <1>9, <2>1 DEF Fail, TypeOK, Go, Leave, Fault, Steps, Applying, Item
<1>10. CASE Refused
  <2>1. pc # "dispose" => memory.down \in Item
    BY <1>a, <1>10 DEF Refused, Synced, TypeOK, Journal, Applying
  <2> QED
    BY <1>a, <1>10, <2>1 DEF Refused, TypeOK, Go, Leave, Fault, Steps, Applying, Item
<1>11. CASE Skip
  BY <1>a, <1>11 DEF Skip, TypeOK, Go, Leave, Fault, Steps, Applying, Item
<1>12. CASE PutBack
  BY <1>a, <1>12 DEF PutBack, TypeOK, Go, Leave, Fault, Steps, Applying, Item
<1>13. CASE Keep
  BY <1>a, <1>13 DEF Keep, TypeOK, Go, Leave, Fault, Steps, Applying
<1>14. CASE Restored
  BY <1>a, <1>14 DEF Restored, TypeOK, Go, Leave, Fault, Steps, Applying
<1>15. CASE Read
  BY <1>a, <1>15 DEF Read, TypeOK, Go, Leave, Fault, Steps, Applying
<1>16. CASE RecoverLock
  BY <1>a, <1>16 DEF RecoverLock, TypeOK, Go, Leave, Fault, Steps, Applying
<1>17. CASE Revive
  <2>1. read.down \in Item
    BY <1>a, <1>17 DEF Revive, Current, TypeOK, Journal
  <2>2. Revived \in [Item -> {"none", "empty", "used"}]
    BY <1>a DEF Revived, TypeOK
  <2>3. pc' \in Steps /\ k' \in 0..(N + 1) /\ memory' \in {memory, None}
    BY <1>17, <2>1 DEF Revive, Go, Leave, Steps, Applying, Item
  <2>4. hole' \in {hole, Revived} /\ outer' \in {TRUE, outer} /\ read' \in {read, None}
    BY <1>17 DEF Revive
  <2>5. UNCHANGED <<at, area, journal, runs>>
    BY <1>17 DEF Revive, Fault
  <2> QED
    BY <1>a, <2>2, <2>3, <2>4, <2>5 DEF TypeOK
<1>18. CASE \E i \in Child : Put(i) \/ Clear(i)
  BY <1>a, <1>18 DEF Put, Clear, TypeOK
<1>19. CASE Crash
  BY <1>a, <1>19 DEF Crash, TypeOK, Leave, Steps
<1> QED
  BY <1>0, <1>1, <1>2, <1>3, <1>4, <1>5, <1>6, <1>7, <1>8, <1>9, <1>10, <1>11, <1>12,
     <1>13, <1>14, <1>15, <1>16, <1>17, <1>18, <1>19 DEF Next, Removal, Return, Recovery

\* What the invariant says of the journal, in the parts the steps use.
LEMMA JournalParts ==
    ASSUME Inv
    PROVE  /\ \A i \in Item : Staged(i) /\ journal # None => area # 0 /\ journal.run = area /\ journal.down <= i
           /\ \A i \in Item : Staged(i) => area # 0 /\ (journal # None \/ ~outer)
  BY DEF Inv, Accounted, Named

\* Every step of the holder leaves its record and the journal in agreement.
LEMMA SyncedStep == Inv /\ [Next]_vars => Synced'
<1> SUFFICES ASSUME Inv, [Next]_vars PROVE Synced'
  OBVIOUS
<1>a. TypeOK /\ Synced /\ Position
  BY DEF Inv
<1>0. CASE UNCHANGED vars
  BY <1>a, <1>0 DEF vars, holder, Synced
<1>1. CASE Begin
  BY <1>a, <1>1 DEF Begin, Synced, Go, Leave, holder
<1>2. CASE Record
  <2>1. Recorded(k) # None
    BY <1>a, <1>2, RecordType DEF Record, Position
  <2> QED
    BY <1>2, <2>1 DEF Record, Synced
<1>3. CASE Rename
  BY <1>a, <1>3 DEF Rename, Synced, Go, Leave, holder
<1>4. CASE Fill
  BY <1>a, <1>4 DEF Fill, Synced, Go, Leave, holder
<1>5. CASE Check
  BY <1>a, <1>5 DEF Check, Synced, Go, Leave, holder
<1>6. CASE RemoveOuter
  BY <1>a, <1>6 DEF RemoveOuter, Synced, Go, Leave, holder
<1>7. CASE Receipt
  BY <1>a, <1>7 DEF Receipt, Synced, Go, Leave, holder
<1>8. CASE Dispose
  BY <1>a, <1>8 DEF Dispose, Synced, Go, Leave, holder
<1>9. CASE Fail
  BY <1>a, <1>9 DEF Fail, Synced, Go, Leave, holder
<1>10. CASE Refused
  BY <1>a, <1>10 DEF Refused, Synced, Go, Leave, holder
<1>11. CASE Skip
  BY <1>a, <1>11 DEF Skip, Synced, Go, Leave, holder
<1>12. CASE PutBack
  BY <1>a, <1>12 DEF PutBack, Synced, Go, Leave, holder
<1>13. CASE Keep
  BY <1>a, <1>13 DEF Keep, Synced, Go, Leave, holder
<1>14. CASE Restored
  BY <1>a, <1>14 DEF Restored, Synced, Go, Leave, holder
<1>15. CASE Read
  BY <1>a, <1>15 DEF Read, Synced, Go, Leave, holder
<1>16. CASE RecoverLock
  BY <1>a, <1>16 DEF RecoverLock, Synced, Go, Leave, holder
<1>17. CASE Revive
  BY <1>a, <1>17 DEF Revive, Synced, Go, Leave, holder
<1>18. CASE \E i \in Child : Put(i) \/ Clear(i)
  BY <1>a, <1>18 DEF Put, Clear, Synced, Go, Leave, holder
<1>19. CASE Crash
  BY <1>a, <1>19 DEF Crash, Synced, Go, Leave, holder
<1> QED
  BY <1>0, <1>1, <1>2, <1>3, <1>4, <1>5, <1>6, <1>7, <1>8, <1>9, <1>10, <1>11, <1>12,
     <1>13, <1>14, <1>15, <1>16, <1>17, <1>18, <1>19 DEF Next, Removal, Return, Recovery

\* Every step starts with the item and the quarantine it works on.
LEMMA PositionStep == Inv /\ [Next]_vars => Position'
<1> SUFFICES ASSUME Inv, [Next]_vars PROVE Position'
  OBVIOUS
<1> USE BoundsAssumption
<1>a. TypeOK /\ runs \in 0..MaxRuns /\ Position
  BY DEF Inv
<1>0. CASE UNCHANGED vars
  BY <1>a, <1>0 DEF vars, holder, Position
<1>1. CASE Begin
  BY <1>a, <1>1 DEF Begin, Position, Go, Item
<1>2. CASE Record
  BY <1>a, <1>2 DEF Record, Position, Recorded
<1>3. CASE Rename
  BY <1>a, <1>3 DEF Rename, Position, Go, Item, Child
<1>4. CASE Fill
  BY <1>a, <1>4 DEF Fill, Position, Go, Item, Child
<1>5. CASE Check
  BY <1>a, <1>5 DEF Check, Position, Go, Leave, holder
<1>6. CASE RemoveOuter
  BY <1>a, <1>6 DEF RemoveOuter, Position, Go, Leave, holder
<1>7. CASE Receipt
  BY <1>a, <1>7 DEF Receipt, Position, Go, Leave, holder
<1>8. CASE Dispose
  BY <1>a, <1>8 DEF Dispose, Position, Go, Leave, holder
<1>9. CASE Fail
  BY <1>a, <1>9 DEF Fail, Position, Go, Leave, holder
<1>10. CASE Refused
  BY <1>a, <1>10 DEF Refused, Position, Go, Leave, holder
<1>11. CASE Skip
  BY <1>a, <1>11 DEF Skip, Position, Go, Leave, holder
<1>12. CASE PutBack
  BY <1>a, <1>12 DEF PutBack, Position, Go, Leave, holder
<1>13. CASE Keep
  BY <1>a, <1>13 DEF Keep, Position, Go, Leave, holder
<1>14. CASE Restored
  BY <1>a, <1>14 DEF Restored, Position, Go, Leave, holder
<1>15. CASE Read
  BY <1>a, <1>15 DEF Read, Position, Go, Leave, holder
<1>16. CASE RecoverLock
  BY <1>a, <1>16 DEF RecoverLock, Position, Go, Leave, holder
<1>17. CASE Revive
  BY <1>a, <1>17 DEF Revive, Position, Go, Leave, holder
<1>18. CASE \E i \in Child : Put(i) \/ Clear(i)
  BY <1>a, <1>18 DEF Put, Clear, Position, Go, Leave, holder
<1>19. CASE Crash
  BY <1>a, <1>19 DEF Crash, Position, Go, Leave, holder
<1> QED
  BY <1>0, <1>1, <1>2, <1>3, <1>4, <1>5, <1>6, <1>7, <1>8, <1>9, <1>10, <1>11, <1>12,
     <1>13, <1>14, <1>15, <1>16, <1>17, <1>18, <1>19 DEF Next, Removal, Return, Recovery

\* A recovery reads the journal while nobody holds the lock, and no removal
\* begins before it ends, so the journal it has read is the one there.
LEMMA CurrentStep == ASSUME ~Overlaps PROVE Inv /\ [Next]_vars => Current'
<1> SUFFICES ASSUME Inv, [Next]_vars PROVE Current'
  OBVIOUS
<1>a. Current
  BY DEF Inv
<1>0. CASE UNCHANGED vars
  BY <1>a, <1>0 DEF vars, holder, Current
<1>1. CASE Begin
  BY <1>a, <1>1 DEF Begin, Current, Go, Leave, holder
<1>2. CASE Record
  BY <1>a, <1>2 DEF Record, Current, Go, Leave, holder
<1>3. CASE Rename
  BY <1>a, <1>3 DEF Rename, Current, Go, Leave, holder
<1>4. CASE Fill
  BY <1>a, <1>4 DEF Fill, Current, Go, Leave, holder
<1>5. CASE Check
  BY <1>a, <1>5 DEF Check, Current, Go, Leave, holder
<1>6. CASE RemoveOuter
  BY <1>a, <1>6 DEF RemoveOuter, Current, Go, Leave, holder
<1>7. CASE Receipt
  BY <1>a, <1>7 DEF Receipt, Current, Go, Leave, holder
<1>8. CASE Dispose
  BY <1>a, <1>8 DEF Dispose, Current, Go, Leave, holder
<1>9. CASE Fail
  BY <1>a, <1>9 DEF Fail, Current, Go, Leave, Applying
<1>10. CASE Refused
  BY <1>a, <1>10 DEF Refused, Current, Go, Leave, holder
<1>11. CASE Skip
  BY <1>a, <1>11 DEF Skip, Current, Go, Leave, holder
<1>12. CASE PutBack
  BY <1>a, <1>12 DEF PutBack, Current, Go, Leave, holder
<1>13. CASE Keep
  BY <1>a, <1>13 DEF Keep, Current, Go, Leave, holder
<1>14. CASE Restored
  BY <1>a, <1>14 DEF Restored, Current, Go, Leave, holder
<1>15. CASE Read
  BY <1>a, <1>15 DEF Read, Current, Go, Leave, holder
<1>16. CASE RecoverLock
  BY <1>a, <1>16 DEF RecoverLock, Current, Go, Leave, holder
<1>17. CASE Revive
  BY <1>a, <1>17 DEF Revive, Current, Go, Leave, holder
<1>18. CASE \E i \in Child : Put(i) \/ Clear(i)
  BY <1>a, <1>18 DEF Put, Clear, Current, Go, Leave, holder
<1>19. CASE Crash
  BY <1>a, <1>19 DEF Crash, Current, Go, Leave, holder
<1> QED
  BY <1>0, <1>1, <1>2, <1>3, <1>4, <1>5, <1>6, <1>7, <1>8, <1>9, <1>10, <1>11, <1>12,
     <1>13, <1>14, <1>15, <1>16, <1>17, <1>18, <1>19 DEF Next, Removal, Return, Recovery

\* Moves go on in order.
LEMMA OrderedStep == Inv /\ [Next]_vars => Ordered'
<1> SUFFICES ASSUME Inv, [Next]_vars PROVE Ordered'
  OBVIOUS
<1> USE BoundsAssumption
<1>a. TypeOK /\ Position /\ Ordered /\ Synced /\ Current
  BY DEF Inv
<1>b. \A i \in Item : Staged(i) /\ journal # None => journal.down <= i
  BY JournalParts
<1>c. Item \subseteq Int /\ k \in Int
  BY <1>a DEF TypeOK, Item
<1>0. CASE UNCHANGED vars
  BY <1>a, <1>0 DEF vars, holder, Ordered, Staged
<1>1. CASE Begin
  BY <1>a, <1>b, <1>c, <1>1 DEF Begin, Ordered, Staged, Go, Leave, holder
<1>2. CASE Record
  BY <1>a, <1>b, <1>c, <1>2 DEF Record, Ordered, Staged
<1>3. CASE Rename
  BY <1>a, <1>c, <1>3 DEF Rename, Ordered, Staged, Go, TypeOK, Position
<1>4. CASE Fill
  BY <1>a, <1>c, <1>4 DEF Fill, Ordered, Staged, Go, Position
<1>5. CASE Check
  BY <1>a, <1>b, <1>c, <1>5 DEF Check, Ordered, Staged, Go, Leave, holder
<1>6. CASE RemoveOuter
  BY <1>a, <1>b, <1>6 DEF RemoveOuter, Synced, Ordered, Staged, Go
<1>7. CASE Receipt
  BY <1>a, <1>b, <1>c, <1>7 DEF Receipt, Ordered, Staged, Go, Leave, holder
<1>8. CASE Dispose
  BY <1>a, <1>8 DEF Dispose, Ordered, Staged, Leave, holder
<1>9. CASE Fail
  BY <1>a, <1>b, <1>9 DEF Fail, Synced, Ordered, Staged, Go, Leave, Applying
<1>10. CASE Refused
  BY <1>a, <1>b, <1>10 DEF Refused, Synced, Ordered, Staged, Go
<1>11. CASE Skip
  BY <1>a, <1>c, <1>11 DEF Skip, NotMoved, Ordered, Staged, Go
<1>12. CASE PutBack
  BY <1>a, <1>c, <1>12 DEF PutBack, Ordered, Staged, Go, Leave, TypeOK
<1>13. CASE Keep
  BY <1>a, <1>b, <1>c, <1>13 DEF Keep, Ordered, Staged, Go, Leave, holder
<1>14. CASE Restored
  BY <1>a, <1>b, <1>c, <1>14 DEF Restored, Ordered, Staged, Go, Leave, holder
<1>15. CASE Read
  BY <1>a, <1>b, <1>c, <1>15 DEF Read, Ordered, Staged, Go, Leave, holder
<1>16. CASE RecoverLock
  BY <1>a, <1>b, <1>c, <1>16 DEF RecoverLock, Ordered, Staged, Go, Leave, holder
<1>17. CASE Revive
  BY <1>a, <1>b, <1>17 DEF Revive, Current, Ordered, Staged, Go, Leave
<1>18. CASE \E i \in Child : Put(i) \/ Clear(i)
  BY <1>a, <1>b, <1>c, <1>18 DEF Put, Clear, Ordered, Staged, Go, Leave, holder
<1>19. CASE Crash
  BY <1>a, <1>b, <1>c, <1>19 DEF Crash, Ordered, Staged, Go, Leave, holder
<1> QED
  BY <1>0, <1>1, <1>2, <1>3, <1>4, <1>5, <1>6, <1>7, <1>8, <1>9, <1>10, <1>11, <1>12,
     <1>13, <1>14, <1>15, <1>16, <1>17, <1>18, <1>19 DEF Next, Removal, Return, Recovery

\* When all items have been looked at nothing is left in quarantine.
LEMMA NothingStaged == Inv /\ Restored => \A i \in Item : ~Staged(i)
<1> SUFFICES ASSUME Inv, Restored, NEW i \in Item, Staged(i) PROVE FALSE
  OBVIOUS
<1>1. k = N + 1 /\ i >= k
  BY DEF Inv, Ordered, Restored
<1> QED
  BY <1>1, BoundsAssumption DEF Item

\* What is in quarantine stays accounted for.
LEMMA AccountedStep == Inv /\ [Next]_vars => Accounted'
<1> SUFFICES ASSUME Inv, [Next]_vars PROVE Accounted'
  OBVIOUS
<1> USE BoundsAssumption
<1>a. TypeOK /\ Accounted /\ Position /\ Ordered /\ Synced /\ Current
  BY DEF Inv
<1>c. Item \subseteq Int /\ k \in Int
  BY <1>a DEF TypeOK, Item
<1>0. CASE UNCHANGED vars
  BY <1>a, <1>0 DEF vars, Accounted, Named, Staged
<1>1. CASE Begin
  BY <1>a, <1>1 DEF Begin, Accounted, Named, Staged
<1>2. CASE Record
  <2>1. Recorded(k) # None /\ Recorded(k).down = k /\ Recorded(k).run = area
    BY <1>a, <1>2, RecordType DEF Record, Recorded, Position
  <2>2. journal' \in {journal, Recorded(k)} /\ UNCHANGED <<at, outer, area>>
    BY <1>2 DEF Record
  <2>3. \A i \in Item : Staged(i) => i > k
    BY <1>a, <1>2 DEF Record, Ordered
  <2>4. CASE journal' = journal
    BY <1>a, <2>2, <2>4 DEF Accounted, Named, Staged
  <2>5. CASE journal' = Recorded(k)
    <3> SUFFICES ASSUME NEW i \in Item, Staged(i)'
                 PROVE  area' # 0 /\ Named(i)'
      BY DEF Accounted
    <3>1. Staged(i) /\ area # 0
      BY <1>a, <1>2, <2>2 DEF Staged, Record, Position
    <3>2. k <= i
      BY <1>c, <2>3, <3>1
    <3> QED
      BY <2>1, <2>2, <2>5, <3>1, <3>2 DEF Named
  <2> QED
    BY <2>2, <2>4, <2>5
<1>3. CASE Rename
  BY <1>a, <1>c, <1>3 DEF Rename, Accounted, Named, Staged, Synced, Position, TypeOK
<1>4. CASE Fill
  BY <1>a, <1>4 DEF Fill, Accounted, Named, Staged
<1>5. CASE Check
  BY <1>a, <1>5 DEF Check, Accounted, Named, Staged
<1>6. CASE RemoveOuter
  BY <1>a, <1>6 DEF RemoveOuter, Accounted, Named, Staged
<1>7. CASE Receipt
  <2>1. journal \in Journal /\ journal # None
    BY <1>a, <1>7 DEF Receipt, Synced, TypeOK
  <2> DEFINE w == [journal EXCEPT !.removed = TRUE]
  <2>2. w.down = journal.down /\ w.run = journal.run /\ w # None
    <3>1. w \in Journal /\ w.down = journal.down /\ w.run = journal.run
      BY <2>1 DEF Journal
    <3> QED
      BY <3>1, NoneAssumption DEF Journal, Item
  <2>3. journal' \in {journal, w} /\ UNCHANGED <<at, outer, area>>
    BY <1>7 DEF Receipt
  <2> HIDE DEF w
  <2> QED
    BY <1>a, <2>1, <2>2, <2>3 DEF Accounted, Named, Staged
<1>8. CASE Dispose
  BY <1>a, <1>8 DEF Dispose, Accounted, Named, Staged, Position, TypeOK
<1>9. CASE Fail
  BY <1>a, <1>9 DEF Fail, Accounted, Named, Staged
<1>10. CASE Refused
  BY <1>a, <1>10 DEF Refused, Accounted, Named, Staged
<1>11. CASE Skip
  BY <1>a, <1>11 DEF Skip, Accounted, Named, Staged
<1>12. CASE PutBack
  BY <1>a, <1>12 DEF PutBack, Accounted, Named, Staged, TypeOK
<1>13. CASE Keep
  BY <1>a, <1>13 DEF Keep, Accounted, Named, Staged
<1>14. CASE Restored
  <2>1. \A i \in Item : ~Staged(i)
    BY <1>14, NothingStaged
  <2> QED
    BY <1>14, <2>1 DEF Restored, Accounted, Staged
<1>15. CASE Read
  BY <1>a, <1>15 DEF Read, Accounted, Named, Staged
<1>16. CASE RecoverLock
  BY <1>a, <1>16 DEF RecoverLock, Accounted, Named, Staged
<1>17. CASE Revive
  BY <1>a, <1>17 DEF Revive, Accounted, Named, Staged, Current
<1>18. CASE \E i \in Child : Put(i) \/ Clear(i)
  BY <1>a, <1>18 DEF Put, Clear, Accounted, Named, Staged
<1>19. CASE Crash
  BY <1>a, <1>19 DEF Crash, Accounted, Named, Staged
<1> QED
  BY <1>0, <1>1, <1>2, <1>3, <1>4, <1>5, <1>6, <1>7, <1>8, <1>9, <1>10, <1>11, <1>12,
     <1>13, <1>14, <1>15, <1>16, <1>17, <1>18, <1>19 DEF Next, Removal, Return, Recovery

\* The invariant is inductive.
LEMMA Step == ASSUME ~Overlaps PROVE Inv /\ [Next]_vars => Inv'
  BY TypeStep, SyncedStep, PositionStep, CurrentStep, OrderedStep, AccountedStep DEF Inv

LEMMA Invariance == ASSUME ~Overlaps PROVE Spec => []Inv
<1>1. Init => Inv
  BY InitInv
<1>2. Inv /\ [Next]_vars => Inv'
  BY Step
<1> QED
  BY <1>1, <1>2, PTL DEF Spec

(* Variables keep their types (removal.go, moveRecord and removalJournal). *)
THEOREM TypeCorrect == ASSUME ~Overlaps PROVE Spec => []TypeOK
<1>1. Inv => TypeOK
  BY DEF Inv
<1> QED
  BY <1>1, Invariance, PTL

(* The journal names whatever is in quarantine, unless the worktree is     *)
(* removed and the quarantine being disposed of (Apply).                   *)
THEOREM QuarantineAccounted == ASSUME ~Overlaps PROVE Spec => []Accounted
<1>1. Inv => Accounted
  BY DEF Inv
<1> QED
  BY <1>1, Invariance, PTL

(* Neither a rollback nor a recovery deletes what is in quarantine: only   *)
(* the disposal after a completed removal does (Apply, Recover).           *)
THEOREM OnlyRemovalDeletes == ASSUME ~Overlaps PROVE Spec => QuarantineKept
<1> DEFINE Kept == \A i \in Item : Staged(i) /\ at'[i] # at[i] /\ at'[i] \in {"part", "gone"} =>
                       pc = "dispose" /\ journal' \in {journal, None} /\ ~outer
<1>1. ASSUME Inv, [Next]_vars PROVE [Kept]_vars
  <2> SUFFICES ASSUME NEW i \in Item, Staged(i), at'[i] # at[i], at'[i] \in {"part", "gone"}
               PROVE  pc = "dispose" /\ journal' \in {journal, None} /\ ~outer
    OBVIOUS
  <2>a. TypeOK /\ Position
    BY <1>1 DEF Inv
  <2>1. CASE Dispose
    BY <2>a, <2>1 DEF Dispose, Position
  <2>2. CASE Restored
    BY <1>1, <2>2, NothingStaged
  <2>3. CASE PutBack
    BY <2>a, <2>3 DEF PutBack, TypeOK
  <2>4. CASE Rename
    BY <2>a, <2>4 DEF Rename, TypeOK
  <2>5. CASE UNCHANGED at
    BY <2>5
  <2> QED
    BY <1>1, <2>1, <2>2, <2>3, <2>4, <2>5 DEF Next, Removal, Return, Recovery, vars, Begin,
       Record, Fill, Check, RemoveOuter, Receipt, Fail, Refused, Skip, Keep, Read,
       RecoverLock, Revive, Put, Clear, Crash
<1> QED
  BY <1>1, Invariance, PTL DEF Spec, QuarantineKept

-----------------------------------------------------------------------------
(* The retirement of a checkout's terminals.                               *)
Acting == {"recheck", "inspect", "list", "close", "final", "remove"}
Begun == {"launching", "failing", "left"}

\* The pane of a command that has not left shows the command.
InFront ==
    launch \in {"shown", "approved", "launching", "failing"}
        => pane[Caller] # None /\ pane[Caller].fg = "dev"

\* What a process does before and after the command has left its pane.
AfterCommand ==
    /\ \A c \in Coordinator :
           /\ coordinator[c] # "none" => launch \in Begun
           /\ coordinator[c] \in Acting => launch = "left"
    /\ \A w \in Workspace : ended[w] # "open" => launch = "left"

\* One approval is one file, which whoever takes it takes away.
OneApproval ==
    /\ intent # None => Retire!Contained /\ launch \in Begun
    /\ \A c \in Coordinator :
           /\ coordinator[c] = "wait" => Retire!Contained
           /\ Retire!Took(c) => intent = None
    /\ Retire!Once

\* Until a workspace is closed, its panes are those of the listing or changed since.
RestsOn(seen) ==
    /\ Retire!Ready(seen)
    /\ \A p \in Pane :
           /\ ended[In[p]] = "open" /\ p \notin late
           /\ \E q \in Pane : In[q] = In[p] /\ seen[q] # None
           => seen[p] = pane[p]
Uncovered == \A p \in Pane : pane[p] # None /\ pane[p].inside => p \in late
Listed ==
    \A c \in Coordinator :
        /\ coordinator[c] = "close" => RestsOn(look)
        /\ coordinator[c] = "remove" => Uncovered

RetireInv == Retire!TypeOK /\ InFront /\ AfterCommand /\ OneApproval /\ Listed

\* No pane is the absent pane.
LEMMA PaneNotNone == Retire!Shell # None /\ \A s \in Retire!Open : s # None
<1>1. Retire!Shell \in Retire!Open
  BY DEF Retire!Shell, Retire!Open, Retire!Foreground
<1> QED
  BY <1>1, TerminalsAssumption DEF Retire!HandoffAssumption

\* What is listed is what there is.
LEMMA SeenPanes ==
    /\ \A p \in Pane : Retire!Seen[p] \in {pane[p], None}
    /\ \A p \in Pane : (\E q \in Pane : In[q] = In[p] /\ Retire!Seen[q] # None)
                           => Retire!Seen[p] = pane[p]
    /\ \A p \in Pane : pane[p] # None /\ pane[p].inside => Retire!Seen[p] = pane[p]
BY TerminalsAssumption DEF Retire!HandoffAssumption, Retire!Seen, Retire!Covers

\* A listing is made of panes that exist.
LEMMA SeenType == Retire!TypeOK => Retire!Seen \in Retire!Listing
BY SeenPanes DEF Retire!TypeOK, Retire!Listing, Retire!Seen

\* The command's pane, seen from outside, is a pane.
LEMMA StripType ==
    ASSUME NEW seen \in Retire!Listing PROVE Retire!Strip(seen) \in Retire!Listing
<1>1. \A s \in Retire!Open : [s EXCEPT !.fg = "dev"] \in Retire!Open
  BY DEF Retire!Open, Retire!Foreground
<1> QED
  BY <1>1 DEF Retire!Strip, Retire!Listing

\* The command shows itself in a pane that exists.
LEMMA RunType ==
    ASSUME Retire!TypeOK, pane[Caller] # None, NEW fg \in Retire!Foreground, Retire!Run(fg)
    PROVE  /\ pane' \in Retire!Listing
           /\ pane'[Caller] \in Retire!Open /\ pane'[Caller].fg = fg
<1>1. pane[Caller] \in Retire!Open
  BY TerminalsAssumption DEF Retire!TypeOK, Retire!Listing, Retire!HandoffAssumption
<1>2. [pane[Caller] EXCEPT !.fg = fg] \in Retire!Open /\ [pane[Caller] EXCEPT !.fg = fg].fg = fg
  BY <1>1 DEF Retire!Open
<1>3. pane'[Caller] = [pane[Caller] EXCEPT !.fg = fg] /\ \A p \in Pane : p # Caller => pane'[p] = pane[p]
  BY TerminalsAssumption DEF Retire!TypeOK, Retire!Listing, Retire!HandoffAssumption, Retire!Run
<1>4. pane' = [p \in Pane |-> pane'[p]]
  BY DEF Retire!TypeOK, Retire!Listing, Retire!Run
<1>5. \A p \in Pane : pane'[p] \in Retire!Open \cup {None}
  BY <1>2, <1>3 DEF Retire!TypeOK, Retire!Listing
<1> QED
  BY <1>2, <1>3, <1>4, <1>5 DEF Retire!Listing

\* What a process may do in one step, whichever step it is.
Onward(c) ==
    /\ UNCHANGED <<pane, launch, preview>>
    /\ \E next \in Retire!Steps \cup Retire!Over :
           /\ coordinator' = [coordinator EXCEPT ![c] = next]
           /\ coordinator[c] \notin {"none", "refused"}
           /\ next \in Acting => coordinator[c] \in Acting \/ pane[Caller] = Retire!Shell
           /\ coordinator[c] = "wait" /\ next # "refused" => intent # None /\ intent' = None
           /\ next = "refused" => coordinator[c] = "wait"
    /\ intent' \in {intent, None} /\ lease' \in {lease, None, c}
    /\ mark' \in [Coordinator -> Retire!Listing] /\ look' \in Retire!Listing
    /\ late' # late => late' = {} /\ Retire!Took(c)
    /\ look' # look => Retire!Took(c)

\* Every step of a process is of that kind.
LEMMA ProcessStep ==
    ASSUME Retire!TypeOK, NEW c \in Coordinator, Retire!Coordinate(c) PROVE Onward(c)
<1> USE TerminalsAssumption, SeenType DEF Retire!TypeOK, Retire!Step, Retire!Looked, Retire!Stop,
        Retire!world, Retire!command, Retire!handoff, Retire!local, Retire!Took,
        Retire!Steps, Retire!Over, Retire!Idle, Acting
<1>0. Retire!Empty \in Retire!Listing
  BY DEF Retire!Empty, Retire!Listing
<1>1. CASE Retire!Take(c)
  BY <1>1 DEF Onward, Retire!Take
<1>2. CASE Retire!GiveUp(c)
  BY <1>2 DEF Onward, Retire!GiveUp
<1>3. CASE Retire!Expire(c)
  <2> DEFINE next == IF lease = c THEN "sweep" ELSE "ended"
  <2>1. next \in Retire!Steps \cup Retire!Over /\ next \notin Acting /\ next # "refused"
    OBVIOUS
  <2>2. coordinator' = [coordinator EXCEPT ![c] = next] /\ UNCHANGED mark
    BY <1>3 DEF Retire!Expire
  <2> HIDE DEF next
  <2> QED
    BY <1>3, <2>1, <2>2 DEF Onward, Retire!Expire
<1>4. CASE Retire!Await(c)
  <2>1. Retire!Seen[Caller] = Retire!Shell => pane[Caller] = Retire!Shell
    BY SeenPanes, PaneNotNone DEF Retire!HandoffAssumption
  <2> QED
    BY <1>4, <2>1 DEF Onward, Retire!Await
<1>5. CASE Retire!Recheck(c)
  BY <1>5 DEF Onward, Retire!Recheck
<1>6. CASE Retire!Inspect(c)
  BY <1>6 DEF Onward, Retire!Inspect
<1>7. CASE Retire!List(c)
  BY <1>7 DEF Onward, Retire!List
<1>8. CASE Retire!Close(c)
  BY <1>8, <1>0 DEF Onward, Retire!Close
<1>9. CASE Retire!Final(c)
  BY <1>9 DEF Onward, Retire!Final
<1>10. CASE Retire!Remove(c)
  <2> DEFINE next == IF lease = c THEN "sweep" ELSE "ended"
  <2>1. next \in Retire!Steps \cup Retire!Over /\ next \notin Acting /\ next # "refused"
    OBVIOUS
  <2>2. coordinator' = [coordinator EXCEPT ![c] = next] /\ UNCHANGED mark
    BY <1>10 DEF Retire!Remove
  <2> HIDE DEF next
  <2> QED
    BY <1>10, <2>1, <2>2 DEF Onward, Retire!Remove
<1>11. CASE Retire!Sweep(c)
  BY <1>11 DEF Onward, Retire!Sweep
<1> QED
  BY <1>1, <1>2, <1>3, <1>4, <1>5, <1>6, <1>7, <1>8, <1>9, <1>10, <1>11 DEF Retire!Coordinate

\* Panes, listings and processes keep their types.
LEMMA RetireTypeStep ==
    Retire!TypeOK /\ AfterCommand /\ InFront /\ [Retire!Next]_(Retire!vars) => Retire!TypeOK'
<1> USE TerminalsAssumption DEF Retire!world, Retire!command, Retire!handoff, Retire!local
<1> SUFFICES ASSUME Retire!TypeOK, AfterCommand, InFront, [Retire!Next]_(Retire!vars) PROVE Retire!TypeOK'
  OBVIOUS
<1>0. {"shell", "dev"} \subseteq Retire!Foreground
  BY DEF Retire!Foreground
<1>s. ASSUME pane' \in Retire!Listing PROVE Retire!Seen' \in Retire!Listing
  BY <1>s DEF Retire!Listing, Retire!Seen
<1>1. CASE Retire!Show
  <2>1. pane' \in Retire!Listing
    BY <1>1, <1>0, RunType DEF Retire!Show
  <2> QED
    BY <1>1, <2>1, <1>s DEF Retire!Show, Retire!TypeOK
<1>2. CASE Retire!Confirm
  BY <1>2 DEF Retire!Confirm, Retire!TypeOK
<1>3. CASE Retire!Decline
  <2>1. pane' \in Retire!Listing
    BY <1>3, <1>0, RunType DEF Retire!Decline, InFront
  <2> QED
    BY <1>3, <2>1 DEF Retire!Decline, Retire!TypeOK
<1>4. CASE Retire!Publish
  <2>1. preview \in Retire!Listing
    BY DEF Retire!TypeOK
  <2> QED
    BY <1>4, <2>1, StripType DEF Retire!Publish, Retire!TypeOK
<1>5. CASE Retire!Return
  <2>1. pane' \in Retire!Listing
    BY <1>5, <1>0, RunType DEF Retire!Return, InFront
  <2> QED
    BY <1>5, <2>1 DEF Retire!Return, Retire!TypeOK
<1>6. CASE Retire!LaunchFails
  <2>1. coordinator' \in [Coordinator -> Retire!Idle \cup Retire!Steps \cup Retire!Over]
    BY <1>6 DEF Retire!LaunchFails, Retire!TypeOK, Retire!Over
  <2> QED
    BY <1>6, <2>1 DEF Retire!LaunchFails, Retire!TypeOK
<1>7. CASE Retire!Withdraw
  <2>1. pane' \in Retire!Listing
    BY <1>7, <1>0, RunType DEF Retire!Withdraw, InFront
  <2> QED
    BY <1>7, <2>1 DEF Retire!Withdraw, Retire!TypeOK
<1>8. ASSUME NEW c \in Coordinator, Retire!Direct(c) PROVE Retire!TypeOK'
  BY <1>8 DEF Retire!Direct, Retire!TypeOK, Retire!Steps
<1>9. ASSUME NEW c \in Coordinator, Retire!Start(c) PROVE Retire!TypeOK'
  BY <1>9 DEF Retire!Start, Retire!TypeOK, Retire!Idle
<1>10. ASSUME NEW c \in Coordinator, Retire!Coordinate(c) PROVE Retire!TypeOK'
  <2>1. Onward(c)
    BY <1>10, ProcessStep
  <2>2. ended' \in [Workspace -> {"open", "closing", "gone"}]
    BY <1>10 DEF Retire!TypeOK, Retire!Coordinate, Retire!Take, Retire!GiveUp, Retire!Expire,
           Retire!Await, Retire!Recheck, Retire!Inspect, Retire!List, Retire!Close,
           Retire!Closing, Retire!Final, Retire!Remove, Retire!Sweep
  <2> QED
    BY <2>1, <2>2 DEF Onward, Retire!TypeOK
<1>11. ASSUME NEW p \in Pane, Retire!Change(p) PROVE Retire!TypeOK'
  <2>1. pane' \in Retire!Listing
    <3> DEFINE News == {None, [inside |-> FALSE, fg |-> "shell"]}
                         \cup [inside : {TRUE}, fg : Retire!Foreground \ {"dev"}]
    <3>1. News \subseteq Retire!Open \cup {None}
      <4>1. [inside |-> FALSE, fg |-> "shell"] \in Retire!Open
        BY DEF Retire!Open, Retire!Foreground
      <4>2. [inside : {TRUE}, fg : Retire!Foreground \ {"dev"}] \subseteq Retire!Open
        BY DEF Retire!Open
      <4> QED
        BY <4>1, <4>2
    <3>2. PICK s \in News : pane' = [pane EXCEPT ![p] = s]
      BY <1>11 DEF Retire!Change
    <3> QED
      BY <3>1, <3>2 DEF Retire!TypeOK, Retire!Listing
  <2> QED
    BY <1>11, <2>1 DEF Retire!Change, Retire!TypeOK
<1>12. ASSUME NEW w \in Workspace, Retire!Vanish(w) PROVE Retire!TypeOK'
  BY <1>12 DEF Retire!Vanish, Retire!TypeOK, Retire!Listing
<1>13. CASE UNCHANGED Retire!vars
  BY <1>13 DEF Retire!vars, Retire!TypeOK
<1> QED
  BY <1>1, <1>2, <1>3, <1>4, <1>5, <1>6, <1>7, <1>8, <1>9, <1>10, <1>11, <1>12, <1>13
     DEF Retire!Next

\* The command's pane shows the command until it leaves.
LEMMA InFrontStep == RetireInv /\ [Retire!Next]_(Retire!vars) => InFront'
<1> USE TerminalsAssumption DEF Retire!HandoffAssumption,
        Retire!world, Retire!command, Retire!handoff, Retire!local
<1> SUFFICES ASSUME RetireInv, [Retire!Next]_(Retire!vars) PROVE InFront'
  OBVIOUS
<1>0. Retire!TypeOK /\ InFront /\ AfterCommand /\ "dev" \in Retire!Foreground
  BY DEF RetireInv, Retire!Foreground
<1>1. CASE Retire!Show
  BY <1>0, <1>1, RunType, PaneNotNone DEF Retire!Show, InFront
<1>2. CASE Retire!Confirm \/ Retire!Publish \/ Retire!LaunchFails
  BY <1>0, <1>2 DEF Retire!Confirm, Retire!Publish, Retire!LaunchFails, InFront
<1>3. CASE Retire!Decline \/ Retire!Return \/ Retire!Withdraw
  BY <1>3 DEF Retire!Decline, Retire!Return, Retire!Withdraw, InFront
<1>4. ASSUME NEW c \in Coordinator, Retire!Direct(c) \/ Retire!Start(c) PROVE InFront'
  BY <1>0, <1>4 DEF Retire!Direct, Retire!Start, InFront
<1>5. ASSUME NEW c \in Coordinator, Retire!Coordinate(c) PROVE InFront'
  BY <1>0, <1>5, ProcessStep DEF Onward, InFront
<1>6. ASSUME NEW p \in Pane, Retire!Change(p) PROVE InFront'
  BY <1>0, <1>6 DEF Retire!Change, InFront, Retire!TypeOK, Retire!Listing
<1>7. ASSUME NEW w \in Workspace, Retire!Vanish(w) PROVE InFront'
  BY <1>0, <1>7 DEF Retire!Vanish, InFront, AfterCommand
<1>8. CASE UNCHANGED Retire!vars
  BY <1>0, <1>8 DEF Retire!vars, InFront
<1> QED
  BY <1>1, <1>2, <1>3, <1>4, <1>5, <1>6, <1>7, <1>8 DEF Retire!Next

\* No workspace is closed, and nothing done to close one, before the command has left.
LEMMA AfterCommandStep == RetireInv /\ [Retire!Next]_(Retire!vars) => AfterCommand'
<1> USE TerminalsAssumption DEF Retire!HandoffAssumption,
        Retire!world, Retire!command, Retire!handoff, Retire!local
<1> SUFFICES ASSUME RetireInv, [Retire!Next]_(Retire!vars) PROVE AfterCommand'
  OBVIOUS
<1>0. Retire!TypeOK /\ InFront /\ AfterCommand
  BY DEF RetireInv
<1>1. CASE Retire!Show \/ Retire!Confirm \/ Retire!Decline \/ Retire!Publish
           \/ Retire!Return \/ Retire!Withdraw
  BY <1>0, <1>1 DEF Retire!Show, Retire!Confirm, Retire!Decline, Retire!Publish, Retire!Return,
         Retire!Withdraw, AfterCommand, Begun, Acting
<1>2. CASE Retire!LaunchFails
  <2>1. \A c \in Coordinator : coordinator'[c] = coordinator[c]
                                   \/ (coordinator[c] = "wait" /\ coordinator'[c] = "refused")
    BY <1>2 DEF Retire!LaunchFails
  <2> QED
    BY <1>0, <1>2, <2>1 DEF Retire!LaunchFails, AfterCommand, Begun, Acting
<1>3. ASSUME NEW c \in Coordinator, Retire!Direct(c) PROVE AfterCommand'
  BY <1>0, <1>3 DEF Retire!Direct, AfterCommand, Begun, Acting, Retire!TypeOK
<1>4. ASSUME NEW c \in Coordinator, Retire!Start(c) PROVE AfterCommand'
  BY <1>0, <1>4 DEF Retire!Start, AfterCommand, Begun, Acting, Retire!TypeOK
<1>5. ASSUME NEW c \in Coordinator, Retire!Coordinate(c) PROVE AfterCommand'
  <2>1. Onward(c)
    BY <1>0, <1>5, ProcessStep
  <2>2. \A d \in Coordinator :
            /\ coordinator[d] = "none" => coordinator'[d] = "none"
            /\ coordinator'[d] \in Acting => coordinator[d] \in Acting \/ launch = "left"
    <3>1. pane[Caller] = Retire!Shell /\ coordinator[c] # "none" => launch = "left"
      BY <1>0 DEF InFront, AfterCommand, Begun, Retire!Shell
    <3> QED
      BY <1>0, <2>1, <3>1 DEF Onward, Retire!TypeOK
  <2>3. ended' = ended \/ coordinator[c] = "close"
    BY <1>5 DEF Retire!Coordinate, Retire!Take, Retire!GiveUp, Retire!Expire,
           Retire!Await, Retire!Recheck, Retire!Inspect, Retire!List, Retire!Close,
           Retire!Final, Retire!Remove, Retire!Sweep
  <2> QED
    BY <1>0, <2>1, <2>2, <2>3 DEF AfterCommand, Onward, Acting
<1>6. ASSUME NEW p \in Pane, Retire!Change(p) PROVE AfterCommand'
  BY <1>0, <1>6 DEF Retire!Change, AfterCommand
<1>7. ASSUME NEW w \in Workspace, Retire!Vanish(w) PROVE AfterCommand'
  BY <1>0, <1>7 DEF Retire!Vanish, AfterCommand, Retire!TypeOK
<1>8. CASE UNCHANGED Retire!vars
  BY <1>0, <1>8 DEF Retire!vars, AfterCommand
<1> QED
  BY <1>1, <1>2, <1>3, <1>4, <1>5, <1>6, <1>7, <1>8 DEF Retire!Next

\* The file of a hand-off is published once and serves one process.
LEMMA OneApprovalStep == RetireInv /\ [Retire!Next]_(Retire!vars) => OneApproval'
<1> USE TerminalsAssumption DEF Retire!HandoffAssumption, Retire!Contained,
        Retire!world, Retire!command, Retire!handoff, Retire!local
<1> SUFFICES ASSUME RetireInv, [Retire!Next]_(Retire!vars) PROVE OneApproval'
  OBVIOUS
<1>0. Retire!TypeOK /\ OneApproval /\ AfterCommand
  BY DEF RetireInv
<1>1. CASE Retire!Show
  <2>1. intent = None /\ \A c \in Coordinator : coordinator[c] = "none"
    BY <1>0, <1>1 DEF Retire!Show, OneApproval, AfterCommand, Begun
  <2> QED
    BY <1>1, <2>1 DEF Retire!Show, OneApproval, Retire!Once, Retire!Took, Retire!Idle
<1>2. CASE Retire!Confirm \/ Retire!Decline \/ Retire!Return \/ Retire!Withdraw
  BY <1>0, <1>2 DEF Retire!Confirm, Retire!Decline, Retire!Return, Retire!Withdraw,
         OneApproval, Retire!Once, Retire!Took, Begun
<1>3. CASE Retire!Publish
  <2>1. \A c \in Coordinator : coordinator[c] = "none"
    BY <1>0, <1>3 DEF Retire!Publish, AfterCommand, Begun
  <2> QED
    BY <1>3, <2>1 DEF Retire!Publish, OneApproval, Retire!Once, Retire!Took, Retire!Idle, Begun
<1>4. CASE Retire!LaunchFails
  <2>1. \A c \in Coordinator : coordinator'[c] = coordinator[c]
                                   \/ (coordinator[c] = "wait" /\ coordinator'[c] = "refused")
    BY <1>4 DEF Retire!LaunchFails
  <2> QED
    BY <1>0, <1>4, <2>1
       DEF Retire!LaunchFails, OneApproval, Retire!Once, Retire!Took, Retire!Idle, Begun
<1>5. ASSUME NEW c \in Coordinator, Retire!Direct(c) PROVE OneApproval'
  <2>1. intent = None /\ \A d \in Coordinator : coordinator[d] = "none"
    BY <1>0, <1>5 DEF Retire!Direct, OneApproval, AfterCommand, Begun
  <2> QED
    BY <1>0, <1>5, <2>1 DEF Retire!Direct, OneApproval, Retire!Once, Retire!Took, Retire!Idle,
           Retire!TypeOK
<1>6. ASSUME NEW c \in Coordinator, Retire!Start(c) PROVE OneApproval'
  BY <1>0, <1>6 DEF Retire!Start, OneApproval, Retire!Once, Retire!Took, Retire!Idle,
         Retire!TypeOK
<1>7. ASSUME NEW c \in Coordinator, Retire!Coordinate(c) PROVE OneApproval'
  <2>1. Onward(c)
    BY <1>0, <1>7, ProcessStep
  <2>2. \A d \in Coordinator : Retire!Took(d)' =>
            Retire!Took(d) \/ (d = c /\ intent # None /\ intent' = None)
    BY <1>0, <2>1 DEF Onward, Retire!TypeOK, Retire!Took, Retire!Idle
  <2>3. \A d \in Coordinator : coordinator'[d] = "wait" => coordinator[d] = "wait"
    BY <1>0, <2>1 DEF Onward, Retire!TypeOK, Retire!Steps, Retire!Over
  <2> QED
    BY <1>0, <2>1, <2>2, <2>3 DEF Onward, OneApproval, Retire!Once
<1>8. ASSUME NEW p \in Pane, Retire!Change(p) PROVE OneApproval'
  BY <1>0, <1>8 DEF Retire!Change, OneApproval, Retire!Once, Retire!Took
<1>9. ASSUME NEW w \in Workspace, Retire!Vanish(w) PROVE OneApproval'
  BY <1>0, <1>9 DEF Retire!Vanish, OneApproval, Retire!Once, Retire!Took
<1>10. CASE UNCHANGED Retire!vars
  BY <1>0, <1>10 DEF Retire!vars, OneApproval, Retire!Once, Retire!Took
<1> QED
  BY <1>1, <1>2, <1>3, <1>4, <1>5, <1>6, <1>7, <1>8, <1>9, <1>10 DEF Retire!Next

\* What a step of a process that rests on a listing shows of it.
LEMMA ListedByProcess ==
    ASSUME RetireInv, NEW c \in Coordinator, Retire!Coordinate(c) PROVE Listed'
<1> USE TerminalsAssumption DEF Retire!HandoffAssumption
<1>0. Retire!TypeOK /\ OneApproval /\ Listed /\ Onward(c)
  BY ProcessStep DEF RetireInv
<1>1. ASSUME NEW d \in Coordinator, d # c, coordinator'[d] \in {"close", "remove"}
      PROVE  UNCHANGED <<pane, ended, late, preview, look>> /\ coordinator[d] = coordinator'[d]
  <2>1. coordinator'[d] = coordinator[d] /\ Retire!Took(d)
    BY <1>0, <1>1 DEF Onward, Retire!TypeOK, Retire!Took, Retire!Idle
  <2>2. ~Retire!Took(c)
    BY <1>1, <2>1, <1>0 DEF OneApproval, Retire!Once
  <2>3. UNCHANGED ended
    BY <2>2 DEF Retire!Took, Retire!Idle, Retire!Coordinate, Retire!Take, Retire!GiveUp, Retire!Expire,
           Retire!Await, Retire!Recheck, Retire!Inspect, Retire!List, Retire!Close, Retire!world,
           Retire!Final, Retire!Remove, Retire!Sweep
  <2> QED
    BY <1>0, <2>1, <2>2, <2>3 DEF Onward
<1>2. ASSUME NEW d \in Coordinator, d # c
      PROVE  /\ coordinator'[d] = "close" => RestsOn(look)'
             /\ coordinator'[d] = "remove" => Uncovered'
  BY <1>0, <1>1, <1>2 DEF Listed, RestsOn, Uncovered, Retire!Ready, Retire!Closeable, Retire!Consented
<1>3. coordinator'[c] = "close" => RestsOn(look)'
  <2> SUFFICES ASSUME coordinator'[c] = "close" PROVE RestsOn(look)'
    OBVIOUS
  <2>1. Retire!List(c) /\ look' = Retire!Seen /\ Retire!Ready(Retire!Seen)
    BY <1>0 DEF Retire!Coordinate, Retire!Take, Retire!GiveUp, Retire!Expire,
           Retire!Await, Retire!Recheck, Retire!Inspect, Retire!List, Retire!Close,
           Retire!Final, Retire!Remove, Retire!Sweep, Retire!Step, Retire!Stop, Retire!TypeOK
  <2>2. UNCHANGED <<pane, preview>>
    BY <1>0 DEF Onward
  <2> QED
    BY <2>1, <2>2, SeenPanes DEF RestsOn, Retire!Ready, Retire!Closeable, Retire!Consented
<1>4. coordinator'[c] = "remove" => Uncovered'
  <2> SUFFICES ASSUME coordinator'[c] = "remove" PROVE Uncovered'
    OBVIOUS
  <2>1. Retire!Released(Retire!Seen)
    BY <1>0 DEF Retire!Coordinate, Retire!Take, Retire!GiveUp, Retire!Expire,
           Retire!Await, Retire!Recheck, Retire!Inspect, Retire!List, Retire!Close,
           Retire!Final, Retire!Remove, Retire!Sweep, Retire!Step, Retire!Stop, Retire!TypeOK
  <2>2. UNCHANGED pane
    BY <1>0 DEF Onward
  <2> QED
    BY <2>1, <2>2, SeenPanes DEF Uncovered, Retire!Released
<1> QED
  BY <1>2, <1>3, <1>4 DEF Listed

\* A listing a close rests on is overtaken by nothing but changes of panes.
LEMMA ListedStep == RetireInv /\ [Retire!Next]_(Retire!vars) => Listed'
<1> USE TerminalsAssumption DEF Retire!HandoffAssumption,
        Retire!world, Retire!command, Retire!handoff, Retire!local
<1> SUFFICES ASSUME RetireInv, [Retire!Next]_(Retire!vars) PROVE Listed'
  OBVIOUS
<1>0. Retire!TypeOK /\ AfterCommand /\ Listed
  BY DEF RetireInv
<1>f. ASSUME UNCHANGED <<pane, ended, late, preview, look>>,
             \A c \in Coordinator : coordinator'[c] \in {"close", "remove"} =>
                                        coordinator'[c] = coordinator[c]
      PROVE  Listed'
  BY <1>0, <1>f DEF Listed, RestsOn, Uncovered, Retire!Ready, Retire!Closeable, Retire!Consented
<1>1. ASSUME UNCHANGED coordinator, launch # "left" PROVE Listed'
  BY <1>0, <1>1 DEF Listed, AfterCommand, Acting
<1>2. CASE Retire!Show \/ Retire!Confirm \/ Retire!Decline \/ Retire!Publish
           \/ Retire!Return \/ Retire!Withdraw
  BY <1>1, <1>2 DEF Retire!Show, Retire!Confirm, Retire!Decline, Retire!Publish, Retire!Return,
         Retire!Withdraw
<1>3. CASE Retire!LaunchFails
  BY <1>f, <1>3 DEF Retire!LaunchFails
<1>4. ASSUME NEW c \in Coordinator, Retire!Direct(c) \/ Retire!Start(c) PROVE Listed'
  BY <1>0, <1>f, <1>4 DEF Retire!Direct, Retire!Start, Retire!TypeOK
<1>5. ASSUME NEW p \in Pane, Retire!Change(p) PROVE Listed'
  <2>1. \A q \in Pane \ late' : pane'[q] = pane[q] /\ q \notin late
    BY <1>0, <1>5 DEF Retire!Change, Retire!TypeOK, Retire!Listing
  <2>2. UNCHANGED <<ended, preview, coordinator, look>>
    BY <1>5 DEF Retire!Change
  <2> QED
    BY <1>0, <2>1, <2>2 DEF Listed, RestsOn, Uncovered, Retire!Ready, Retire!Closeable, Retire!Consented
<1>6. ASSUME NEW w \in Workspace, Retire!Vanish(w) PROVE Listed'
  <2>1. /\ \A q \in Pane : pane'[q] = pane[q] \/ pane'[q] = None
        /\ \A q \in Pane : ended'[In[q]] = "open" => ended[In[q]] = "open" /\ pane'[q] = pane[q]
    BY <1>0, <1>6 DEF Retire!Vanish, Retire!TypeOK
  <2>2. UNCHANGED <<late, preview, coordinator, look>>
    BY <1>6 DEF Retire!Vanish
  <2> QED
    BY <1>0, <2>1, <2>2 DEF Listed, RestsOn, Uncovered, Retire!Ready, Retire!Closeable, Retire!Consented
<1>7. CASE UNCHANGED Retire!vars
  BY <1>f, <1>7 DEF Retire!vars
<1> QED
  BY <1>2, <1>3, <1>4, <1>5, <1>6, <1>7, ListedByProcess DEF Retire!Next, RetireInv

\* The invariant of the retirement holds at first.
LEMMA RetireInit == Retire!Init => RetireInv
<1> SUFFICES ASSUME Retire!Init PROVE RetireInv
  OBVIOUS
<1>1. Retire!TypeOK
  <2>1. Retire!Empty \in Retire!Listing
    BY DEF Retire!Empty, Retire!Listing
  <2>2. pane \in Retire!Listing
    BY DEF Retire!Init
  <2> QED
    BY <2>1, <2>2 DEF Retire!Init, Retire!TypeOK, Retire!Idle
<1> QED
  BY <1>1 DEF Retire!Init, RetireInv, InFront, AfterCommand, OneApproval, Listed, Acting,
     Retire!Once, Retire!Took, Retire!Idle

\* A step of another part leaves the terminals alone.
LEMMA TerminalsStep == [SettlingNext]_all => [Retire!Next]_(Retire!vars)
BY DEF SettlingNext, Submodules, Directories, Terminals, all, terminals, Retire!vars,
   Retire!world, Retire!command, Retire!handoff, Retire!local

\* Every step keeps the invariant of the retirement.
LEMMA RetireInvariance == SettlingSpec => []RetireInv
<1>1. SettlingInit => RetireInv
  BY RetireInit DEF SettlingInit
<1>2. RetireInv /\ [SettlingNext]_all => RetireInv'
  BY TerminalsStep, RetireTypeStep, InFrontStep, AfterCommandStep, OneApprovalStep, ListedStep
     DEF RetireInv
<1> QED
  BY <1>1, <1>2, PTL DEF SettlingSpec

\* A close goes by a listing that says what is there, or what changed since.
LEMMA CloseStep ==
    ASSUME RetireInv, [Retire!Next]_(Retire!vars), NEW p \in Pane,
           ended[In[p]] = "open", ended'[In[p]] # "open", pane[p] # None
    PROVE  Retire!Closeable(p, pane[p]) \/ p \in late
<1> USE TerminalsAssumption DEF Retire!HandoffAssumption,
        Retire!world, Retire!command, Retire!handoff, Retire!local
<1>0. Retire!TypeOK /\ Listed
  BY DEF RetireInv
<1>1. PICK c \in Coordinator : Retire!Close(c)
  <2>1. ASSUME NEW w \in Workspace, Retire!Vanish(w) PROVE FALSE
    BY <1>0, <2>1 DEF Retire!Vanish, Retire!TypeOK
  <2> QED
    BY <2>1 DEF Retire!Next, Retire!vars, Retire!Show, Retire!Confirm, Retire!Decline, Retire!Publish,
       Retire!Return, Retire!LaunchFails, Retire!Withdraw, Retire!Direct, Retire!Start, Retire!Change,
       Retire!Coordinate, Retire!Take, Retire!GiveUp, Retire!Expire, Retire!Await, Retire!Recheck,
       Retire!Inspect, Retire!List, Retire!Final, Retire!Remove, Retire!Sweep
<1>2. RestsOn(look) /\ \E q \in Pane : In[q] = In[p] /\ look[q] # None
  BY <1>0, <1>1 DEF Retire!Close, Retire!Closing, Retire!Remaining, Retire!TypeOK, Listed
<1> QED
  BY <1>2 DEF RestsOn, Retire!Ready

\* Closing a workspace ends no busy agent, no program that was not approved and
\* nothing outside the checkout, unless it appeared after the listing the close
\* rests on: for any panes, workspaces and processes (CloseAndWait).
THEOREM OnlyApprovedIsClosed == SettlingSpec => NoWorkKilled
<1>1. RetireInv /\ [SettlingNext]_all =>
          [\A p \in Pane :
               ended[In[p]] = "open" /\ ended'[In[p]] # "open" /\ pane[p] # None
                   => Retire!Closeable(p, pane[p]) \/ p \in late]_(Retire!vars)
  BY TerminalsStep, CloseStep
<1> QED
  BY <1>1, RetireInvariance, PTL DEF SettlingSpec, NoWorkKilled, Retire!NoWorkKilled

\* One approval is acted on by one process, although its hand-off may be started
\* twice and the lock is free between (runRetireCoordinator consumes the file).
THEOREM OneActs == SettlingSpec => []Retire!Once
<1>1. RetireInv => Retire!Once
  BY DEF RetireInv, OneApproval
<1> QED
  BY <1>1, RetireInvariance, PTL

\* The worktree is removed under no terminal that was there at the last listing,
\* closing ones included (executeRetire, reinspectRetire).
THEOREM RemovedUnderNone == SettlingSpec => Retire!RemovedReleased
<1>1. RetireInv /\ [SettlingNext]_all =>
          [tree /\ ~tree' =>
               \A p \in Pane : pane[p] # None /\ pane[p].inside => p \in late]_(Retire!vars)
  <2> SUFFICES ASSUME RetireInv, [Retire!Next]_(Retire!vars), tree, ~tree'
               PROVE  Uncovered
    BY TerminalsStep DEF Uncovered
  <2>1. PICK c \in Coordinator : Retire!Remove(c)
    BY DEF Retire!Next, Retire!vars, Retire!Show, Retire!Confirm, Retire!Decline, Retire!Publish,
       Retire!Return, Retire!LaunchFails, Retire!Withdraw, Retire!Direct, Retire!Start,
       Retire!Change, Retire!Vanish, Retire!Coordinate, Retire!Take, Retire!GiveUp, Retire!Expire,
       Retire!Await, Retire!Recheck, Retire!Inspect, Retire!List, Retire!Close, Retire!Final,
       Retire!Sweep
  <2> QED
    BY <2>1 DEF RetireInv, Listed, Retire!Remove
<1> QED
  BY <1>1, RetireInvariance, PTL DEF SettlingSpec, Retire!RemovedReleased
=============================================================================
