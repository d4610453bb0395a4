--------------------------- MODULE CatalogProofs ---------------------------
(***************************************************************************)
(* Proofs about the generation catalog, for any number of workers,         *)
(* processes, generations and write transactions.                          *)
(***************************************************************************)
EXTENDS Catalog, TLAPS

USE DEF NoGen

(* A returning call leaves every thread variable in its type.              *)
LEMMA ReturnTyped ==
    ASSUME TypeOK, NEW w \in Workers, Return(w)
    PROVE  /\ pc' \in [Workers -> PCs]
           /\ op' \in [Workers -> AllOps \cup {"none"}]
           /\ sid' \in [Workers -> Ids \cup {NoGen}]
           /\ src' \in [Workers -> Ids \cup {NoGen}]
           /\ base' \in [Workers -> SUBSET Writes]
           /\ scan' \in [Workers -> SUBSET Ids]
           /\ doomed' \in [Workers -> SUBSET Ids]
           /\ lease' \in [Workers -> Ids \cup {NoGen}]
           /\ lock' \in Workers \cup {NoOne}
  BY DEF TypeOK, Return, PCs

(* Starting a call moves one worker to its first label.                    *)
LEMMA StartTyped ==
    ASSUME TypeOK, NEW w \in Workers, NEW k \in AllOps, NEW label \in PCs, Start(w, k, label)
    PROVE  TypeOK'
  BY DEF TypeOK, Start, Goto, disk

(* Abandoning a generation keeps the types.                                *)
LEMMA AbandonTyped ==
    ASSUME TypeOK, NEW w \in Workers, Abandon(w)
    PROVE  TypeOK'
  BY ReturnTyped DEF TypeOK, Abandon

(* What a call would publish is a set of rows that were written.           *)
LEMMA ContentsTyped ==
    ASSUME TypeOK, NEW w \in Workers
    PROVE  Contents(w) \subseteq SUBSET Writes
  BY DEF TypeOK, Contents, Extended, Imported

(* Every step keeps every variable in its type, given that a staged id is  *)
(* above the published ones (so it is an id) and that vacuum's victims are *)
(* published.                                                              *)
LEMMA NextTyped ==
    ASSUME TypeOK, StagedIdFresh, VictimsSpareCurrent, [Next]_vars
    PROVE  TypeOK'
  <1> USE ConstantsAssumption
  <1>1. ASSUME NEW w \in Workers, Step(w) PROVE TypeOK'
    <2>1. CASE Resolve(w)
      BY <2>1 DEF TypeOK, Resolve, Resolves, Goto, disk, PCs
    <2>2. CASE ResolveNotFound(w) \/ OpenFails(w) \/ EndRead(w) \/ BeginRefused(w)
                 \/ PublishFails(w) \/ WriteCurrentFails(w) \/ VacuumFails(w) \/ RecoverFails(w)
      <3>1. Return(w) /\ UNCHANGED disk
        BY <2>2 DEF ResolveNotFound, OpenFails, EndRead, BeginRefused, PublishFails,
                    WriteCurrentFails, VacuumFails, RecoverFails
      <3>2. QED BY <3>1, ReturnTyped DEF TypeOK, disk
    <2>3. CASE TakeLease(w)
      BY <2>3 DEF TypeOK, TakeLease, Goto, disk, PCs
    <2>4. CASE BeginGeneration(w)
      <3>1. PICK id \in 0..MaxId : /\ IsNextId(id)
                                   /\ staging' = staging \cup {<<id, PidOf[w]>>}
                                   /\ sid' = [sid EXCEPT ![w] = id]
        BY <2>4 DEF BeginGeneration
      <3>2. id \in Ids
        BY <3>1 DEF TypeOK, IsNextId, KnownIds, Ids, NoGen
      <3>3. QED BY <2>4, <3>1, <3>2 DEF TypeOK, BeginGeneration, Goto, PCs
    <2>5. CASE PrepareRefused(w) \/ BuildFails(w)
      BY <2>5, AbandonTyped DEF PrepareRefused, BuildFails
    <2>6. CASE Prepare(w)
      <3>1. work' \subseteq AllOps \X Pids
        BY <2>6 DEF TypeOK, Prepare, WithWorkDir, AllOps, WriterOps
      <3>2. src' \in [Workers -> Ids \cup {NoGen}] /\ base' \in [Workers -> SUBSET Writes]
            /\ lease' \in [Workers -> Ids \cup {NoGen}]
        BY <2>6 DEF TypeOK, Prepare, Resolves
      <3>3. QED BY <2>6, <3>1, <3>2 DEF TypeOK, Prepare, Goto, PCs
    <2>7. CASE Seal(w)
      BY <2>7 DEF TypeOK, Seal, Goto, PCs
    <2>8. CASE Rename(w)
      <3>1. PICK c \in Contents(w) : /\ content' = [content EXCEPT ![sid[w]] = c]
                                     /\ used' = used \cup (c \ base[w])
        BY <2>8 DEF Rename
      <3>2. c \subseteq Writes
        BY <3>1, ContentsTyped
      <3>3. sid[w] \in Ids
        BY <2>8 DEF TypeOK, StagedIdFresh, Rename, KnownIds, Ids
      <3>4. QED BY <2>8, <3>1, <3>2, <3>3 DEF TypeOK, Rename, Goto, PCs
    <2>9. CASE WriteCurrent(w)
      BY <2>9, ReturnTyped DEF TypeOK, WriteCurrent
    <2>10. CASE VacuumLock(w)
      BY <2>10 DEF TypeOK, VacuumLock, Goto, disk, PCs
    <2>11. CASE UnlinkBegins(w)
      BY <2>11 DEF TypeOK, VictimsSpareCurrent, UnlinkBegins, threads
    <2>12. CASE UnlinkEnds(w)
      BY <2>12 DEF TypeOK, UnlinkEnds
    <2>13. CASE VacuumSweep(w) \/ RecoverSweep(w)
      BY <2>13, ReturnTyped DEF TypeOK, VacuumSweep, RecoverSweep, SweptWork
    <2>14. CASE RecoverRollback(w)
      BY <2>14 DEF TypeOK, RecoverRollback, Activate, Valid, Goto, PCs
    <2>15. QED BY <1>1, <2>1, <2>2, <2>3, <2>4, <2>5, <2>6, <2>7, <2>8, <2>9, <2>10, <2>11, <2>12,
                  <2>13, <2>14 DEF Step
  <1>2. ASSUME NEW w \in Workers, Request(w) PROVE TypeOK'
    <2>1. CASE StartRead(w) \/ StartCompact(w) \/ StartWrite(w) \/ StartParquet(w)
      BY <2>1, StartTyped DEF StartRead, StartCompact, StartWrite, StartParquet, AllOps, WriterOps, PCs
    <2>2. CASE RollbackGeneration(w)
      BY <2>2 DEF TypeOK, RollbackGeneration, Activate, Valid, threads
    <2>3. CASE VacuumScan(w)
      BY <2>3 DEF TypeOK, VacuumScan, Leased, Goto, disk, PCs, AllOps
    <2>4. CASE RecoverChoose(w)
      BY <2>4 DEF TypeOK, RecoverChoose, Valid, Goto, disk, PCs, AllOps
    <2>5. QED BY <1>2, <2>1, <2>2, <2>3, <2>4 DEF Request
  <1>3. ASSUME NEW p \in Pids, Crash(p) PROVE TypeOK'
    BY <1>3 DEF TypeOK, Crash, disk, PCs
  <1>4. ASSUME NEW g \in Ids, Damage(g) PROVE TypeOK'
    BY <1>4 DEF TypeOK, Damage, Valid, threads
  <1>5. CASE UNCHANGED vars
    BY <1>5 DEF TypeOK, vars, disk, threads
  <1>6. QED BY <1>1, <1>2, <1>3, <1>4, <1>5 DEF Next

(* The variables have their types at first.                                *)
LEMMA InitTyped == Init => TypeOK
  BY ConstantsAssumption DEF Init, TypeOK, PCs


----------------------------------------------------------------------------
(* The inductive invariant.  LockMatchesOwner is the heart of it: a step   *)
(* that changes generations or CURRENT is taken by the holder of the lock  *)
(* (or while nobody holds it), so no other worker is in a state about      *)
(* which the remaining conjuncts say anything.                             *)
Safe == PublicationInvariant /\ CurrentPublished /\ StagedIdFresh /\ SourceStaysCurrent
Inv  == TypeOK /\ Safe

USE DEF Safe, PublicationInvariant

(* A step of a worker outside the critical section, to a label outside it, *)
(* that changes nothing shared.                                            *)
LEMMA MoveOutsideLock ==
    ASSUME Inv, NEW w \in Workers, NEW label, pc[w] \notin Locked, label \notin Locked,
           pc' = [pc EXCEPT ![w] = label],
           \A u \in Workers \ {w} : /\ op'[u] = op[u] /\ sid'[u] = sid[u] /\ src'[u] = src[u]
                                    /\ base'[u] = base[u] /\ doomed'[u] = doomed[u],
           UNCHANGED <<gens, torn, content, cur, lock>>
    PROVE  Safe'
  <1>1. \A u \in Workers : pc'[u] = IF u = w THEN label ELSE pc[u]
    BY DEF Inv, TypeOK
  <1>2. LockMatchesOwner'
    BY <1>1 DEF Inv, LockMatchesOwner
  <1>3. (RenamedInPlace /\ VictimsSpareCurrent /\ CurrentPublished)'
    BY <1>1 DEF Inv, RenamedInPlace, VictimsSpareCurrent, CurrentPublished, Locked
  <1>4. StagedIdFresh'
    BY <1>1 DEF Inv, StagedIdFresh, KnownIds, Locked
  <1>5. SourceStaysCurrent'
    BY <1>1 DEF Inv, SourceStaysCurrent, Locked
  <1>6. QED BY <1>2, <1>3, <1>4, <1>5

(* A call that returns without touching a generation or CURRENT.           *)
LEMMA ReturnKeepsSafe ==
    ASSUME Inv, NEW w \in Workers, Return(w), UNCHANGED <<gens, torn, content, cur>>
    PROVE  Safe'
  <1> USE ConstantsAssumption
  <1>1. \A u \in Workers : pc'[u] = IF u = w THEN "idle" ELSE pc[u]
    BY DEF Inv, TypeOK, Return
  <1>2. \A u \in Workers \ {w} : /\ op'[u] = op[u] /\ sid'[u] = sid[u] /\ src'[u] = src[u]
                                  /\ base'[u] = base[u] /\ doomed'[u] = doomed[u]
    BY DEF Inv, TypeOK, Return
  <1>3. LockMatchesOwner'
    BY <1>1 DEF Inv, LockMatchesOwner, Return, Locked
  <1>4. (RenamedInPlace /\ VictimsSpareCurrent /\ CurrentPublished)'
    BY <1>1, <1>2 DEF Inv, RenamedInPlace, VictimsSpareCurrent, CurrentPublished, Locked
  <1>5. StagedIdFresh'
    BY <1>1, <1>2 DEF Inv, StagedIdFresh, KnownIds
  <1>6. SourceStaysCurrent'
    BY <1>1, <1>2 DEF Inv, SourceStaysCurrent
  <1>7. QED BY <1>3, <1>4, <1>5, <1>6

(* While a worker holds the lock, every other worker is outside.           *)
LEMMA OthersOutside ==
    ASSUME Inv, NEW w \in Workers, lock = w
    PROVE  \A u \in Workers \ {w} : pc[u] \notin Locked
  BY DEF Inv, LockMatchesOwner

(* While the lock is free no call is where only its holder can be.         *)
LEMMA AllOutside ==
    ASSUME Inv, LockFree
    PROVE  \A u \in Workers : pc[u] \notin Locked
  BY ConstantsAssumption DEF Inv, LockMatchesOwner, LockFree

(* Every step of a call in progress keeps the invariant.                   *)
LEMMA StepSafe ==
    ASSUME Inv, NEW w \in Workers, Step(w)
    PROVE  Safe'
  <1> USE ConstantsAssumption
  <1>1. CASE Resolve(w)
    <2>1. pc[w] \notin Locked /\ "lease" \notin Locked
      BY <1>1 DEF Resolve, Locked
    <2>2. QED BY <1>1, <2>1, MoveOutsideLock DEF Inv, TypeOK, Resolve, Goto, disk
  <1>2. CASE TakeLease(w)
    <2> DEFINE label == IF op[w] = "read" THEN "reading" ELSE "begin"
    <2>1. pc[w] \notin Locked /\ label \notin Locked
      BY <1>2 DEF TakeLease, Locked
    <2>2. pc' = [pc EXCEPT ![w] = label]
      BY <1>2 DEF TakeLease, Goto
    <2>3. QED BY <1>2, <2>1, <2>2, MoveOutsideLock DEF Inv, TypeOK, TakeLease, disk
  <1>3. CASE ResolveNotFound(w) \/ OpenFails(w) \/ EndRead(w) \/ BeginRefused(w)
               \/ PublishFails(w) \/ WriteCurrentFails(w) \/ VacuumFails(w) \/ RecoverFails(w)
    <2>1. Return(w) /\ UNCHANGED disk
      BY <1>3 DEF ResolveNotFound, OpenFails, EndRead, BeginRefused, PublishFails,
                  WriteCurrentFails, VacuumFails, RecoverFails
    <2>2. QED BY <2>1, ReturnKeepsSafe DEF disk
  <1>4. CASE PrepareRefused(w) \/ BuildFails(w) \/ VacuumSweep(w) \/ RecoverSweep(w)
    <2>1. Return(w) /\ UNCHANGED <<gens, torn, content, cur>>
      BY <1>4 DEF PrepareRefused, BuildFails, Abandon, VacuumSweep, RecoverSweep
    <2>2. QED BY <2>1, ReturnKeepsSafe
  <1>5. CASE BeginGeneration(w)
    <2>1. \A u \in Workers : pc[u] \notin Locked
      BY <1>5, AllOutside DEF BeginGeneration
    <2>2. \A u \in Workers : pc'[u] = IF u = w THEN "staged" ELSE pc[u]
      BY <1>5 DEF Inv, TypeOK, BeginGeneration, Goto
    <2>3. KnownIds' = KnownIds /\ \A g \in KnownIds : g < sid'[w]
      BY <1>5 DEF Inv, TypeOK, BeginGeneration, IsNextId, KnownIds
    <2>4. LockMatchesOwner'
      BY <1>5, <2>1, <2>2 DEF BeginGeneration, LockMatchesOwner, Locked
    <2>5. StagedIdFresh'
      BY <2>1, <2>2, <2>3 DEF StagedIdFresh, Locked
    <2>6. (RenamedInPlace /\ VictimsSpareCurrent /\ SourceStaysCurrent /\ CurrentPublished)'
      BY <1>5, <2>1, <2>2 DEF Inv, BeginGeneration, RenamedInPlace, VictimsSpareCurrent,
                              SourceStaysCurrent, CurrentPublished, Locked
    <2>7. QED BY <2>4, <2>5, <2>6
  <1>6. CASE Prepare(w)
    <2>1. lock = w
      BY <1>6 DEF Inv, LockMatchesOwner, Prepare, Locked
    <2>2. \A u \in Workers \ {w} : pc[u] \notin Locked
      BY <2>1, OthersOutside
    <2>3. \A u \in Workers : pc'[u] = IF u = w THEN "building" ELSE pc[u]
      BY <1>6 DEF Inv, TypeOK, Prepare, Goto
    <2>4. LockMatchesOwner'
      BY <1>6, <2>1, <2>2, <2>3 DEF Prepare, LockMatchesOwner, Locked
    <2>5. StagedIdFresh'
      BY <1>6, <2>2, <2>3 DEF Inv, Prepare, StagedIdFresh, KnownIds, Locked
    <2>6. /\ op[w] \in DerivedUnderLock => src'[w] = cur /\ cur \in gens /\ base'[w] = content[cur]
          /\ op[w] \in InitialOps => cur = NoGen
      BY <1>6 DEF Inv, TypeOK, Prepare, Resolves, CurrentPublished
    <2>7. SourceStaysCurrent'
      BY <1>6, <2>2, <2>3, <2>6 DEF Prepare, SourceStaysCurrent, Locked
    <2>8. (RenamedInPlace /\ VictimsSpareCurrent /\ CurrentPublished)'
      BY <1>6, <2>2, <2>3 DEF Inv, Prepare, RenamedInPlace, VictimsSpareCurrent,
                              CurrentPublished, Locked
    <2>9. QED BY <2>4, <2>5, <2>7, <2>8
  <1>7. CASE Seal(w)
    <2>1. \A u \in Workers : pc'[u] = IF u = w THEN "sealed" ELSE pc[u]
      BY <1>7 DEF Inv, TypeOK, Seal, Goto
    <2>2. LockMatchesOwner'
      BY <1>7, <2>1 DEF Inv, Seal, LockMatchesOwner, Locked
    <2>3. (StagedIdFresh /\ SourceStaysCurrent)'
      BY <1>7, <2>1 DEF Inv, Seal, StagedIdFresh, SourceStaysCurrent, KnownIds
    <2>4. (RenamedInPlace /\ VictimsSpareCurrent /\ CurrentPublished)'
      BY <1>7, <2>1 DEF Inv, Seal, RenamedInPlace, VictimsSpareCurrent, CurrentPublished
    <2>5. QED BY <2>2, <2>3, <2>4
  <1>8. CASE Rename(w)
    <2>1. lock = w
      BY <1>8 DEF Inv, LockMatchesOwner, Rename, Locked
    <2>2. \A u \in Workers \ {w} : pc[u] \notin Locked
      BY <2>1, OthersOutside
    <2>3. \A u \in Workers : pc'[u] = IF u = w THEN "renamed" ELSE pc[u]
      BY <1>8 DEF Inv, TypeOK, Rename, Goto
    <2>4. sid[w] \in Ids /\ sid[w] # cur /\ sid[w] \notin torn
      BY <1>8 DEF Inv, TypeOK, StagedIdFresh, Rename, KnownIds, Ids
    <2>5. PICK c \in Contents(w) : content' = [content EXCEPT ![sid[w]] = c]
      BY <1>8 DEF Rename
    <2>6. content'[sid[w]] = c /\ (cur \in Ids => content'[cur] = content[cur])
      BY <2>4, <2>5 DEF Inv, TypeOK
    <2>7. op[w] \in DerivedUnderLock => base[w] \subseteq c
      BY <2>5 DEF Contents, Extended, DerivedUnderLock
    <2>8. LockMatchesOwner'
      BY <1>8, <2>1, <2>2, <2>3 DEF Rename, LockMatchesOwner, Locked
    <2>9. RenamedInPlace'
      BY <1>8, <2>2, <2>3, <2>4, <2>6, <2>7 DEF Rename, RenamedInPlace, Locked
    <2>10. StagedIdFresh' /\ VictimsSpareCurrent'
      BY <2>2, <2>3 DEF StagedIdFresh, VictimsSpareCurrent, Locked
    <2>11. SourceStaysCurrent'
      BY <1>8, <2>2, <2>3, <2>6 DEF Inv, TypeOK, Rename, SourceStaysCurrent, Locked
    <2>12. CurrentPublished'
      BY <1>8 DEF Inv, Rename, CurrentPublished
    <2>13. QED BY <2>8, <2>9, <2>10, <2>11, <2>12
  <1>9. CASE WriteCurrent(w)
    <2>1. lock = w
      BY <1>9 DEF Inv, LockMatchesOwner, WriteCurrent, Locked
    <2>2. \A u \in Workers \ {w} : pc[u] \notin Locked
      BY <2>1, OthersOutside
    <2>3. \A u \in Workers : pc'[u] \notin Locked
      BY <1>9, <2>2 DEF Inv, TypeOK, WriteCurrent, Return, Locked
    <2>4. CurrentPublished'
      BY <1>9 DEF Inv, WriteCurrent, RenamedInPlace, CurrentPublished
    <2>5. lock' \notin Workers
      BY <1>9, <2>1 DEF WriteCurrent, Return
    <2>6. QED BY <2>3, <2>4, <2>5
                DEF LockMatchesOwner, RenamedInPlace, VictimsSpareCurrent, StagedIdFresh,
                    SourceStaysCurrent, Locked
  <1>10. CASE VacuumLock(w)
    <2>1. \A u \in Workers : pc[u] \notin Locked
      BY <1>10, AllOutside DEF VacuumLock, VacuumAllowed
    <2>2. \A u \in Workers : pc'[u] = IF u = w THEN "unlinking" ELSE pc[u]
      BY <1>10 DEF Inv, TypeOK, VacuumLock, Goto
    <2>3. doomed'[w] \subseteq gens \ {cur}
      BY <1>10 DEF Inv, TypeOK, VacuumLock, Keep
    <2>4. LockMatchesOwner'
      BY <1>10, <2>1, <2>2 DEF VacuumLock, LockMatchesOwner, Locked
    <2>5. VictimsSpareCurrent'
      BY <1>10, <2>1, <2>2, <2>3 DEF VacuumLock, VictimsSpareCurrent, Locked, disk
    <2>6. (RenamedInPlace /\ StagedIdFresh /\ SourceStaysCurrent)'
      BY <2>1, <2>2 DEF RenamedInPlace, StagedIdFresh, SourceStaysCurrent, Locked
    <2>7. CurrentPublished'
      BY <1>10 DEF Inv, VacuumLock, CurrentPublished, disk
    <2>8. QED BY <2>4, <2>5, <2>6, <2>7
  <1>11. CASE UnlinkBegins(w) \/ UnlinkEnds(w)
    <2>1. pc[w] = "unlinking" /\ UNCHANGED <<pc, lock, cur>>
      BY <1>11 DEF UnlinkBegins, UnlinkEnds, threads
    <2>2. lock = w
      BY <2>1 DEF Inv, LockMatchesOwner, Locked
    <2>3. \A u \in Workers \ {w} : pc[u] \notin Locked
      BY <2>2, OthersOutside
    <2>4. PICK g \in doomed[w] : /\ gens \ {g} \subseteq gens' /\ torn' \subseteq torn \cup {g}
                                /\ doomed'[w] \subseteq doomed[w] /\ doomed'[w] \subseteq gens'
      BY <1>11, <2>1 DEF Inv, TypeOK, VictimsSpareCurrent, UnlinkBegins, UnlinkEnds, threads
    <2>5. CurrentPublished'
      BY <2>1, <2>4 DEF Inv, VictimsSpareCurrent, CurrentPublished
    <2>6. VictimsSpareCurrent'
      BY <2>1, <2>3, <2>4 DEF Inv, VictimsSpareCurrent, Locked
    <2>7. LockMatchesOwner'
      BY <2>1 DEF Inv, LockMatchesOwner
    <2>8. (RenamedInPlace /\ StagedIdFresh /\ SourceStaysCurrent)'
      BY <2>1, <2>3 DEF RenamedInPlace, StagedIdFresh, SourceStaysCurrent, Locked
    <2>9. QED BY <2>5, <2>6, <2>7, <2>8
  <1>12. CASE RecoverRollback(w)
    <2>1. \A u \in Workers : pc[u] \notin Locked
      BY <1>12, AllOutside DEF RecoverRollback, Activate
    <2>2. \A u \in Workers : pc'[u] \notin Locked
      BY <1>12, <2>1 DEF Inv, TypeOK, RecoverRollback, Goto, Locked
    <2>3. CurrentPublished'
      BY <1>12 DEF RecoverRollback, Activate, Valid, CurrentPublished
    <2>4. lock' \notin Workers
      BY <1>12 DEF RecoverRollback, Activate, LockFree
    <2>5. QED BY <2>2, <2>3, <2>4
                DEF LockMatchesOwner, RenamedInPlace, VictimsSpareCurrent, StagedIdFresh,
                    SourceStaysCurrent, Locked
  <1>13. QED BY <1>1, <1>2, <1>3, <1>4, <1>5, <1>6, <1>7, <1>8, <1>9, <1>10, <1>11, <1>12 DEF Step

(* A request keeps the invariant.                                          *)
LEMMA RequestSafe ==
    ASSUME Inv, NEW w \in Workers, Request(w)
    PROVE  Safe'
  <1>1. CASE StartRead(w) \/ StartCompact(w) \/ StartWrite(w) \/ StartParquet(w)
    <2>1. PICK k \in Ops, label \in {"resolve", "begin"} : Start(w, k, label)
      BY <1>1 DEF StartRead, StartCompact, StartWrite, StartParquet, Start
    <2>2. pc[w] \notin Locked /\ label \notin Locked
      BY <2>1 DEF Start, Locked
    <2>3. QED BY <2>1, <2>2, MoveOutsideLock DEF Inv, TypeOK, Start, Goto, disk
  <1>2. CASE VacuumScan(w)
    <2>1. pc[w] \notin Locked /\ "vlock" \notin Locked
      BY <1>2 DEF VacuumScan, Locked
    <2>2. QED BY <1>2, <2>1, MoveOutsideLock DEF Inv, TypeOK, VacuumScan, Goto, disk
  <1>3. CASE RecoverChoose(w)
    <2>1. PICK label \in {"rsweep", "rrollback"} : Goto(w, label)
      BY <1>3 DEF RecoverChoose
    <2>2. pc[w] \notin Locked /\ label \notin Locked
      BY <1>3 DEF RecoverChoose, Locked
    <2>3. \A u \in Workers \ {w} : op'[u] = op[u] /\ src'[u] = src[u]
      BY <1>3 DEF Inv, TypeOK, RecoverChoose
    <2>4. QED BY <1>3, <2>1, <2>2, <2>3, MoveOutsideLock DEF RecoverChoose, Goto, disk
  <1>4. CASE RollbackGeneration(w)
    <2>1. \A u \in Workers : pc'[u] \notin Locked
      BY <1>4, AllOutside DEF RollbackGeneration, Activate, threads
    <2>2. CurrentPublished'
      BY <1>4 DEF RollbackGeneration, Activate, Valid, CurrentPublished
    <2>3. lock' \notin Workers
      BY <1>4, ConstantsAssumption DEF RollbackGeneration, Activate, LockFree
    <2>4. QED BY <2>1, <2>2, <2>3
                DEF LockMatchesOwner, RenamedInPlace, VictimsSpareCurrent, StagedIdFresh,
                    SourceStaysCurrent, Locked
  <1>5. QED BY <1>1, <1>2, <1>3, <1>4 DEF Request

(* A crash ends the calls of one process and leaves the disk as it is.     *)
LEMMA CrashSafe ==
    ASSUME Inv, NEW p \in Pids, Crash(p)
    PROVE  Safe'
  <1> USE ConstantsAssumption
  <1> DEFINE dead == {w \in Workers : PidOf[w] = p}
  <1>1. \A u \in Workers : pc'[u] = IF u \in dead THEN "idle" ELSE pc[u]
    BY DEF Crash
  <1>2. \A u \in Workers \ dead : /\ op'[u] = op[u] /\ sid'[u] = sid[u] /\ src'[u] = src[u]
                                   /\ base'[u] = base[u] /\ doomed'[u] = doomed[u]
    BY DEF Crash
  <1>3. UNCHANGED <<gens, torn, content, cur>> /\ lock' = IF lock \in dead THEN NoOne ELSE lock
    BY DEF Crash, disk
  <1> HIDE DEF dead
  <1>4. LockMatchesOwner'
    <2>1. dead \subseteq Workers BY DEF dead
    <2>2. QED BY <1>1, <1>3, <2>1 DEF Inv, LockMatchesOwner, Locked
  <1>5. (RenamedInPlace /\ VictimsSpareCurrent /\ CurrentPublished)'
    BY <1>1, <1>2, <1>3 DEF Inv, RenamedInPlace, VictimsSpareCurrent, CurrentPublished
  <1>6. (StagedIdFresh /\ SourceStaysCurrent)'
    BY <1>1, <1>2, <1>3 DEF Inv, StagedIdFresh, SourceStaysCurrent, KnownIds
  <1>7. QED BY <1>4, <1>5, <1>6

(* Every step keeps the invariant.                                         *)
LEMMA NextSafe ==
    ASSUME Inv, [Next]_vars
    PROVE  Safe'
  <1>1. ASSUME NEW g \in Ids, Damage(g) PROVE Safe'
    BY <1>1 DEF Inv, Damage, LockMatchesOwner, RenamedInPlace, VictimsSpareCurrent,
                CurrentPublished, StagedIdFresh, SourceStaysCurrent, KnownIds, threads
  <1>2. CASE UNCHANGED vars
    BY <1>2 DEF Inv, LockMatchesOwner, RenamedInPlace, VictimsSpareCurrent,
                CurrentPublished, StagedIdFresh, SourceStaysCurrent, KnownIds, vars, disk, threads
  <1>3. QED BY <1>1, <1>2, StepSafe, RequestSafe, CrashSafe DEF Next

(* The invariant holds at first,                                           *)
LEMMA InitInv == Init => Inv
  <1>1. Init => TypeOK
    BY InitTyped
  <1>2. Init => Safe
    BY ConstantsAssumption DEF Init, LockMatchesOwner, RenamedInPlace, VictimsSpareCurrent,
                               CurrentPublished, StagedIdFresh, SourceStaysCurrent, Locked
  <1>3. QED BY <1>1, <1>2 DEF Inv

(* and every step keeps it.                                                *)
LEMMA NextInv == Inv /\ [Next]_vars => Inv'
  BY NextTyped, NextSafe DEF Inv

(* The inductive invariant of the catalog.                                 *)
LEMMA Invariance == Spec => []Inv
  BY InitInv, NextInv, PTL DEF Spec

(* Type correctness of the catalog.                                        *)
THEOREM TypeCorrect == Spec => []TypeOK
  <1>1. Inv => TypeOK
    BY DEF Inv
  <1>2. QED BY <1>1, Invariance, PTL

(* The lock is held exactly in the critical section, a renamed generation  *)
(* is intact, and vacuum never aims at CURRENT.                            *)
THEOREM PublicationProtocol == Spec => []PublicationInvariant
  <1>1. Inv => PublicationInvariant
    BY DEF Inv
  <1>2. QED BY <1>1, Invariance, PTL

(* Whatever crashes, CURRENT names a generation that is wholly there.      *)
THEOREM CurrentAlwaysResolves == Spec => []CurrentPublished
  <1>1. Inv => CurrentPublished
    BY DEF Inv
  <1>2. QED BY <1>1, Invariance, PTL

(* Publication never finds its generation id taken.                        *)
THEOREM StagedIdsFresh == Spec => []StagedIdFresh
  <1>1. Inv => StagedIdFresh
    BY DEF Inv
  <1>2. QED BY <1>1, Invariance, PTL

(* What a writer found under the lock holds until it publishes.            *)
THEOREM SourcesStayCurrent == Spec => []SourceStaysCurrent
  <1>1. Inv => SourceStaysCurrent
    BY DEF Inv
  <1>2. QED BY <1>1, Invariance, PTL

----------------------------------------------------------------------------
(* Only the call itself moves a worker from "renamed" to "idle" while it   *)
(* replaces CURRENT, and then with the generation it staged.               *)
LEMMA PublishIsWriteCurrent ==
    ASSUME Inv, [Next]_vars, NEW w \in Workers, Publishes(w)
    PROVE  WriteCurrent(w)
  <1> USE DEF Publishes
  <1>1. lock = w
    BY DEF Inv, LockMatchesOwner, Locked
  <1>2. \A u \in Workers \ {w} : pc[u] \notin Locked
    BY <1>1, OthersOutside
  <1>3. ~LockFree
    BY <1>1, ConstantsAssumption DEF LockFree
  <1>4. ASSUME NEW u \in Workers, Step(u) PROVE WriteCurrent(u)
    BY <1>3, <1>4
       DEF Step, Resolve, ResolveNotFound, TakeLease, OpenFails, EndRead, BeginGeneration,
           BeginRefused, PrepareRefused, Prepare, BuildFails, Abandon, Seal, PublishFails, Rename,
           WriteCurrentFails, VacuumLock, VacuumFails, UnlinkBegins, UnlinkEnds, VacuumSweep,
           RecoverRollback, RecoverSweep, RecoverFails, Activate, disk, threads
  <1>5. ASSUME NEW u \in Workers, WriteCurrent(u) PROVE u = w
    BY <1>2, <1>5 DEF WriteCurrent, Locked
  <1>6. \A u \in Workers : ~Request(u)
    BY <1>3 DEF Request, StartRead, StartCompact, StartWrite, StartParquet, Start, VacuumScan,
                RecoverChoose, RollbackGeneration, Activate, disk
  <1>7. (\A p \in Pids : ~Crash(p)) /\ (\A g \in Ids : ~Damage(g)) /\ ~UNCHANGED vars
    BY DEF Crash, Damage, disk, vars
  <1>8. QED BY <1>4, <1>5, <1>6, <1>7 DEF Next

(* No update is lost by a writer that opens its source under the lock.     *)
THEOREM NoLostUpdate == Spec => LockedWritersKeepWrites
  <1>1. ASSUME Inv, [Next]_vars, NEW w \in Workers, Publishes(w), op[w] \in DerivedUnderLock
        PROVE  content[cur] \subseteq content'[cur']
    <2>1. WriteCurrent(w)
      BY <1>1, PublishIsWriteCurrent
    <2>2. content' = content /\ cur' = sid[w] /\ base[w] \subseteq content[sid[w]]
      BY <1>1, <2>1 DEF Inv, WriteCurrent, RenamedInPlace
    <2>3. base[w] = content[cur]
      BY <1>1 DEF Inv, SourceStaysCurrent, Publishes
    <2>4. QED BY <2>2, <2>3
  <1>2. Inv /\ [Next]_vars =>
          [\A w \in Workers : Publishes(w) /\ op[w] \in DerivedUnderLock =>
              content[cur] \subseteq content'[cur']]_vars
    BY <1>1
  <1>3. QED BY <1>2, Invariance, PTL DEF Spec, LockedWritersKeepWrites

(* An initial import never replaces a dataset.                             *)
THEOREM InitialImportsFillEmptyCatalogs == Spec => InitialImportKeepsDataset
  <1>1. ASSUME Inv, [Next]_vars, NEW w \in Workers, Publishes(w), op[w] \in InitialOps
        PROVE  cur = NoGen
    BY <1>1 DEF Inv, SourceStaysCurrent, Publishes
  <1>2. Inv /\ [Next]_vars =>
          [\A w \in Workers : Publishes(w) /\ op[w] \in InitialOps => cur = NoGen]_vars
    BY <1>1
  <1>3. QED BY <1>2, Invariance, PTL DEF Spec, InitialImportKeepsDataset
============================================================================
