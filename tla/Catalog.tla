------------------------------ MODULE Catalog ------------------------------
(***************************************************************************)
(* The generation catalog of LHR: immutable numbered generations, the      *)
(* CURRENT pointer, the writer lock, staging directories, reader leases,   *)
(* vacuum, rollback and recovery (rust/src/catalog.rs, snapshot.rs,        *)
(* recovery.rs), and the order in which each kind of writer takes the      *)
(* lock, opens its source and publishes (delta_mutation.rs, compaction.rs, *)
(* admin.rs, import.rs, segmented_import.rs, parquet_import.rs,            *)
(* maintenance.rs, ingest.rs).                                             *)
(*                                                                         *)
(* A worker is one thread executing one library call; several workers may  *)
(* share a process, and a process may crash between any two steps.  Every  *)
(* file-system operation that is atomic in the code (rename, flock,        *)
(* replacement of CURRENT) is one step.  The rows of a generation are      *)
(* abstracted to the set of write transactions they contain.               *)
(***************************************************************************)
EXTENDS Naturals, FiniteSets

CONSTANTS
    Workers,        \* threads that execute catalog operations
    Pids,           \* process ids; a restarted process may get the same one
    PidOf,          \* the process each worker runs in
    Ops,            \* the operations the workers may start
    Writes,         \* write transactions; each is performed at most once
    InitGens,       \* generations published before the behaviour starts
    RetainChoices,  \* values of vacuum's retain_newest
    ProtectChoices, \* sets of explicitly protected generation ids
    MaxId,          \* the highest generation id (u64::MAX in the code)
    MaxDamage,      \* bound on generations damaged by the medium at a time
    NoOne           \* the lock is free

(***************************************************************************)
(* "mutate"  apply_mutations_delta, append_csv_segmented                   *)
(* "append"  append_csv_delta                                              *)
(* "reindex" add_index, drop_index, rebuild_index                          *)
(* "import"  import_csv, restore_backup, import_external                   *)
(* "initial" import_csv_initial, import_csv_segmented_initial, the build   *)
(*           of a combined bucket                                          *)
(* "parquet" import_parquet_shards_initial                                 *)
(* "compact" compact_dataset                                               *)
(* "read"    any holder of a SnapshotLease                                 *)
(***************************************************************************)
WriterOps == {"mutate", "append", "reindex", "import", "initial", "parquet", "compact"}
AllOps    == WriterOps \cup {"read", "rollback", "vacuum", "recover"}

Ids   == 1..MaxId
NoGen == 0          \* CURRENT is absent, or no generation

ASSUME ConstantsAssumption ==
    /\ MaxId \in Nat
    /\ MaxDamage \in Nat
    /\ PidOf \in [Workers -> Pids]
    /\ Ops \subseteq AllOps
    /\ NoOne \notin Workers
    /\ InitGens \subseteq Ids
    /\ RetainChoices \subseteq Nat
    /\ ProtectChoices \subseteq SUBSET Ids

VARIABLES
    gens,     \* generations/<id> directories
    torn,     \* generations whose removal has begun but not finished
    damaged,  \* generations the medium has corrupted
    content,  \* the write transactions contained in each generation
    cur,      \* the id in CURRENT, or NoGen
    staging,  \* .staging-<id>-<pid> directories
    work,     \* .<op>-work-<id>-<pid> directories, by operation and process
    used,     \* write transactions whose generation has been renamed into place
    lock,     \* the worker that holds WRITER.lock, or NoOne
    lease,    \* the generation whose READERS/<id>.lock a worker shares
    pc,       \* where each worker is in its call
    op,       \* the call it executes
    sid,      \* StagedGeneration.id
    src,      \* the generation it resolved (or, in recovery, chose)
    base,     \* the write transactions of the snapshot it opened
    scan,     \* vacuum: protected and leased ids
    doomed    \* vacuum: generations still to be unlinked

disk    == <<gens, torn, damaged, content, cur, staging, work, used>>
threads == <<pc, op, sid, src, base, scan, doomed>>
vars    == <<disk, lock, lease, threads>>

PCs == {"idle", "resolve", "lease", "reading", "begin", "staged", "building", "sealed",
        "renamed", "vlock", "unlinking", "rrollback", "rsweep"}

TypeOK ==
    /\ gens \subseteq Ids /\ torn \subseteq gens /\ damaged \subseteq gens
    /\ content \in [Ids -> SUBSET Writes]
    /\ cur \in Ids \cup {NoGen}
    /\ staging \subseteq Ids \X Pids
    /\ work \subseteq AllOps \X Pids
    /\ used \subseteq Writes
    /\ lock \in Workers \cup {NoOne}
    /\ lease \in [Workers -> Ids \cup {NoGen}]
    /\ pc \in [Workers -> PCs]
    /\ op \in [Workers -> AllOps \cup {"none"}]
    /\ sid \in [Workers -> Ids \cup {NoGen}]
    /\ src \in [Workers -> Ids \cup {NoGen}]
    /\ base \in [Workers -> SUBSET Writes]
    /\ scan \in [Workers -> SUBSET Ids]
    /\ doomed \in [Workers -> SUBSET Ids]

Init ==
    /\ gens = InitGens /\ torn = {} /\ damaged = {}
    /\ content = [g \in Ids |-> {}]
    /\ cur = NoGen \/ cur \in InitGens
    /\ (cur = NoGen) = (InitGens = {})
    /\ \A g \in InitGens : g <= cur
    /\ staging = {} /\ work = {} /\ used = {}
    /\ lock = NoOne
    /\ lease = [w \in Workers |-> NoGen]
    /\ pc = [w \in Workers |-> "idle"]
    /\ op = [w \in Workers |-> "none"]
    /\ sid = [w \in Workers |-> NoGen]
    /\ src = [w \in Workers |-> NoGen]
    /\ base = [w \in Workers |-> {}]
    /\ scan = [w \in Workers |-> {}]
    /\ doomed = [w \in Workers |-> {}]

----------------------------------------------------------------------------
(* What the steps read from disk.                                          *)

\* verify_dataset / verify_versioned_dataset succeed on these generations.
Valid == gens \ (torn \cup damaged)

\* next_generation_id: the listed generations and the one CURRENT names.
KnownIds == gens \cup {cur, NoGen}

\* Seeded fault: the next id follows CURRENT, whatever else has been renamed into place.
IsAfterCurrent(id) == id = cur + 1

\* Seeded fault: the addition is not checked and wraps around.
IsNextWrapped(id) ==
    \E g \in KnownIds : (\A h \in KnownIds : h <= g) /\ id = (g + 1) % (MaxId + 1)

\* next_generation_id: one above the maximum of the known ids.
IsNextId(id) == (id - 1) \in KnownIds /\ \A g \in KnownIds : g < id

\* resolve_dataset_root succeeds: CURRENT names a generation that is there.
Resolves == cur # NoGen /\ cur \in gens

\* Seeded fault: the exclusive lock attempt is not checked.
LockUnchecked == TRUE

\* acquire_writer_lock would succeed.
LockFree == lock = NoOne

\* leased_generation_ids: the reader lock files that cannot be locked exclusively.
Leased == {lease[r] : r \in Workers} \ {NoGen}

\* Vacuum retains the k newest directories, valid or not.
Newest(k) == {g \in gens : Cardinality({h \in gens : h > g}) < k}

\* Seeded fault: vacuum trusts the retention count to cover CURRENT.
KeepNewestOnly(k, protected) == protected \cup Newest(k)

\* vacuum_generations: the generations that survive.
Keep(k, protected) == {cur} \cup protected \cup Newest(k)

\* The work directories that vacuum's prefix list names: not .append-work-.
SweptWork == {e \in work : e[1] # "append"}

(* A worker's call returns: its locals, its lock and its lease are dropped. *)
Return(w) ==
    /\ pc' = [pc EXCEPT ![w] = "idle"]
    /\ op' = [op EXCEPT ![w] = "none"]
    /\ sid' = [sid EXCEPT ![w] = NoGen]
    /\ src' = [src EXCEPT ![w] = NoGen]
    /\ base' = [base EXCEPT ![w] = {}]
    /\ scan' = [scan EXCEPT ![w] = {}]
    /\ doomed' = [doomed EXCEPT ![w] = {}]
    /\ lease' = [lease EXCEPT ![w] = NoGen]
    /\ lock' = IF lock = w THEN NoOne ELSE lock

Goto(w, label) == pc' = [pc EXCEPT ![w] = label]

----------------------------------------------------------------------------
(* Snapshots: SnapshotLease::acquire resolves CURRENT, then locks the      *)
(* generation's reader file, and does not look at CURRENT again.           *)

Start(w, k, label) ==
    /\ k \in Ops
    /\ pc[w] = "idle"
    /\ op' = [op EXCEPT ![w] = k]
    /\ Goto(w, label)
    /\ UNCHANGED <<disk, lock, lease, sid, src, base, scan, doomed>>

StartRead(w) == Start(w, "read", "resolve")

\* compact_dataset opens its VersionedDataset before begin_generation.
StartCompact(w) == Start(w, "compact", "resolve")

Resolve(w) ==
    /\ pc[w] = "resolve"
    /\ Resolves
    /\ src' = [src EXCEPT ![w] = cur]
    /\ Goto(w, "lease")
    /\ UNCHANGED <<disk, lock, lease, op, sid, base, scan, doomed>>

\* Seeded fault: the missing dataset is not reported to the caller.
ResolveWaits(w) == FALSE /\ UNCHANGED vars

ResolveNotFound(w) ==
    /\ pc[w] = "resolve"
    /\ ~Resolves
    /\ Return(w)
    /\ UNCHANGED disk

\* lock_shared on READERS/<id>.lock and opening the files of the generation.
TakeLease(w) ==
    /\ pc[w] = "lease"
    /\ src[w] \in gens
    /\ lease' = [lease EXCEPT ![w] = src[w]]
    /\ base' = [base EXCEPT ![w] = content[src[w]]]
    /\ Goto(w, IF op[w] = "read" THEN "reading" ELSE "begin")
    /\ UNCHANGED <<disk, lock, op, sid, src, scan, doomed>>

\* The generation vanished in between, or is being removed: opening it fails.
OpenFails(w) ==
    /\ pc[w] = "lease"
    /\ src[w] \notin Valid
    /\ Return(w)
    /\ UNCHANGED disk

EndRead(w) ==
    /\ pc[w] = "reading"
    /\ Return(w)
    /\ UNCHANGED disk

----------------------------------------------------------------------------
(* Writers.                                                                *)

StartWrite(w) ==
    \E k \in WriterOps \ {"compact", "parquet"} : Start(w, k, "begin")

\* The Parquet importer looks for an existing dataset before it takes the lock.
StartParquet(w) == ~Resolves /\ Start(w, "parquet", "begin")

\* begin_generation
BeginGeneration(w) ==
    /\ pc[w] = "begin"
    /\ LockFree
    /\ \E id \in 0..MaxId :
         /\ IsNextId(id)
         /\ <<id, PidOf[w]>> \notin staging
         /\ staging' = staging \cup {<<id, PidOf[w]>>}
         /\ sid' = [sid EXCEPT ![w] = id]
    /\ lock' = w
    /\ Goto(w, "staged")
    /\ UNCHANGED <<gens, torn, damaged, content, cur, work, used, lease, op, src, base, scan,
                   doomed>>

\* begin_generation's errors: WouldBlock, the staging path is already there,
\* or the id overflows.
BeginRefused(w) ==
    /\ pc[w] = "begin"
    /\ \/ ~LockFree
       \/ \E id \in 1..(MaxId + 1) :
            IsNextId(id) /\ (id > MaxId \/ <<id, PidOf[w]>> \in staging)
    /\ Return(w)
    /\ UNCHANGED disk

\* abandon_generation and removal of the work directory, then the lock is dropped.
Abandon(w) ==
    /\ staging' = staging \ {<<sid[w], PidOf[w]>>}
    /\ work' = work \ {<<op[w], PidOf[w]>>}
    /\ Return(w)
    /\ UNCHANGED <<gens, torn, damaged, content, cur, used>>

\* The operations that derive the new generation from the one CURRENT names,
\* resolved while they hold the lock.
DerivedUnderLock == {"mutate", "append", "reindex"}
InitialOps       == {"initial"}
WithWorkDir      == {"mutate", "append", "initial"}

PrepareRefused(w) ==
    /\ pc[w] = "staged"
    /\ \/ op[w] \in DerivedUnderLock /\ ~Resolves
       \/ op[w] \in InitialOps /\ Resolves
    /\ Abandon(w)

Prepare(w) ==
    /\ pc[w] = "staged"
    /\ op[w] \in DerivedUnderLock => Resolves
    /\ op[w] \in InitialOps => ~Resolves
    /\ IF op[w] \in DerivedUnderLock
         THEN /\ src' = [src EXCEPT ![w] = cur]
              /\ base' = [base EXCEPT ![w] = content[cur]]
              /\ lease' = [lease EXCEPT ![w] = IF op[w] = "reindex" THEN NoGen ELSE cur]
         ELSE UNCHANGED <<src, base, lease>>
    /\ work' = IF op[w] \in WithWorkDir THEN work \cup {<<op[w], PidOf[w]>>} ELSE work
    /\ Goto(w, "building")
    /\ UNCHANGED <<gens, torn, damaged, content, cur, staging, used, lock, op, sid, scan, doomed>>

\* Building, verification of the parts or validation of the request fails.
BuildFails(w) == pc[w] = "building" /\ Abandon(w)

\* The generation is complete: the snapshot and the work directory are dropped and
\* publish_generation verifies and seals the staging directory.
Seal(w) ==
    /\ pc[w] = "building"
    /\ work' = work \ {<<op[w], PidOf[w]>>}
    /\ lease' = [lease EXCEPT ![w] = NoGen]
    /\ Goto(w, "sealed")
    /\ UNCHANGED <<gens, torn, damaged, content, cur, staging, used, lock, op, sid, src, base,
                   scan, doomed>>

\* An error inside publish_generation before the rename: nobody abandons the stage.
PublishFails(w) ==
    /\ pc[w] = "sealed"
    /\ Return(w)
    /\ UNCHANGED disk

\* A delta layer is added to the layers of the source.
Extended(w) == {base[w] \cup {t} : t \in Writes \ used}

\* An import or a restored backup replaces everything.
Imported == {{t} : t \in Writes \ used}

\* What the new generation may contain; compaction and index changes copy their source.
Contents(w) ==
    CASE op[w] \in {"mutate", "append"}             -> Extended(w)
      [] op[w] \in {"import", "initial", "parquet"} -> Imported
      [] OTHER                                      -> {base[w]}

\* publish_generation / publish_presealed_generation: the staging directory becomes
\* generations/<id>.
Rename(w) ==
    /\ pc[w] = "sealed"
    /\ sid[w] \notin gens
    /\ gens' = gens \cup {sid[w]}
    /\ staging' = staging \ {<<sid[w], PidOf[w]>>}
    /\ \E c \in Contents(w) :
         /\ content' = [content EXCEPT ![sid[w]] = c]
         /\ used' = used \cup (c \ base[w])
    /\ Goto(w, "renamed")
    /\ UNCHANGED <<torn, damaged, cur, work, lock, lease, op, sid, src, base, scan, doomed>>

\* ... and atomic_write_current makes it CURRENT.
WriteCurrent(w) ==
    /\ pc[w] = "renamed"
    /\ cur' = sid[w]
    /\ Return(w)
    /\ UNCHANGED <<gens, torn, damaged, content, staging, work, used>>

\* Replacing CURRENT fails: the caller gets an error, the renamed generation stays.
WriteCurrentFails(w) ==
    /\ pc[w] = "renamed"
    /\ Return(w)
    /\ UNCHANGED disk

----------------------------------------------------------------------------
(* Rollback, vacuum and recovery.                                          *)

\* Seeded fault: CURRENT is repointed without the writer lock.
ActivateUnlocked(id) == id \in Valid /\ cur' = id

\* rollback_generation: under the lock, an existing generation that verifies.
Activate(id) == LockFree /\ id \in Valid /\ cur' = id

RollbackGeneration(w) ==
    /\ "rollback" \in Ops
    /\ pc[w] = "idle"
    /\ \E id \in Ids : Activate(id)
    /\ UNCHANGED <<gens, torn, damaged, content, staging, work, used, lock, lease, threads>>

\* vacuum_with_reader_leases looks at the leases before it takes the writer lock.
VacuumScan(w) ==
    /\ "vacuum" \in Ops
    /\ pc[w] = "idle"
    /\ op' = [op EXCEPT ![w] = "vacuum"]
    /\ \E protected \in ProtectChoices :
         scan' = [scan EXCEPT ![w] = protected \cup Leased]
    /\ Goto(w, "vlock")
    /\ UNCHANGED <<disk, lock, lease, sid, src, base, doomed>>

VacuumAllowed(w) == LockFree /\ cur \in Valid /\ scan[w] \subseteq gens

VacuumLock(w) ==
    /\ pc[w] = "vlock"
    /\ VacuumAllowed(w)
    /\ lock' = w
    /\ \E k \in RetainChoices :
         doomed' = [doomed EXCEPT ![w] = gens \ Keep(k, scan[w])]
    /\ Goto(w, "unlinking")
    /\ UNCHANGED <<disk, lease, op, sid, src, base, scan>>

\* Refused before anything is unlinked, or an unlink or the sweep fails.
VacuumFails(w) ==
    /\ \/ pc[w] = "vlock" /\ ~VacuumAllowed(w)
       \/ pc[w] = "unlinking"
    /\ Return(w)
    /\ UNCHANGED disk

\* remove_dir_all is not atomic: first some files go, ...
UnlinkBegins(w) ==
    /\ pc[w] = "unlinking"
    /\ \E g \in doomed[w] :
         /\ \A h \in doomed[w] : g <= h
         /\ g \notin torn
         /\ torn' = torn \cup {g}
    /\ UNCHANGED <<gens, damaged, content, cur, staging, work, used, lock, lease, threads>>

\* ... finally the directory itself.
UnlinkEnds(w) ==
    /\ pc[w] = "unlinking"
    /\ \E g \in doomed[w] \cap torn :
         /\ \A h \in doomed[w] : g <= h
         /\ gens' = gens \ {g}
         /\ torn' = torn \ {g}
         /\ damaged' = damaged \ {g}
         /\ content' = [content EXCEPT ![g] = {}]
         /\ doomed' = [doomed EXCEPT ![w] = @ \ {g}]
    /\ UNCHANGED <<cur, staging, work, used, lock, lease, pc, op, sid, src, base, scan>>

\* The stale staging and work directories go last, then the lock is dropped.
VacuumSweep(w) ==
    /\ pc[w] = "unlinking"
    /\ doomed[w] = {}
    /\ staging' = {}
    /\ work' = work \ SweptWork
    /\ Return(w)
    /\ UNCHANGED <<gens, torn, damaged, content, cur, used>>

\* recover_catalog lists and verifies without the lock: src is the newest
\* generation that verifies, and CURRENT is compared with it once.
RecoverChoose(w) ==
    /\ "recover" \in Ops
    /\ pc[w] = "idle"
    /\ \E g \in Valid :
         /\ \A h \in Valid : h <= g
         /\ src' = [src EXCEPT ![w] = g]
         /\ Goto(w, IF cur = g THEN "rsweep" ELSE "rrollback")
    /\ op' = [op EXCEPT ![w] = "recover"]
    /\ UNCHANGED <<disk, lock, lease, sid, base, scan, doomed>>

RecoverRollback(w) ==
    /\ pc[w] = "rrollback"
    /\ Activate(src[w])
    /\ Goto(w, "rsweep")
    /\ UNCHANGED <<gens, torn, damaged, content, staging, work, used, lock, lease, op, sid, src,
                   base, scan, doomed>>

\* The closing vacuum_generations(usize::MAX, []): nothing is unlinked but stale work.
RecoverSweep(w) ==
    /\ pc[w] = "rsweep"
    /\ LockFree /\ cur \in Valid
    /\ staging' = {}
    /\ work' = work \ SweptWork
    /\ Return(w)
    /\ UNCHANGED <<gens, torn, damaged, content, cur, used>>

RecoverFails(w) ==
    /\ \/ pc[w] = "rrollback" /\ ~(LockFree /\ src[w] \in Valid)
       \/ pc[w] = "rsweep" /\ ~(LockFree /\ cur \in Valid)
    /\ Return(w)
    /\ UNCHANGED disk

----------------------------------------------------------------------------
(* The environment.                                                        *)

\* A process dies: the OS drops its locks, the disk keeps everything.
Crash(p) ==
    LET dead == {w \in Workers : PidOf[w] = p}
        Reset(f, v) == [w \in Workers |-> IF w \in dead THEN v ELSE f[w]]
    IN  /\ \E w \in dead : pc[w] # "idle"
        /\ pc' = Reset(pc, "idle")
        /\ op' = Reset(op, "none")
        /\ sid' = Reset(sid, NoGen)
        /\ src' = Reset(src, NoGen)
        /\ base' = Reset(base, {})
        /\ scan' = Reset(scan, {})
        /\ doomed' = Reset(doomed, {})
        /\ lease' = Reset(lease, NoGen)
        /\ lock' = IF lock \in dead THEN NoOne ELSE lock
        /\ UNCHANGED disk

\* The medium corrupts a published generation.
Damage(g) ==
    /\ Cardinality(damaged) < MaxDamage
    /\ g \in Valid
    /\ damaged' = damaged \cup {g}
    /\ UNCHANGED <<gens, torn, content, cur, staging, work, used, lock, lease, threads>>

Step(w) ==
    \/ Resolve(w) \/ ResolveNotFound(w) \/ TakeLease(w) \/ OpenFails(w) \/ EndRead(w)
    \/ BeginGeneration(w) \/ BeginRefused(w) \/ PrepareRefused(w) \/ Prepare(w)
    \/ BuildFails(w) \/ Seal(w) \/ PublishFails(w) \/ Rename(w)
    \/ WriteCurrent(w) \/ WriteCurrentFails(w)
    \/ VacuumLock(w) \/ VacuumFails(w) \/ UnlinkBegins(w) \/ UnlinkEnds(w) \/ VacuumSweep(w)
    \/ RecoverRollback(w) \/ RecoverSweep(w) \/ RecoverFails(w)

Request(w) ==
    \/ StartRead(w) \/ StartCompact(w) \/ StartWrite(w) \/ StartParquet(w)
    \/ RollbackGeneration(w) \/ VacuumScan(w) \/ RecoverChoose(w)

Next ==
    \/ \E w \in Workers : Step(w) \/ Request(w)
    \/ \E p \in Pids : Crash(p)
    \/ \E g \in Ids : Damage(g)

Spec == Init /\ [][Next]_vars

\* A call that has started keeps running: each worker is a thread of its own.
FairSpec == Spec /\ \A w \in Workers : WF_vars(Step(w))

----------------------------------------------------------------------------
(* Properties.                                                             *)

Locked == {"staged", "building", "sealed", "renamed", "unlinking"}

(* What keeps the publication protocol together: WRITER.lock is held by the *)
(* worker between begin_generation (or vacuum's lock) and the end of its   *)
(* call and by nobody else; a generation renamed into place but not yet    *)
(* CURRENT is intact and contains its source's writes; and vacuum's victims *)
(* are published generations other than CURRENT for as long as it unlinks. *)
LockMatchesOwner == \A w \in Workers : pc[w] \in Locked <=> lock = w

RenamedInPlace ==
    \A w \in Workers : pc[w] = "renamed" =>
        /\ sid[w] \in gens \ torn
        /\ op[w] \in DerivedUnderLock => base[w] \subseteq content[sid[w]]

VictimsSpareCurrent ==
    \A w \in Workers : pc[w] = "unlinking" => doomed[w] \subseteq gens \ {cur}

PublicationInvariant == LockMatchesOwner /\ RenamedInPlace /\ VictimsSpareCurrent

(* resolve_dataset_root never fails on a catalog that has published: at    *)
(* every moment, whatever writers, vacuums, recoveries and crashes are     *)
(* under way, CURRENT names a generation that is there and that no vacuum  *)
(* has begun to remove.                                                    *)
CurrentPublished == cur # NoGen => cur \in gens \ torn

(* publish_generation never meets "generation id already exists": the id   *)
(* a writer staged stays above every published id and above CURRENT until  *)
(* it is renamed into place.                                               *)
StagedIdFresh ==
    \A w \in Workers :
        pc[w] \in {"staged", "building", "sealed"} => \A g \in KnownIds : g < sid[w]

(* What a writer found under the lock stays true until it publishes: the   *)
(* generation that a mutation, append or index change was derived from is  *)
(* still CURRENT, unchanged and on disk; a catalog that an initial import  *)
(* found empty is still empty.                                             *)
SourceStaysCurrent ==
    \A w \in Workers : pc[w] \in {"building", "sealed", "renamed"} =>
        /\ op[w] \in DerivedUnderLock => src[w] = cur /\ cur \in gens /\ base[w] = content[cur]
        /\ op[w] \in InitialOps => cur = NoGen

\* Worker w replaces CURRENT in this step by publishing its generation.
Publishes(w) == pc[w] = "renamed" /\ pc'[w] = "idle" /\ cur' # cur

(* No lost update: publishing a mutation, an append or an index change     *)
(* never drops a write transaction that CURRENT contained.                 *)
LockedWritersKeepWrites ==
    [][\A w \in Workers : Publishes(w) /\ op[w] \in DerivedUnderLock =>
          content[cur] \subseteq content'[cur']]_vars

(* The same of compaction, whose generation is documented to be the same   *)
(* logical database in a clean base (docs/OPERATIONS.md, Snapshots and     *)
(* concurrency: writes, index changes, compaction and publication are      *)
(* serialized by the writer lock and do not interleave durable state).     *)
CompactionKeepsWrites ==
    [][\A w \in Workers : Publishes(w) /\ op[w] = "compact" =>
          content[cur] \subseteq content'[cur']]_vars

(* An initial import only ever fills an empty catalog.                     *)
InitialImportKeepsDataset ==
    [][\A w \in Workers : Publishes(w) /\ op[w] \in InitialOps => cur = NoGen]_vars

(* SnapshotLease::acquire: a generation that a lease pins is not unlinked. *)
LeasedGenerationKept ==
    [][\A r \in Workers : lease[r] \in Valid /\ lease'[r] = lease[r] =>
          lease[r] \notin torn' \ torn]_vars

(* recover_catalog: the newest generation that verifies becomes CURRENT.    *)
RecoveryActivatesNewest ==
    [][\A w \in Workers : pc[w] = "rrollback" /\ pc'[w] = "rsweep" =>
          \A g \in Valid : g <= cur']_vars

(* Every call returns: lock conflicts, missing datasets and vanished       *)
(* generations are reported, never waited for.                             *)
CallsReturn == \A w \in Workers : pc[w] # "idle" ~> pc[w] = "idle"
============================================================================
