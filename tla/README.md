# LHR in TLA+

Models, model checks and proofs for LHR (Localized Hierarchical Retrieval), the
exact-retrieval database in this repository: a Rust library and service that
import CSV and Parquet files into immutable, numbered *generations*, answer
exact queries over them, and change them by publishing further generations.
Paths below are relative to the repository root; `rust/src/` is abbreviated to
the file name.

- `*.tla` are the modules, `MC*.tla` and `*.cfg` their instances for TLC,
  and the `*Proofs.tla` beside a module hold the proofs about it that TLAPS checks.
- `PROJECT.json` lists components, runs, seeded faults, findings, hazards and
  theorems, and maps every definition to the source lines it models.
- `tlc -config MCCatalog.cfg MCCatalog.tla` runs one check, `tlapm CatalogProofs.tla`
  the proofs of a module.

## 1. The system

| Component | State it keeps | Operations | What is hard |
|---|---|---|---|
| Generation catalog (`catalog.rs`, `snapshot.rs`, `recovery.rs`) | `generations/<id>`, `CURRENT`, `WRITER.lock`, `.staging-*`, `.<op>-work-*`, `READERS/<id>.lock` | begin, publish, abandon, roll back, vacuum, recover, lease | several threads and processes, crashes between any two file operations, decisions taken before the lock |
| Writers (`delta_mutation.rs`, `import.rs`, `segmented_import.rs`, `parquet_import.rs`, `admin.rs`, `maintenance.rs`, `compaction.rs`, `ingest.rs`) | a staged generation and a source snapshot | mutate, append, import, index changes, restore, compact | the order of lock, check, snapshot and publication differs from writer to writer |
| Versioned rows (`versioned.rs`, `overlay.rs`, `rowids.rs`, `delta_mutation.rs`, `compaction.rs`) | base layer, delta layers, visibility map, overlay counters | prepare and apply a transaction, append, compact, read a row | a row has versions in several layers; counters and ids are kept beside the rows |
| Queries (`versioned.rs`, `logical.rs`, `engine.rs`, `query_api.rs`) | none (read-only) | equality pages, hit counts, browsing, residual filters, ranges | layers cut their answers before hidden versions are filtered out |
| Exact index engine (`engine.rs`, `exact.rs`, `*_postings.rs`, `hierarchy.rs`, `bitmap.rs`, `external.rs`, `builder.rs`, `stream_builder.rs`, `segment.rs`) | the segments and index files of one immutable layer | build segments, add indexes, page, ids, count, explain | seven file formats with boundaries of their own; routes that must agree |
| Index administration and seals (`admin.rs`, `exact.rs`, `operations.rs`, `segmented_import.rs`) | manifest, index files, `integrity.json` of a generation | add, drop, rebuild an index, attach a layer, seal, verify | generations share files by hard links; seals are composed from older ones |
| Buckets (`buckets.rs`) | one catalog per bucket directory, `.bucket.json` | create, rename, delete, combine, transfer rows | two catalogs without a common transaction; a directory removed under its writers |
| Import jobs (`service.rs`) | job record, staged upload, background build | create, chunk, complete, build, clean up, recover | dropped handlers, late writes, saves that fail, crashes, retries |
| Service (`service.rs`, `lhr_appliance`) | dataset cache, rate window, request semaphore, export grants | authentication, admission, admin endpoints, chat tools, streamed exports | cache staleness |
| Physical storage (`dictionary.rs`, `parquet_payload.rs`, `manifest.rs`, ...) | files of a generation | encode, read, check | encodings, checksums |
| Studio (`studio/`) | browser state | uploads and queries through the service | it is the client of the import jobs |

How they interact: the service, the command line and tests call the library
concurrently, from threads of one process and from several processes; the only
coordination is the file system (`flock` on `WRITER.lock` and on the readers'
lock files, atomic renames, replacement of `CURRENT`). A writer takes the lock
with `begin_generation`, usually opens the generation that `CURRENT` names,
builds a new one in a staging directory and publishes it by a rename and a
replacement of `CURRENT`. Readers resolve `CURRENT`, share the reader lock of
that generation and never block writers. An import job ends in one of the
importers. `PROJECT.json` lists all components, with those that are left out
and why, and every hazard at its line.

## 2. Modules and the code they model

### Catalog — publication, rollback, vacuum, recovery, leases

One worker is one thread executing one library call; `pc[w]` is the place in
that call. Every file operation that is atomic in the code is one step:

| Code | Model |
|---|---|
| `begin_generation` | `BeginGeneration`, `BeginRefused` |
| opening `CURRENT` under the lock, the importer's emptiness check | `Prepare`, `PrepareRefused` |
| building and `abandon_generation` | `BuildFails`, `Seal` |
| `publish_generation` | `PublishFails`, `Rename`, `WriteCurrent`, `WriteCurrentFails` |
| `SnapshotLease::acquire` | `Resolve`, `ResolveNotFound`, `TakeLease`, `OpenFails`, `EndRead` |
| `rollback_generation` | `RollbackGeneration` (`Activate`) |
| `vacuum_with_reader_leases` | `VacuumScan`, `VacuumLock`, `VacuumFails`, `UnlinkBegins`, `UnlinkEnds`, `VacuumSweep` |
| `recover_catalog` | `RecoverChoose`, `RecoverRollback`, `RecoverSweep`, `RecoverFails` |
| death of a process, a medium that corrupts a generation | `Crash`, `Damage` |

The kinds of writer differ in the order of lock, check and snapshot, which is
what `op` records: mutations, appends and index changes open their source under
the lock; `compact_dataset` opens it before; the CSV importers look for a
dataset under the lock, the Parquet importer before; restores replace the
dataset whatever it is. The Parquet importer may therefore replace a dataset
published between its check and its lock, against its own error message
(`parquet_import.rs:286`): the model has this step, and
`InitialImportKeepsDataset` is claimed of the other importers only.

The rows of a generation are the set of write
transactions it contains, which is all that a lost update needs.
`remove_dir_all` is not atomic, so a generation being unlinked is `torn` first.
Verification is the predicate `Valid`; a lock file is held by the operating
system and vanishes with its process.

### RowStore, LayeredRows — what a table is, and how it is stored

`RowStore` is the abstract specification: visible rows under stable logical ids,
changed by whole transactions, by appends and by compaction. `LayeredRows` is
the stored form: `base`, `deltas`, `visibility` (the overrides in
`visibility.bin`) and `overlay` (`overlay.json`). `Begin`, `PrepareDelete`,
`PrepareUpdate`, `PrepareInsert` and `Refuse` are the loop of `prepare` in
`delta_mutation.rs`, mutation by mutation; `Apply`, `AppendCsv` and `Compact`
publish, one step each because the writer lock and one rename make them so
(module Catalog). Schemas may grow by additive appends; `Aligned` is
`align_values`, `NullableCols` is `merge_layer_schemas`.

`RowStore` is deliberately weaker than the code in one place, and says so:
compaction may lower `top`, because `compaction.rs` drops `overlay.json`.
`RowIdHistory` adds a history of deleted ids and shows what follows from that.

### LayeredQuery — exact equality queries, hit counts, browsing

Definitions over the state of LayeredRows: what `query_values_page_after` of
`versioned.rs` asks of each layer (`LayerCanMatch`, `FetchLimit`), how a layer
answers (`LayerMatches`, cut to the requested number), how the answers are
filtered, merged and cut (`Page`), the hit count with its correction for hidden
versions (`LayerHits`), and browsing by row id. A layer's index is abstracted to
the set of its rows that match.

### QueryRoutes — execute_query and a client that walks the pages

`execute_query` answers a request by one of five routes: browsing by row id, an
equality page, batches of candidates with residual filters, a merge of one
equality stream per value of a narrow range, or a scan. `RouteOf` is the order
of its conditions; each route is a loop of actions (`BrowseRow`,
`CandidateBatch`, `ProbeRange`, `PopRange`, ...) that ends in `Answer`, where the
client takes the page and asks for the next one with `next_cursor`.
`QueryFails` is an exceeded deadline or row limit. Here the table is the
abstract one: a query reads one immutable generation, so writers (`InsertRow`,
`UpdateRow`, `DeleteRow`, `CompactTable`) act between queries, and equality
predicates give exact answers because LayeredQuery shows that the layers do.
What `encoded_predicates` does to a value that is a NULL literal of its column
is kept (`AsPredicate`), since a finding hangs on it; `PageExact` and `WalkIsExact` are
claimed of requests that name no such value (`AsksNoLiteral`). Projections and the
statistics other than the hit count are left out.

### Sorting, Postings, IndexEngine — one immutable layer and its indexes

`Sorting` is the external sort (`ExternalSort`: bounded sorted runs and their merge
through a heap of their heads). `Postings` holds the files as operators: the five formats that list rows
(`postings`, `densepost`, `flatpost`, `deltapost`, `bitslice`), the two that list
pages (`sparse`, `bitmap`), how each is built from the sorted records
(`BuildRowFile`, `BuildPageFile`) and how each is read from a first row on or
within a seed (`RowsFrom`, `IntersectRows`, `PagesOf`). Binary searches appear
by the position they find, and a list is bounded, skipped and galloped
through in the order of the code.

`IndexEngine` is the layer around them:

| Code | Model |
|---|---|
| `push_batch`, `emit_segment`, `finish` of `stream_builder.rs` | `PushBatch`, `EmitSegment`, `FlushCarry` (batches end anywhere in a page) |
| `build_encoded_batches` | `FinishBuild` (page hierarchies from the spools) |
| `add_exact_hierarchies` | `AddIndex` |
| `Engine::open`, `row_selection_plan`, `candidate_rows_with_lookups`, `candidate_pages_with_lookups` | `OpenEngine`, `RowSelectionPlan`, `CandidateRows`, `CandidatePages` |
| `query_row_ids_page_from`, `candidate_row_page_from` | `Ask` and then `StreamBatch`, batch by batch |
| `query_row_ids_from`, `query_count`, `explain` | `Ask` (one computation) |

Sizes decide in the code which format an index gets; the model builds any
format the code may choose. Tokens are numbers below the column's cardinality, keys
are exact: `keyspace` refuses an index whose keys exceed u64. The plan of a streamed page is
computed once and kept, as the code's iteration keeps it.

### GenerationFiles — hard links, index administration, seals

A name in a generation's directory leads to a file on `disk`, which several
directories may share. `Create` is `File::create` (it empties a shared file),
`Replace` a temporary file renamed over the name. The difference is the hazard:
a staged change must never reach a published generation through a link.

| Code | Model |
|---|---|
| `validated_columns` before the lock | `Validate` |
| `begin_generation`, `clone_tree_link` | `CloneCurrent` |
| `drop_from_stage` | `DropFromStage` |
| `add_exact_hierarchies` (delta file, then the smallest format) | `CreateDelta`, `ChooseKind` |
| `publish_generation` with `write_integrity_manifest` | `PublishGeneration` |
| segmented append: `attach_layer`, composed seal, `publish_presealed_generation` | `BeginAppend`, `AttachLayer`, `PublishPresealed` |
| `import_csv`, `rollback_generation`, errors and crashes | `Import`, `Rollback`, `Stop` |

Writers exclude each other (Catalog), so there is one staging directory; the
lookup of column names is outside the lock and interleaves with everything. A
file's hash is its contents. An import and its seal are one step.

### Buckets — operations across catalogs

Requests of `buckets.rs` run against clients' transactions and initial imports
in the same buckets. A bucket is its directory: `names` says which of
`.bucket.json`, `CURRENT`, `generations` and the lock files are there, and the
publication takes the steps of Catalog (`Begin`, `Prepare`, `Publish`,
`WriteCurrent`). A transfer publishes its copies and then, if rows are moved,
goes on (`GoesOn`) with a second transaction on the source; a combination makes
its bucket, fills it, and looks whether it must be taken back (`UndoCombine`);
`remove_dir_all` goes entry by entry (`SweepEntry`, the small files together).

The ghosts state what clients may expect: `kept`, the rows that an acknowledged request wrote
and no client asked to delete; `owed`, the same for the cells, so that an update counts; `extra`, for each row the surplus
copies asked for, reported, left by a crash or by a deletion whose ids name other rows by now; `excused`, the
rows for which no promise is left because a directory was removed under a
writer. What the code does there, and the model keeps: `delete_bucket` takes the lock file
away with the directory, so that two writers may hold "the" lock; and
`begin_generation` makes a deleted directory again; a recreated bucket gives row
ids anew, so that a move still in flight may delete another row; a staging
directory left by a failed publication blocks the next one of its number.

### ImportJob — resumable uploads of the service

One record, one staged file, at most one handler (the job's semaphore) and at
most one background task per job.

| Code | Model |
|---|---|
| `createOrResumeImport`, `uploadImport` of `studio/src/api/client.ts` | `Create`, `Sendable` (what a client may send after which answers) |
| `import_job_chunk` | `ChunkIsDuplicate`, `ChunkStart`, `WritePiece`, `ChunkSaved`, `ChunkFails`, `HandlerDropped` |
| file operations that outlive their handler | `LateWrite`, `LateCut` |
| `import_job_complete` | `CompleteChecks` (the length is awaited), `CompleteSaves`, `CompleteFails` |
| `run_import_job` and the importer it calls | `BuildStart`, `BuildLock`, `Rename`, `WriteCurrent`, `BuildSucceeds`, `BuildFails` |
| `cleanup_expired_import_jobs`, `recover_import_jobs` | `Age`, `Cleanup`; `Crash`, `Restart` |
| other writers and `recover_catalog` on the bucket | `OtherWriter`, `Recover` |

What identifies a file is the digest of its first MiB (`Digest`), compared for
every chunk at offset 0 (`FingerprintAccepted`): files that begin alike are one
file to the server. A client that resumes sends later chunks only of a file
whose chunk at offset 0 was answered with success (`verified`); the one that
made the job (`creator`) goes on from the recorded progress also after its chunk
at offset 0 was refused, since `uploadImport` only looks whether the progress has passed
its offset (`client.ts:161`). So the code may put together an upload of several
files, and what it provides is what `MatchingLengthMeansInPlace` says: no piece
missing, doubled or shifted, each of a file with the recorded beginning or, after
the first chunk, of the creator's. Section 6 has the upload that is spliced.

A chunk is written piece by piece, so
a handler may go away between writing and saving: by an error it handles
(`ChunkFails`), by a disconnect that drops the future at an await
(`HandlerDropped`), or with the process (`Crash`). A write or a `set_len`
handed to the blocking pool before the drop takes place later, at any time
(`late`; `LateWrite`, `LateCut`), also while `complete` compares the length and
saves. A late `set_len` may cut off pieces that were received since, or fill a gap
with zeros (`Cut`); the history `lost` records when it took something that it was
not meant to take, and the two properties of the content make no promise then.
The task renames its generation into place and then replaces `CURRENT`. If it
fails in between, the generation is `left` as the newest one and a recovery of
the bucket may adopt it (`adopted`). Saves of the record are
atomic (rename of a temporary file); where the code ignores their result
(`let _ = save_import_job(..)`) the model has `TrySave`.

Abstractions: a process crash loses no written data (no power loss); a piece is
written whole or not; a `set_len` the handler lives to see is done at its return; the listing and the
per-job decision of `recover_import_jobs` are one step; other writers and
vacuums of the bucket are `OtherWriter`, which keeps only what they do to `ready` and `left`.

## 3. Runs

| Run | Instance | Shows |
|---|---|---|
| `catalog` | 2 workers in 2 processes, 3 generation ids, appends, compactions, vacuums, recoveries, rollbacks, crashes | `PublicationInvariant`, `CurrentPublished`, `StagedIdFresh`, `SourceStaysCurrent`, `LockedWritersKeepWrites` |
| `catalog_start` | 2 threads of one process, an empty catalog, one damaged generation at a time | `InitialImportKeepsDataset`, and that every call returns (`CallsReturn`, under fairness) |
| `layered_rows` | 2 columns, 1 value and NULL, row ids 0..2, 2 delta layers, growing schemas | `OneVersionPerRow`, `IdsBelowMax`, `CountsAndNullsAgree`, `PagesExact`, `HitsExact`, `BrowseExact`, refinement of RowStore |
| `row_transactions` | transactions that touch two rows, 1 delta layer | `PreparedIsApplicable`, refinement of RowStore |
| `import_job` | 2 jobs of one bucket, 3 files of equal name and size, 2 of which begin alike, 3 pieces in chunks of 2, 1 late operation | `MatchingLengthMeansInPlace`, `OutcomeIsHonest`, `BuildsAreNew`, `QueuedUploadsAreInPlace`, `CreateFillsEmptyBucket` |
| `query_walk` | 2 columns, row ids 0..2, 9 kinds of request, page sizes 1 and 2, candidate batches of 2 | `PageExact`, `WalkIsExact`, and that every query ends (`EveryQueryAnswers`, under fairness) |
| `index_engine` | 2 columns with 2 and 3 values, 5 rows, 34 layouts of indexes, 56 requests | `SegmentsHoldTable`, `IndexesExact`, `AnswersExact`, and that a streamed page ends (`StreamsEnd`, under fairness) |
| `generation_files` | 3 columns in 2 orders, 2 index choices, 4 generations | `PublishedVerify`, `IndexesServeTheirData` |
| `buckets` | 2 buckets, 2 threads, 3 rows, 3 events (requests and deaths of the service) | `RowsKept`, `CopiesAccounted`, `WritersExcludeEachOther` |
| `compaction`, `upload_retry`, `bucket_move` | as above, one property each (`bucket_move` with updates of rows) | the code does not do what its documentation says: section 6 |

Bounds and why they suffice. The hazards of the catalog are pairs of calls
around one lock: two workers give every interleaving of two calls, a third
would only queue at the lock; three ids allow a source, a rival and a rolled
back generation, and the calls go on to where no id is left. In LayeredRows a row can be stored in the base and in two
layers, deleted, updated and re-encoded; `U64Max = 2` makes id overflow
reachable. In ImportJob a file of three pieces has a full chunk and a short last
one; three files are the creator's, one that begins like it and one that does not, two jobs a race for the bucket.
Jobs meet in the bucket, the lock and the permits of their builds but not in their uploads;
so the constraint `DisturbedAlone` explores look-alike files and late operations for a job
that is alone, and two jobs only while both uploads are undisturbed. One job with two late
operations at a time satisfies the same properties without the constraint. In
QueryRoutes a batch of 2 candidates of 3 rows gives full, short and rejected
batches, pages of 1 and 2 give walks of several pages, and a row id can reach
`U64Max`. In IndexEngine pages, blocks, words and batches hold two rows and row
groups three, so that five rows cross every boundary and leave a last unit
that is not full, and a page boundary is not a group boundary; two runs of two records and one of one
make the external sort merge. In GenerationFiles four generations are an
import, an index change, a rollback or second import and a change on top of it.
In Buckets two requests and a third event (a rival, a deletion or a death) reach every
case named in section 2; the state has a symmetry of buckets, threads and rows.
`MaxId`, `MaxDamage`, `U64Max`, `MaxDeltas`, `MaxTx`, `MaxBuilds`, `MaxLate`,
`MaxGenerations`, `MaxEvents` and `MaxVersion`
are the only bounds on state (`Batch` and `MaxRange` of QueryRoutes are the code's
constants 4096 and 256); `MaxId`, `U64Max` and `MaxDeltas` stand for the
limits of u64 and u32, whose overflow the code reports, and `MaxBuilds` for a
configuration value. TLC checks deadlock in every run but those of
Buckets, where `MaxEvents` stops the clients.

Fairness is assumed in `FairSpec` of Catalog, weak fairness of `Step(w)` for each
worker, in `FairSpec` of QueryRoutes, weak fairness of `QueryStep`, and in `Spec` of
IndexEngine, weak fairness of `StreamBatch`: a call or
a query is a thread that the operating system keeps running. No call is ever
*started* by fairness, and a crash ends a call without counterexample. Import jobs claim no liveness: the final save of a build may
fail, after which the job stays `running` until a restart.

Every property of a passing run has a seeded fault: an operator beside the
definition it would replace, marked `Seeded fault` in the modules and listed in
`PROJECT.json`, under which TLC finds the property violated.

## 4. Proofs

Every theorem holds for all values of the constants that satisfy the module's
assumption, which TLC evaluates in the runs of that module. The assumptions say no more
than what the code gives: that bounds are numbers, that sets enumerated in the
model are subsets of what they are taken from, that a schema is a non-empty
sequence of different names, that an index is asked for on two columns at least
(`admin.rs` refuses fewer), that buckets and threads are finitely many.

| Module | States for every instance | Assumption |
|---|---|---|
| `CatalogProofs` | `TypeOK`, `PublicationInvariant`, `CurrentPublished`, `StagedIdFresh`, `SourceStaysCurrent`; the action properties `LockedWritersKeepWrites`, `InitialImportKeepsDataset` | `ConstantsAssumption` |
| `LayeredQueryProofs` | of LayeredRows: `LayersTypeOK`, `OneVersionPerRow`, `IdsBelowMax`, `PreparedIsApplicable`, `CountsAndNullsAgree`; `ImplementsRowStore` | `ConstantsAssumption` |
| | of LayeredQuery: `PagesExact`, `HitsExact`, `BrowseExact` | the same and `LimitsAssumption` |
| `ImportJobProofs` | `TypeOK`, `MatchingLengthMeansInPlace`, `OutcomeIsHonest`, `BuildsAreNew`; the action properties `QueuedUploadsAreInPlace`, `CreateFillsEmptyBucket` | `ConstantsAssumption` |
| `BucketsProofs` | `TypeOK`, `WritersExcludeEachOther`, `RowsKept`, `CopiesAccounted` | `ConstantsAssumption` |
| `GenerationFilesProofs` | `PublishedVerify`, `IndexesServeTheirData` | `GenerationFilesAssumption` |
| `QueryRoutesProofs` | `TypeOK`, `PageExact`, `WalkIsExact` | `ConstantsAssumption` |
| `IndexEngineProofs` | `TypeOK`, `SegmentsHoldTable`, `IndexesExact`, `AnswersExact`; the inductive invariants `BuildOK`, `HierOK`, `QueryOK`; each file format by itself | `EngineAssumption`, `WidthsAssumption` |
| `RowOrderProofs` | the external sort (`SortedInput`), and the lemmas below | none |

So every safety invariant and every action property that a passing run checks is a
theorem too, and so is the refinement of RowStore.

`RowOrderProofs` holds the lemmas about orders that answers rest on. Ascending row ids:
`Smallest` cuts a prefix of the order, `Ascending` is the one strictly increasing
listing, and cutting to n after dropping at most k members is cutting a set from
which n + k were taken; two cuts, the second above the first, make one
(`SmallestJoined`), and a part without gaps that is full or has all is a cut (`PrefixIsSmallest`).
Records: `Sorted` is the one listing of a set of (key, row) pairs without repetition in
their order, and the external sort computes it. Recursion: the library's
induction and recursion theorems take an operator as a parameter, which the
provers cannot instantiate, so `RecursionExists` states for function-valued steps what they
say for operators: a recursion whose calls lower a rank defines a function. It is proved from
the one theorem on well-founded orders that has none (`WFMin`, applied to the least rank
at which the claim fails). `WalkExists` is its case for a walk
through 1..n, and every recursive function of Postings and IndexEngine is
unfolded with one of the two; what it computes is then shown by the least n at which it does not.

Catalog. The inductive invariant is the conjunction of the five invariants. None is inductive
alone: that `CURRENT` stays on disk needs vacuum's victims to exclude `CURRENT`
until it ends, which needs nobody else to move `CURRENT` meanwhile, which needs
the lock to match its owner; that a staged id stays fresh needs the same; that a
writer's source stays current needs both, and that a renamed generation holds
its source's writes. The proof has one lemma per group of actions and conjunct,
and ends in the two action properties, which follow from the invariant in the
state before `WriteCurrent`.

LayeredRows (first part of `LayeredQueryProofs`). `Inv` adds two things to the checked invariants: `CountIsRight`,
since the overlay's row count is kept by additions and subtractions beside the
rows and must start right to stay right, and `PreparedFits`, what `prepare`
established of the pending values (a NULL only where the schema allows one),
without which applying a transaction could put a NULL into a NOT NULL column.
The core are the lemmas on what each publication does to the layers: an
applied transaction's layer holds exactly the updated and inserted rows,
the visibility map points each of them at that layer and each deleted row at no layer, and
every other row keeps its home layer and its values. From these follow both
that `Inv` is kept and that the step is the abstract table's: `Begin`,
`PrepareDelete`, `PrepareUpdate`, `PrepareInsert` and `Refuse` map to
the same steps of the abstract transaction, `Apply`, `AppendCsv` and `Compact` to
the one change of the table.

LayeredQuery. A page is exact because the rows a layer loses to the visibility
filter are at most `HiddenRows`, by which `FetchLimit` exceeds the limit; so what
survives of each layer contains the smallest `limit` of its visible matches, and
the union over layers, disjoint by `OneVersionPerRow`, contains those of the table.
The hit count is right because a layer's matches are the visible ones and the hidden
ones (`HiddenAreMatches`), and every matching row is visible in one layer.

ImportJob. `Inv` is `TypeOK`, `Outcome` and `Content`. `Outcome` relates the
record, the task, the lock and the publication (a task belongs to a record that
is queued or running and not marked safe; a process that is down runs nothing;
who builds holds the lock, and what it saw of the bucket stays so until `CURRENT` is replaced,
`BuildHoldsLock`). `Content` says for each job: a file counts as verified only with the recorded
digest (`VerifiedIsFingerprint`), and the first progress is a whole chunk (`ProgressByChunks`), so
that a creator that was refused can only add pieces after it; a resting upload is at
least as long as recorded and, if exactly so, in place (`RestingUpload`), and for
an upload being written how far it is the handler's file (`ActiveUpload`): the properties speak of
resting uploads only, and every chunk passes through the states between. Late operations need two
more: an upload found complete keeps its pieces until the record is saved, though it may grow (`CompletingUpload`), and
a `set_len` still under way goes back to a progress that was recorded when its handler ran, below
which everything is in place if that is still the progress (`PendingCuts`). All of it is under
`~lost`: a late cut that removes or zeroes anything else sets `lost`, and nothing is claimed of the
upload from then on. That the exception is needed is the counterexample of `MCImportJobZeros.cfg`.

Buckets. `TypeOK` and the exclusion of writers rest on `Typed` (what each
request's record holds at each place of its program) and `Locks` (a writer whose
directory was not removed holds its bucket's lock). `RowsKept` needs in addition,
for each bucket, that the tables in flight agree with the visible one
(`TableAgrees`, `TableHasNew`, `Overtaken`, `PublishedStays`), that row ids that
were given stay known (`IdsUsed`), that a move in flight carries what it will delete
(`MovedAreCarried`), and `KeptAreSafe`: every row that is kept and not excused is in a
place from which no writer in flight and no deletion of a move will take it. The ghost `kept`
and the exceptions of `excused` are part of the statement; each exception is one of the
effects of `remove_dir_all` under a writer listed at `RowsKept`, and a row is in
`excused` only after such a removal. The attempt to prove an earlier wording
showed that it was too strong where a writer of a removed directory goes on in the
directory that was made again: it no longer holds the lock there, and rows of the
other writer of that bucket may be lost too; runs with more events than `MCBuckets.cfg`
allows reach such states.

`CopiesAccounted` counts: `Copies` and `InFlight` are cardinalities of sets of pairs, and
`PairsAt` says what they become when the family changes at one place, as it does in
every step of one request. `CountInv` adds to `Inv` that what the writer with the lock has
staged holds each row at most as often as the visible table, plus what its request adds and less what it
deletes (`TableCounts`); that a row inserted by a transaction or an import in flight is in no bucket
and in no other request (`FreshIsNew`), for which all tables must hold only rows that were
inserted (`TablesBorn`); and that a request brings only such rows (`RequestsCount`).
`WrittenBalance` is the heart: when `CURRENT` is replaced, the copies the request adds are
added to `extra`, or come under the deletion that the move turns to, or are those of a new row;
and what a deletion does not take away goes to `extra`. The first statement of
the property, with exact sums and no exceptions, was false beyond the bounds of the run: the
ids that a move is to delete may name other rows once its source was deleted and made again
(the copies it leaves are counted where the deletion is seen to miss them, `DeletesCopied`), and
a doomed writer that goes on may bring rows back.

GenerationFiles. `Inv` says of each published directory that every name has a file
of its own (`IsDir`), that the index files are exactly those of the manifest and the
layers exactly those the overlay counts (`Complete`), that indexed columns exist
(`Fits`) and that the seal is the hash of the rest (`Sealed`); of the staging
directory that it is complete between steps; and, which is the point, that the
delta file being written is in no published directory (`DeltaIsPrivate`): the next
hierarchy number is above every number in the manifest, an index file without
an entry would be in the way, and `Create` would truncate what an older
generation reads. `SealStarts` and `SealComposes` carry the hashes from the seal of CURRENT to the
composed one.

IndexEngine. Three layers of argument. First the files, as operators: for every sorted
list of records, a file of each kind answers every key exactly (`AnswersKey`: the count,
the first `limit` rows from any row on, the intersection with any seed). `ListsAnswer` asks
of the formats that keep a key's rows together only that their bounds bracket the key, which holds for the binary
search, the dense offsets and the flat directory; `DeltaAnswers` shows that skipping
a block by the first row of the next one loses no row and that the merge with a seed
ends with the common rows; `SlicesAnswer` that a row is in the words of a key exactly if every
bit plane agrees, and that the bits beyond the last row are masked; `PagesAnswer` is the
same for pages. Second the build. `BuildOK` says that the segments hold the rows up to `rowStart`, that
less than a page is carried, and that all written pages are full unless no row
is left: `SegmentsHoldTable` alone is not inductive, since the page number of the next
segment needs the last one to have ended at a page. `HierOK` says that a spool
holds the key and page of exactly the rows written, and that the indexes are those of all the records of
the table (a prefix of the layout's list while indexes are added), of which the third layer needs
every one and not only, as `IndexesExact` says, the last. Third the answers. `GreedyCover` is
followed step by step: what it selects are indexes on columns that the predicates fix, and
each of these columns is still uncovered or in one of the selected (`PlansSelect`);
the candidate pages contain the page of every match (`PagesCovered`), since each
intersection keeps it; so each of the five routes finds the matches (`RoutesExact`). `QueryOK`
says for a streamed page that what has been returned is the matches below the cursor and is fewer than the limit, with a
cursor that is after the last row of the batch of the first index whether or not
the others kept it; one batch keeps this or ends with the page.

QueryRoutes. `Inv` says for each route what its loop has done so far. `BrowseSoFar`:
the page is the wanted rows below the cursor. `CandidatesSoFar`: the page is the first
`limit` of the wanted rows up to the cursor, and the count that of the matching ones,
since a batch is either the last or all candidates up to its largest. `RangeSoFar`:
every wanted row not on the page is at or after the head of its value's stream, every
head is above the page, and the hits, one pair for each row of each stream, are as many
as the matching rows because a row has one value. Each loop ends with a page that lacks no
row before its last and is full or has all (`PageIsFirstRows`). `WalkSoFar` says of
the pages together that they are the rows up to the cursor, those that stayed
among them: it is what makes the next page neither repeat nor skip. The
invariant is about requests that name no NULL literal (`AsksNoLiteral`); types hold for all.

## 5. What is only model-checked, and what is not modelled

- Liveness (`CallsReturn`, `EveryQueryAnswers`, `StreamsEnd`) and the absence of deadlock: model-checked only; the
  prover has no support for `ENABLED` and fairness.
- `AddIndex` builds any format that the code may choose; that each choice by size is one of
  these is not a theorem but the assumption `EngineAssumption` on the layouts.
- The properties of section 6, which the code does not have.
- Not modelled: the byte layout of files, dictionaries, token widths, checksums
  and the Parquet encoding of cold columns; CSV parsing, type inference, the
  split of large imports into parts and their resume spools; the service's
  authentication, admission, dataset cache and audit log; `tools.rs` and
  `export.rs` of the appliance; telemetry; the command line; the user interface.
- Hazards that no property covers yet are listed with a note in `PROJECT.json`.
  Beyond those, seen while reading: `.append-work-*` directories are not among the stale
  work that vacuum removes (`catalog.rs:382`); a staging directory left by a crash blocks a
  process with the same id (`catalog.rs:194`); delta layer ids grow to u32::MAX,
  whose encoding is the tombstone's (`overlay.rs:75`); a caller is told that its write failed when only
  the replacement of `CURRENT` did (`catalog.rs:234`); `docs/OPERATIONS.md:67` says that an append with missing or
  extra columns is rejected, where `append_csv_delta` extends the schema; the last save of a
  finished build is ignored when it fails (`service.rs:500`); the dataset cache
  keeps a generation open (`service.rs:662`); the Parquet importer looks for a
  dataset before it takes the lock (`parquet_import.rs:282`).
- Power loss: the code syncs files and directories before each rename; the
  models have process crashes only.

## 6. Findings

Each is a run that TLC ends with a counterexample of one property that a
document, comment or error message of the repository states:

1. `compaction` — `compact_dataset` opens its snapshot before it takes the writer
   lock; a write acknowledged in between is missing from the compacted
   generation (`compaction.rs:160`, `docs/OPERATIONS.md:133`).
2. `upload_retry` — a chunk handler that goes away between writing and saving
   leaves the file longer than the record: every later chunk is refused
   (`service.rs:971`, `docs/INGESTION.md:76`).
3. `bucket_move` — rows that are moved are copied from a snapshot and deleted in
   the source by a second transaction that only asks whether they exist: an update acknowledged in
   between is in neither bucket (`buckets.rs:596`, `docs/BUCKETS.md:50`).

`RowsKept`, which the `buckets` run passes, excuses what removing a directory under a
writer destroys (`excused`): the writes that `delete_bucket` or the cleanup of a failed combination take away
(`buckets.rs:242`, `buckets.rs:317`) are allowed by it, and it shows that nothing else is lost.

Further counterexamples are kept as configurations to run by hand; each checks
one property, which TLC finds violated:

| Command | Property | What the code does |
|---|---|---|
| `tlc -config MCCatalogLease.cfg MCCatalog.tla` | `LeasedGenerationKept` | vacuum scans leases before it takes the lock; a lease taken after the scan does not keep its generation (`snapshot.rs:119`) |
| `tlc -config MCCatalogRecovery.cfg MCCatalog.tla` | `RecoveryActivatesNewest` | recovery chooses the newest verified generation without the lock and may move `CURRENT` back below one published since (`recovery.rs:34`) |
| `tlc -config MCRowIdHistory.cfg MCRowIdHistory.tla` | `DeletedIdsStayUnused` | deleting the highest rows, compacting and inserting reuses their ids (`compaction.rs:233`, `docs/OPERATIONS.md:94`) |
| `tlc -config MCQueryRoutesNull.cfg MCQueryRoutes.tla` | `RangeRouteExact` | a narrow range over a column whose NULL literals include an integer of the range returns the rows that are NULL (`query_api.rs:509`) |
| `tlc -config MCGenerationFilesNames.cfg MCGenerationFiles.tla` | `IndexedAsNamed` | column names are looked up before the lock; after an import or a rollback with another schema the index is on other columns than the ones named (`admin.rs:268`, `admin.rs:169`) |
| `tlc -config MCImportJobSplice.cfg MCImportJob.tla` | `QueuedUploadsAreOneFile` | only the first MiB is fingerprinted: chunks of a second file that begins like the first are appended to its upload, and the mixture is imported (`service.rs:899`, `docs/INGESTION.md:74`); the client that made the job does the same with any other file (`client.ts:161`) |
| `tlc -config MCImportJobLate.cfg MCImportJob.tla` | `QueuedUploadsAreWhole` | a late write lands after `complete` compared the length, and the queued file has more bytes than declared (`service.rs:1027`) |
| `tlc -config MCImportJobZeros.cfg MCImportJob.tla` | `LengthProvesContent` | the `set_len` of a dropped handler cuts off what its retry wrote, and that of a later failing chunk fills the gap with zeros: the length is as recorded, the content is not (`service.rs:971`) |
| `tlc -config MCImportJobAdopted.cfg MCImportJob.tla` | `RetrySafeMeansAbsent` | a build that fails between the rename and `CURRENT` is recorded as safe to retry; recovering the bucket makes its generation current, and a retry imports the rows again (`service.rs:495`) |

## 7. Plan

1. Done: Catalog, RowStore, LayeredRows, RowIdHistory, LayeredQuery, QueryRoutes, ImportJob,
   Sorting, Postings, IndexEngine, GenerationFiles, Buckets; proofs of every safety property
   that their passing runs check.
2. Left: the service's dataset cache and admission; the grants and the streamed
   download of `export.rs`; the parts and spools of `segmented_import.rs`, each as a module with its proofs.
3. Left: that QueryRoutes may take its table from LayeredQuery and that one from IndexEngine,
   as compositions and not, as now, by the same property stated on both sides.
