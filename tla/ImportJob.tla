----------------------------- MODULE ImportJob -----------------------------
(***************************************************************************)
(* The resumable CSV import jobs of the HTTP service                       *)
(* (rust/src/service.rs) and the Studio client that uploads for them       *)
(* (studio/src/api/client.ts): a job record persisted as JSON, a staged    *)
(* upload file filled by sequential chunks, a background build that        *)
(* publishes the file into the job's bucket, the hourly cleanup and the    *)
(* recovery of jobs when the service starts.                               *)
(*                                                                         *)
(* An upload is a sequence of pieces, the units that one file-system write *)
(* may have made durable when its handler goes away.  A save of the job    *)
(* record is a rename of a complete temporary file: it happens or not.     *)
(***************************************************************************)
EXTENDS Naturals, Sequences, FiniteSets

CONSTANTS
    Jobs,       \* import jobs, all for one bucket
    Files,      \* files a user may select, of equal name and size
    Digests,    \* digests of the first IMPORT_FINGERPRINT_BYTES of a file
    Digest,     \* the digest of each file; files that begin alike share it
    Total,      \* bytes_total, in pieces
    ChunkLen,   \* IMPORT_CHUNK_BYTES, in pieces; covers IMPORT_FINGERPRINT_BYTES
    MaxBuilds,  \* config.max_concurrent_import_builds
    MaxLate,    \* bound on a job's file operations that outlive their handler at a time
    NoJob,      \* there is no record of the job
    NoFile,     \* there is no upload, no fingerprint, no file a byte comes from
    Idle,       \* nobody holds the job's semaphore
    Completing  \* the complete handler holds the job's semaphore

\* A piece of a file, or of the zeros that set_len fills a gap with.
Piece == (Files \cup {NoFile}) \X (1..Total)

\* A write of a piece, or a set_len to a length.
Late == (Files \X (1..Total)) \cup ({NoFile} \X (0..Total))

Modes    == {"create", "append"}
Statuses == {"uploading", "queued", "running", "complete", "failed"}
Builds   == {"none", "waiting", "running", "building", "renamed", "published"}

Record  == [mode : Modes, status : Statuses, bytes_received : 0..Total,
            file_fingerprint : Digests \cup {NoFile}, retry_safe : BOOLEAN]
Handler == [file : Files, offset : 0..Total, next : 0..Total]

ASSUME ConstantsAssumption ==
    /\ Total \in Nat \ {0} /\ ChunkLen \in Nat \ {0}
    /\ MaxBuilds \in Nat \ {0} /\ MaxLate \in Nat
    /\ Digest \in [Files -> Digests] /\ NoFile \notin Digests
    /\ NoFile \notin Files /\ NoFile \notin Seq(Piece)
    /\ NoJob \notin Record
    /\ Idle \notin Handler /\ Completing \notin Handler /\ Completing # Idle

VARIABLES
    up,        \* the service is running
    rec,       \* temp/import-jobs/<id>.json
    upload,    \* temp/studio-uploads/<id>.csv
    old,       \* updated_at_ms is more than IMPORT_JOB_MAX_AGE_MS ago
    handler,   \* the chunk or complete handler that holds the job's semaphore
    late,      \* file operations still under way whose handler was dropped
    creator,   \* the file the job was created for
    verified,  \* the files a chunk at offset 0 was answered with success for
    lost,      \* history: a late set_len took pieces that were received or being written
    build,     \* the background task of the job
    published, \* jobs whose task made its generation the bucket's CURRENT one
    left,      \* the job whose generation is the newest on disk but was not made CURRENT
    adopted,   \* jobs whose generation a recovery of the bucket made CURRENT
    ready      \* the bucket has a CURRENT generation

client == <<creator, verified>>
bucket == <<published, left, adopted, ready>>
vars   == <<up, rec, upload, old, handler, late, client, lost, build, bucket>>

TypeOK ==
    /\ up \in BOOLEAN /\ ready \in BOOLEAN
    /\ rec \in [Jobs -> Record \cup {NoJob}]
    /\ upload \in [Jobs -> {NoFile} \cup Seq(Piece)]
    /\ old \in [Jobs -> BOOLEAN] /\ lost \in [Jobs -> BOOLEAN]
    /\ handler \in [Jobs -> Handler \cup {Idle, Completing}]
    /\ late \in [Jobs -> SUBSET Late]
    /\ creator \in [Jobs -> Files \cup {NoFile}]
    /\ verified \in [Jobs -> SUBSET Files]
    /\ build \in [Jobs -> Builds]
    /\ published \subseteq Jobs /\ left \subseteq Jobs /\ adopted \subseteq Jobs

Init ==
    /\ up = TRUE
    /\ rec = [j \in Jobs |-> NoJob]
    /\ upload = [j \in Jobs |-> NoFile]
    /\ old = [j \in Jobs |-> FALSE]
    /\ handler = [j \in Jobs |-> Idle]
    /\ late = [j \in Jobs |-> {}]
    /\ creator = [j \in Jobs |-> NoFile]
    /\ verified = [j \in Jobs |-> {}]
    /\ lost = [j \in Jobs |-> FALSE]
    /\ build = [j \in Jobs |-> "none"]
    /\ published = {} /\ left = {} /\ adopted = {}
    /\ ready \in BOOLEAN

----------------------------------------------------------------------------

IsUploading(j) == rec[j] # NoJob /\ rec[j].status = "uploading"

\* metadata(upload).len() = n; there is no length without a file.
HasLength(j, n) == upload[j] # NoFile /\ Len(upload[j]) = n

\* set_len(n): what is behind n is gone, a shorter file is filled up with zeros.
Cut(u, n) == [i \in 1..n |-> IF i <= Len(u) THEN u[i] ELSE <<NoFile, i>>]

\* A saved record has a new updated_at_ms.
Save(j, r) == rec' = [rec EXCEPT ![j] = r] /\ old' = [old EXCEPT ![j] = FALSE]

\* `let _ = save_import_job(..)` and `let _ = fs::remove_file(..)`.
TrySave(j, r)  == Save(j, r) \/ UNCHANGED <<rec, old>>
TryRemove(j)   == upload' = [upload EXCEPT ![j] = NoFile] \/ UNCHANGED upload
TrySetLen(j,n) == upload' = [upload EXCEPT ![j] = Cut(@, n)] \/ UNCHANGED upload

Failed(r, safe) == [r EXCEPT !.status = "failed", !.retry_safe = safe]

Release(j) == handler' = [handler EXCEPT ![j] = Idle]

----------------------------------------------------------------------------
(* Creation and upload.                                                    *)

Create(j, mode, f) ==
    /\ up /\ rec[j] = NoJob /\ upload[j] = NoFile
    /\ ready = (mode = "append")
    /\ upload' = [upload EXCEPT ![j] = <<>>]
    /\ Save(j, [mode |-> mode, status |-> "uploading", bytes_received |-> 0,
                file_fingerprint |-> NoFile, retry_safe |-> TRUE])
    /\ creator' = [creator EXCEPT ![j] = f]
    /\ UNCHANGED <<up, handler, late, verified, lost, build, bucket>>

\* The record cannot be saved and the staged file cannot be removed again.
CreateFails(j) ==
    /\ up /\ rec[j] = NoJob /\ upload[j] = NoFile
    /\ upload' = [upload EXCEPT ![j] = <<>>]
    /\ UNCHANGED <<up, rec, old, handler, late, client, lost, build, bucket>>

\* Seeded fault: the file is identified by its name and size alone.
FingerprintUnchecked(j, f, offset) == TRUE

\* A chunk at offset 0 must begin like the file whose chunks came before: the digest is of
\* the first MiB, so that files that begin alike are not told apart.
FingerprintAccepted(j, f, offset) ==
    offset = 0 => \/ rec[j].file_fingerprint = Digest[f]
                  \/ rec[j].file_fingerprint = NoFile /\ rec[j].bytes_received = 0

\* A client that resumes sends later chunks only of a file whose chunk at offset 0 was
\* answered with success; the one that created the job goes on from the recorded progress
\* also after its chunk at offset 0 was refused.  Any request may be repeated or come late.
Sendable(j, f, offset) == offset = 0 \/ f \in verified[j] \/ f = creator[j]

\* A chunk the server already has is answered without being written.
ChunkIsDuplicate(j, f, offset) ==
    /\ up /\ handler[j] = Idle /\ IsUploading(j)
    /\ Sendable(j, f, offset) /\ FingerprintAccepted(j, f, offset)
    /\ offset < rec[j].bytes_received
    /\ verified' = [verified EXCEPT ![j] = IF offset = 0 THEN @ \cup {f} ELSE @]
    /\ UNCHANGED <<up, rec, upload, old, handler, late, creator, lost, build, bucket>>

\* The next sequential chunk: the file must be exactly as long as the recorded progress.
ChunkStart(j, f, offset) ==
    /\ up /\ handler[j] = Idle /\ IsUploading(j)
    /\ Sendable(j, f, offset) /\ FingerprintAccepted(j, f, offset)
    /\ offset = rec[j].bytes_received /\ offset < Total
    /\ HasLength(j, offset)
    /\ handler' = [handler EXCEPT ![j] = [file |-> f, offset |-> offset,
                                                      next |-> offset]]
    /\ UNCHANGED <<up, rec, upload, old, late, client, lost, build, bucket>>

\* Seeded fault: the last chunk is taken to be as long as the others.
FullChunkEnd(offset) == offset + ChunkLen

\* The bytes received after the chunk at this offset.
ChunkEnd(offset) == IF offset + ChunkLen < Total THEN offset + ChunkLen ELSE Total

Chunk(j)   == handler[j]
Writing(j) == handler[j] \notin {Idle, Completing}

WritePiece(j) ==
    /\ Writing(j) /\ Chunk(j).next < ChunkEnd(Chunk(j).offset)
    /\ upload' = [upload EXCEPT ![j] = Append(@, <<Chunk(j).file, Chunk(j).next + 1>>)]
    /\ handler' = [handler EXCEPT ![j].next = @ + 1]
    /\ UNCHANGED <<up, rec, old, late, client, lost, build, bucket>>

\* Writing, flushing, syncing or saving fails: the file is cut back, if that succeeds.
ChunkFails(j) ==
    /\ Writing(j)
    /\ TrySetLen(j, Chunk(j).offset)
    /\ Release(j)
    /\ UNCHANGED <<up, rec, old, late, client, lost, build, bucket>>

\* All is written and synced, the new progress is saved and the chunk is answered.
ChunkSaved(j) ==
    /\ Writing(j) /\ Chunk(j).next = ChunkEnd(Chunk(j).offset)
    /\ Save(j, [rec[j] EXCEPT !.bytes_received = Chunk(j).next,
                              !.file_fingerprint = IF Chunk(j).offset = 0
                                                   THEN Digest[Chunk(j).file] ELSE @])
    /\ verified' = [verified EXCEPT ![j] = IF Chunk(j).offset = 0
                                           THEN @ \cup {Chunk(j).file} ELSE @]
    /\ Release(j)
    /\ UNCHANGED <<up, upload, late, creator, lost, build, bucket>>

\* What a chunk handler may have handed to the blocking pool: the write of the next piece,
\* or the set_len after a failure.
InFlight(j) ==
    {<<NoFile, Chunk(j).offset>>} \cup
    {<<Chunk(j).file, i>> : i \in {k \in {Chunk(j).next + 1} : k <= ChunkEnd(Chunk(j).offset)}}

\* The client disconnects and the server drops the handler where it awaits the file: the
\* record is not saved, and an operation handed to the blocking pool still takes place later.
HandlerDropped(j) ==
    /\ Writing(j)
    /\ \/ UNCHANGED late
       \/ \E op \in InFlight(j) : /\ Cardinality(late[j]) < MaxLate
                                  /\ late' = [late EXCEPT ![j] = @ \cup {op}]
    /\ Release(j)
    /\ UNCHANGED <<up, rec, upload, old, client, lost, build, bucket>>

\* The upload is opened for appending; what is written after its removal is gone.
LateWrite(j) ==
    /\ \E p \in late[j] \cap Piece :
         /\ p[1] # NoFile
         /\ late' = [late EXCEPT ![j] = @ \ {p}]
         /\ upload' = [upload EXCEPT ![j] = IF @ = NoFile THEN @ ELSE Append(@, p)]
    /\ UNCHANGED <<up, rec, old, handler, client, lost, build, bucket>>

\* A set_len that lands late does what its handler wanted if nothing happened since.
CutsOnlyItsOwn(j, n) ==
    HasLength(j, n) \/ upload[j] = NoFile \/ (handler[j] = Idle /\ rec[j].bytes_received = n)

LateCut(j) ==
    /\ \E n \in 0..Total :
         /\ <<NoFile, n>> \in late[j]
         /\ late' = [late EXCEPT ![j] = @ \ {<<NoFile, n>>}]
         /\ upload' = [upload EXCEPT ![j] = IF @ = NoFile THEN @ ELSE Cut(@, n)]
         /\ lost' = [lost EXCEPT ![j] = @ \/ ~CutsOnlyItsOwn(j, n)]
    /\ UNCHANGED <<up, rec, old, handler, client, build, bucket>>

----------------------------------------------------------------------------
(* Completion and the background build.                                    *)

\* Seeded fault: the recorded progress is not compared with bytes_total.
CompleteByLength(j) ==
    /\ up /\ handler[j] = Idle /\ IsUploading(j)
    /\ HasLength(j, Total)

CompleteAccepted(j) ==
    /\ up /\ handler[j] = Idle /\ IsUploading(j)
    /\ rec[j].bytes_received = Total /\ HasLength(j, Total)

\* The length of the upload is awaited while the job's semaphore is held.
CompleteChecks(j) ==
    /\ CompleteAccepted(j)
    /\ handler' = [handler EXCEPT ![j] = Completing]
    /\ UNCHANGED <<up, rec, upload, old, late, client, lost, build, bucket>>

\* Seeded fault: the build is spawned although the record could not be saved.
CompleteAnyway(j) ==
    /\ handler[j] = Completing
    /\ TrySave(j, [rec[j] EXCEPT !.status = "queued", !.retry_safe = FALSE])
    /\ build' = [build EXCEPT ![j] = "waiting"]
    /\ Release(j)
    /\ UNCHANGED <<up, upload, late, client, lost, bucket>>

\* The job is queued durably before its build is spawned.
CompleteSaves(j) ==
    /\ handler[j] = Completing
    /\ Save(j, [rec[j] EXCEPT !.status = "queued", !.retry_safe = FALSE])
    /\ build' = [build EXCEPT ![j] = "waiting"]
    /\ Release(j)
    /\ UNCHANGED <<up, upload, late, client, lost, bucket>>

\* The save fails, or the handler is dropped while it awaits the length.
CompleteFails(j) ==
    /\ handler[j] = Completing
    /\ Release(j)
    /\ UNCHANGED <<up, rec, upload, old, late, client, lost, build, bucket>>

\* run_import_job, once one of the build permits is free.
BuildStart(j) ==
    /\ build[j] = "waiting"
    /\ Cardinality({k \in Jobs : build[k] \notin {"none", "waiting"}}) < MaxBuilds
    /\ TrySave(j, [rec[j] EXCEPT !.status = "running"])
    /\ build' = [build EXCEPT ![j] = "running"]
    /\ UNCHANGED <<up, upload, handler, late, client, lost, bucket>>

\* Seeded fault: only the job's creation looked whether the bucket has a dataset.
ModeAssumed(j) == TRUE

\* begin_generation, then the importer looks for the bucket's dataset under the lock.
ModeStillApplies(j) == ready = (rec[j].mode = "append")

LockFree == \A k \in Jobs : build[k] \notin {"building", "renamed"}

BuildLock(j) ==
    /\ build[j] = "running"
    /\ LockFree /\ ModeStillApplies(j)
    /\ build' = [build EXCEPT ![j] = "building"]
    /\ UNCHANGED <<up, rec, upload, old, handler, late, client, lost, bucket>>

\* publish_generation renames the staged generation into place ...
Rename(j) ==
    /\ build[j] = "building"
    /\ left' = {j}
    /\ build' = [build EXCEPT ![j] = "renamed"]
    /\ UNCHANGED <<up, rec, upload, old, handler, late, client, lost, published, adopted, ready>>

\* ... and makes it CURRENT.
WriteCurrent(j) ==
    /\ build[j] = "renamed"
    /\ published' = published \cup {j}
    /\ left' = {}
    /\ ready' = TRUE
    /\ build' = [build EXCEPT ![j] = "published"]
    /\ UNCHANGED <<up, rec, upload, old, handler, late, client, lost, adopted>>

BuildSucceeds(j) ==
    /\ build[j] = "published"
    /\ TryRemove(j)
    /\ TrySave(j, [rec[j] EXCEPT !.status = "complete", !.retry_safe = FALSE])
    /\ build' = [build EXCEPT ![j] = "none"]
    /\ UNCHANGED <<up, handler, late, client, lost, bucket>>

\* The bucket is gone, the writer lock is taken, the mode does not apply, the build fails
\* or CURRENT cannot be replaced.
BuildFails(j) ==
    /\ build[j] \in {"running", "building", "renamed"}
    /\ TryRemove(j)
    /\ TrySave(j, Failed(rec[j], TRUE))
    /\ build' = [build EXCEPT ![j] = "none"]
    /\ UNCHANGED <<up, handler, late, client, lost, bucket>>

\* Another writer of the bucket publishes a generation, which is the newest then.
OtherWriter ==
    /\ up /\ LockFree
    /\ ~ready \/ left # {}
    /\ ready' = TRUE /\ left' = {}
    /\ UNCHANGED <<up, rec, upload, old, handler, late, client, lost, build, published, adopted>>

\* recover_catalog makes the newest generation of the bucket CURRENT.
Recover ==
    /\ LockFree /\ left # {}
    /\ adopted' = adopted \cup left
    /\ ready' = TRUE /\ left' = {}
    /\ UNCHANGED <<up, rec, upload, old, handler, late, client, lost, build, published>>

----------------------------------------------------------------------------
(* Expiry, crash and restart.                                              *)

Age(j) ==
    /\ IsUploading(j) /\ ~old[j]
    /\ old' = [old EXCEPT ![j] = TRUE]
    /\ UNCHANGED <<up, rec, upload, handler, late, client, lost, build, bucket>>

\* cleanup_expired_import_jobs, holding the job's semaphore.
Cleanup(j) ==
    /\ up /\ handler[j] = Idle /\ rec[j] # NoJob
    /\ \/ /\ IsUploading(j) /\ old[j]
          /\ TryRemove(j)
          /\ TrySave(j, Failed(rec[j], TRUE))
       \/ /\ rec[j].status \in {"complete", "failed"}
          /\ TryRemove(j)
          /\ UNCHANGED <<rec, old>>
    /\ UNCHANGED <<up, handler, late, client, lost, build, bucket>>

\* The process dies; files and published generations stay.
Crash ==
    /\ up
    /\ up' = FALSE
    /\ handler' = [j \in Jobs |-> Idle]
    /\ late' = [j \in Jobs |-> {}]
    /\ build' = [j \in Jobs |-> "none"]
    /\ UNCHANGED <<rec, upload, old, client, lost, bucket>>

\* An upload that is not old and as long as recorded can be continued.
Resumable(j) == ~old[j] /\ HasLength(j, rec[j].bytes_received)

\* Seeded fault: an interrupted build is reported as safe to retry.
RecoveredAsSafe(j) == Failed(rec[j], TRUE)

\* recover_import_jobs: what becomes of a job that cannot go on.
Recovered(j) == Failed(rec[j], IsUploading(j))

\* serve runs recover_import_jobs before it accepts requests.
Restart ==
    /\ ~up
    /\ up' = TRUE
    /\ LET dead == {j \in Jobs : /\ rec[j] # NoJob
                                 /\ rec[j].status \in {"uploading", "queued", "running"}
                                 /\ ~(IsUploading(j) /\ Resumable(j))}
           over == {j \in Jobs : rec[j] # NoJob /\ rec[j].status \in {"complete", "failed"}}
       IN \E saved \in SUBSET dead, removed \in SUBSET (dead \cup over) :
            /\ rec' = [j \in Jobs |-> IF j \in saved THEN Recovered(j) ELSE rec[j]]
            /\ old' = [j \in Jobs |-> old[j] /\ j \notin saved]
            /\ upload' = [j \in Jobs |-> IF j \in removed THEN NoFile ELSE upload[j]]
    /\ UNCHANGED <<handler, late, client, lost, build, bucket>>

Next ==
    \/ \E j \in Jobs :
         \/ \E mode \in Modes, f \in Files : Create(j, mode, f)
         \/ CreateFails(j)
         \/ \E f \in Files, offset \in 0..Total :
              ChunkIsDuplicate(j, f, offset) \/ ChunkStart(j, f, offset)
         \/ WritePiece(j) \/ ChunkFails(j) \/ ChunkSaved(j) \/ HandlerDropped(j)
         \/ LateWrite(j) \/ LateCut(j)
         \/ CompleteChecks(j) \/ CompleteSaves(j) \/ CompleteFails(j)
         \/ BuildStart(j) \/ BuildLock(j) \/ Rename(j) \/ WriteCurrent(j)
         \/ BuildSucceeds(j) \/ BuildFails(j)
         \/ Age(j) \/ Cleanup(j)
    \/ OtherWriter \/ Recover \/ Crash \/ Restart

Spec == Init /\ [][Next]_vars

----------------------------------------------------------------------------
(* Properties.                                                             *)

\* The first n pieces of the upload are each in their place: none missing, doubled or
\* shifted, each of a file with the recorded beginning or, after the first chunk, of the
\* file the job was created for.
InPlace(j, n) ==
    \A i \in 1..n : \E f \in Files :
        /\ upload[j][i] = <<f, i>>
        /\ Digest[f] = rec[j].file_fingerprint \/ (i > ChunkLen /\ f = creator[j])

\* Resume safety (docs/INGESTION.md), as far as the code provides it: an upload that nobody
\* is writing and that is as long as its recorded progress has all its pieces in place,
\* whatever retries, clients with other files of the same name and size, dropped handlers,
\* late writes, late cuts, failed saves and restarts did before.  So it is one file if the
\* selected files differ in their first MiB and the creator's is the recorded one.  Nothing
\* is promised of an upload that a late set_len took received pieces from.
MatchingLengthMeansInPlace ==
    \A j \in Jobs :
        /\ IsUploading(j) /\ handler[j] = Idle /\ ~lost[j]
        /\ HasLength(j, rec[j].bytes_received)
        => InPlace(j, rec[j].bytes_received)

\* import_job_complete queues only uploads that have all their pieces in place, also if a
\* late write or cut lands between its look at the length and its save.  What a late write
\* appends in that gap follows the last piece.
QueuedUploadsAreInPlace ==
    [][\A j \in Jobs : IsUploading(j) /\ rec'[j].status = "queued" /\ ~lost[j] =>
          Len(upload[j]) >= Total /\ InPlace(j, Total)]_vars

\* What the record promises a client about a retry is true after crashes, restarts and
\* failed saves: while it says retry_safe, the job's task has not made its rows CURRENT and
\* no task is left that could; once it says complete, the task has.
OutcomeIsHonest ==
    \A j \in Jobs : rec[j] # NoJob =>
        /\ rec[j].retry_safe => j \notin published /\ build[j] = "none"
        /\ rec[j].status = "complete" => j \in published

\* The rows of a job are published at most once by its tasks.
BuildsAreNew ==
    \A j \in Jobs :
        build[j] \in {"waiting", "running", "building", "renamed"} => j \notin published

\* A create job never publishes over a dataset, though another create job, another writer
\* or a recovery may have filled the bucket since the job was created.
CreateFillsEmptyBucket ==
    [][\A j \in Jobs : build[j] = "renamed" /\ build'[j] = "published" =>
          ready = (rec[j].mode = "append")]_vars

----------------------------------------------------------------------------
(* Properties the code does not have; each is checked by a configuration of its own.      *)

\* docs/INGESTION.md, Resume safety: a chunk whose response is lost is safe to retry.  An
\* upload that is not expired and that nobody is writing accepts the next chunk.
NextChunkIsAccepted ==
    \A j \in Jobs :
        up /\ IsUploading(j) /\ ~old[j] /\ handler[j] = Idle /\ late[j] = {}
            => HasLength(j, rec[j].bytes_received)

\* docs/INGESTION.md, Resume safety: a different file of the same name and size is not
\* spliced onto a partial upload.  The upload that is queued is one file.
QueuedUploadsAreOneFile ==
    [][\A j \in Jobs : IsUploading(j) /\ rec'[j].status = "queued" /\ ~lost[j] =>
          \E f \in Files : \A i \in 1..Total : upload[j][i] = <<f, i>>]_vars

\* import_job_complete compares the length of the upload with bytes_total: what is queued
\* has that length, and all its pieces in place, also after a late cut.
QueuedUploadsAreWhole ==
    [][\A j \in Jobs : IsUploading(j) /\ rec'[j].status = "queued" =>
          HasLength(j, Total) /\ InPlace(j, Total)]_vars

\* The test of every chunk (service.rs: the persisted upload length must equal its recorded
\* offset) proves the content also after late cuts.
LengthProvesContent ==
    \A j \in Jobs :
        IsUploading(j) /\ handler[j] = Idle /\ HasLength(j, rec[j].bytes_received)
        => InPlace(j, rec[j].bytes_received)

\* A record that says retry_safe means that the rows are not in the bucket, however they
\* may have come there.
RetrySafeMeansAbsent ==
    \A j \in Jobs : rec[j] # NoJob /\ rec[j].retry_safe => j \notin published \cup adopted
============================================================================
