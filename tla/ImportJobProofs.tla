-------------------------- MODULE ImportJobProofs --------------------------
(***************************************************************************)
(* Proofs about the resumable import jobs, for any number of jobs, files,  *)
(* pieces, build permits and operations that outlive their handler.        *)
(***************************************************************************)
EXTENDS ImportJob, TLAPS

----------------------------------------------------------------------------
(* The inductive invariant.                                                *)

\* A process that is down runs no handler, no late operation and no task.
DownIsQuiet ==
    ~up => \A j \in Jobs : handler[j] = Idle /\ late[j] = {} /\ build[j] = "none"

\* A task belongs to a job that is queued or running, and nothing of a job is in the bucket
\* before its task: a record that is still uploading, or says that a retry is safe, has neither.
TaskMatchesRecord ==
    \A j \in Jobs :
        /\ build[j] # "none" => /\ rec[j] # NoJob
                                /\ rec[j].status \in {"queued", "running"}
                                /\ ~rec[j].retry_safe
        /\ j \in published => /\ rec[j] # NoJob
                              /\ rec[j].status # "uploading"
                              /\ ~rec[j].retry_safe
        /\ build[j] = "published" => j \in published
        /\ rec[j] # NoJob /\ rec[j].status = "complete" => j \in published

HoldsLock(j) == build[j] \in {"building", "renamed"}

\* One build holds the bucket's writer lock, and what it saw under the lock is still so.
BuildHoldsLock ==
    \A j \in Jobs : HoldsLock(j) =>
        /\ \A k \in Jobs : HoldsLock(k) => k = j
        /\ ModeStillApplies(j)

(* What is staged for one job.                                             *)

\* A file whose beginning was verified has the recorded digest.
VerifiedIsFingerprint(j) ==
    \A f \in verified[j] : rec[j] # NoJob /\ rec[j].file_fingerprint = Digest[f]

\* Without progress there is no fingerprint, and the first progress is a whole chunk.
ProgressByChunks(j) ==
    rec[j] # NoJob =>
        /\ rec[j].bytes_received = 0 => rec[j].file_fingerprint = NoFile
        /\ rec[j].bytes_received \in {0, Total} \/ rec[j].bytes_received >= ChunkLen

\* An upload that nobody is writing is longer than recorded, or exactly right.
RestingUpload(j) ==
    IsUploading(j) /\ handler[j] = Idle /\ upload[j] # NoFile /\ ~lost[j] =>
        LET received == rec[j].bytes_received
        IN /\ Len(upload[j]) >= received
           /\ Len(upload[j]) = received => InPlace(j, received)

\* The file of a handler is one whose chunk may be appended.
MayAppend(j, f, offset) ==
    \/ rec[j].file_fingerprint = Digest[f]
    \/ offset = 0 /\ rec[j].file_fingerprint = NoFile
    \/ offset # 0 /\ f = creator[j]

\* The pieces after the first n, up to m, are those of a file.
WrittenOf(j, f, n, m) == \A i \in (n + 1)..m : upload[j][i] = <<f, i>>

\* A handler writes after what is recorded, which is right, and unless a late operation came
\* between what it has written so far is its file's.
ActiveUpload(j) ==
    Writing(j) =>
        LET h == handler[j]
        IN /\ IsUploading(j) /\ rec[j].bytes_received = h.offset
           /\ MayAppend(j, h.file, h.offset)
           /\ h.offset < Total /\ h.offset <= h.next /\ h.next <= ChunkEnd(h.offset)
           /\ upload[j] # NoFile
           /\ ~lost[j] => /\ Len(upload[j]) >= h.next
                          /\ InPlace(j, h.offset)
                          /\ Len(upload[j]) = h.next => WrittenOf(j, h.file, h.offset, h.next)

\* While the upload is being completed it keeps the pieces it had when its length was right.
CompletingUpload(j) ==
    handler[j] = Completing =>
        /\ IsUploading(j) /\ rec[j].bytes_received = Total /\ upload[j] # NoFile
        /\ ~lost[j] => Len(upload[j]) >= Total /\ InPlace(j, Total)

\* A cut that is still under way goes back to a recorded progress, which was right.
PendingCuts(j) ==
    \A n \in 0..Total : <<NoFile, n>> \in late[j] =>
        /\ rec[j] # NoJob /\ n < Total /\ n <= rec[j].bytes_received
        /\ IsUploading(j) /\ upload[j] # NoFile /\ ~lost[j] /\ n = rec[j].bytes_received =>
             Len(upload[j]) >= n /\ InPlace(j, n)

Staged(j) ==
    /\ VerifiedIsFingerprint(j) /\ ProgressByChunks(j)
    /\ RestingUpload(j) /\ ActiveUpload(j) /\ CompletingUpload(j) /\ PendingCuts(j)

Outcome == DownIsQuiet /\ TaskMatchesRecord /\ BuildsAreNew /\ BuildHoldsLock
Content == \A j \in Jobs : Staged(j)
Inv     == TypeOK /\ Outcome /\ Content

----------------------------------------------------------------------------
(* Types.                                                                  *)

USE ConstantsAssumption DEF client, bucket

(* No job exists at first.                                                 *)
LEMMA InitTyped == Init => TypeOK
  BY DEF Init, TypeOK, Builds

(* The records that are saved.                                             *)
Queued(r)    == [r EXCEPT !.status = "queued", !.retry_safe = FALSE]
Started(r)   == [r EXCEPT !.status = "running"]
Completed(r) == [r EXCEPT !.status = "complete", !.retry_safe = FALSE]
FailedSafely(r)   == Failed(r, TRUE)
FailedUnsafely(r) == Failed(r, FALSE)
Progressed(r, n, f) == [r EXCEPT !.bytes_received = n, !.file_fingerprint = f]

\* The records the handlers save: their status, mode and retry_safe, and what they leave alone.
LEMMA SavedRecords ==
    ASSUME NEW r \in Record
    PROVE  /\ Queued(r) \in Record /\ Queued(r).status = "queued" /\ ~Queued(r).retry_safe
           /\ Started(r) \in Record /\ Started(r).status = "running"
           /\ Started(r).retry_safe = r.retry_safe
           /\ Completed(r) \in Record /\ Completed(r).status = "complete" /\ ~Completed(r).retry_safe
           /\ FailedSafely(r) \in Record /\ FailedSafely(r).status = "failed"
           /\ FailedUnsafely(r) \in Record /\ FailedUnsafely(r).status = "failed"
           /\ ~FailedUnsafely(r).retry_safe
           /\ Queued(r).mode = r.mode /\ Started(r).mode = r.mode /\ Completed(r).mode = r.mode
           /\ FailedSafely(r).mode = r.mode
           /\ \A q \in {Queued(r), Started(r), Completed(r), FailedSafely(r), FailedUnsafely(r)} :
                /\ q.bytes_received = r.bytes_received
                /\ q.file_fingerprint = r.file_fingerprint
  BY DEF Record, Statuses, Queued, Started, Completed, Failed, FailedSafely, FailedUnsafely

(* A record whose progress is saved keeps its status, mode and retry_safe. *)
LEMMA ProgressedRecord ==
    ASSUME NEW r \in Record, NEW n \in 0..Total, NEW f \in Digests \cup {NoFile}
    PROVE  /\ Progressed(r, n, f) \in Record
           /\ Progressed(r, n, f).status = r.status /\ Progressed(r, n, f).mode = r.mode
           /\ Progressed(r, n, f).retry_safe = r.retry_safe
           /\ Progressed(r, n, f).bytes_received = n /\ Progressed(r, n, f).file_fingerprint = f
  BY DEF Record, Progressed

(* A handler that has written one more piece.                              *)
Advanced(h) == [h EXCEPT !.next = @ + 1]

\* A handler that has written a piece is one piece further in the same file.
LEMMA AdvancedHandler ==
    ASSUME NEW h \in Handler, h.next + 1 \in 0..Total
    PROVE  /\ Advanced(h) \in Handler /\ Advanced(h).file = h.file
           /\ Advanced(h).offset = h.offset /\ Advanced(h).next = h.next + 1
  BY DEF Handler, Advanced

\* What each step does to the job's file, by the name of the record it saves.
LEMMA SavedFiles ==
    ASSUME NEW j \in Jobs
    PROVE  /\ CompleteSaves(j) => Save(j, Queued(rec[j]))
           /\ BuildStart(j) => TrySave(j, Started(rec[j]))
           /\ BuildSucceeds(j) => TrySave(j, Completed(rec[j]))
           /\ BuildFails(j) => TrySave(j, FailedSafely(rec[j]))
           /\ Cleanup(j) => \/ IsUploading(j) /\ TrySave(j, FailedSafely(rec[j]))
                            \/ UNCHANGED <<rec, old>>
           /\ ChunkSaved(j) =>
                LET first == Chunk(j).offset = 0
                IN Save(j, Progressed(rec[j], Chunk(j).next,
                                      IF first THEN Digest[Chunk(j).file]
                                      ELSE rec[j].file_fingerprint))
  BY DEF CompleteSaves, BuildStart, BuildSucceeds, BuildFails, ChunkSaved, Cleanup,
         Queued, Started, Completed, FailedSafely, Progressed

(* At startup an upload may be repeated, a build may not.                  *)
LEMMA RecoveredRecord ==
    ASSUME NEW j \in Jobs
    PROVE  Recovered(j) = IF IsUploading(j) THEN FailedSafely(rec[j]) ELSE FailedUnsafely(rec[j])
  BY DEF Recovered, FailedSafely, FailedUnsafely, Failed, IsUploading

(* A chunk ends within the file and has at least one piece.                *)
LEMMA ChunkEnds ==
    ASSUME NEW offset \in 0..Total, offset < Total
    PROVE  ChunkEnd(offset) \in 0..Total /\ offset < ChunkEnd(offset)
  BY DEF ChunkEnd

(* A saved record is one more record.                                      *)
LEMMA SaveTyped ==
    ASSUME TypeOK, NEW j \in Jobs, NEW r \in Record, TrySave(j, r)
    PROVE  rec' \in [Jobs -> Record \cup {NoJob}] /\ old' \in [Jobs -> BOOLEAN]
  <1>1. CASE Save(j, r)
    <2>1. rec' \in [Jobs -> Record \cup {NoJob}]
      BY <1>1 DEF TypeOK, Save
    <2>2. old' \in [Jobs -> BOOLEAN]
      BY <1>1 DEF TypeOK, Save
    <2>3. QED BY <2>1, <2>2
  <1>2. CASE UNCHANGED <<rec, old>>
    BY <1>2 DEF TypeOK
  <1>3. QED BY <1>1, <1>2 DEF TrySave

(* What set_len leaves of an upload.                                       *)
LEMMA CutUpload ==
    ASSUME NEW u \in Seq(Piece), NEW n \in 0..Total
    PROVE  /\ Cut(u, n) \in Seq(Piece)
           /\ Len(Cut(u, n)) = n
           /\ \A i \in 1..n : i <= Len(u) => Cut(u, n)[i] = u[i]
           /\ Cut(u, n) # NoFile
  <1>1. \A i \in 1..n : (IF i <= Len(u) THEN u[i] ELSE <<NoFile, i>>) \in Piece
    <2> TAKE i \in 1..n
    <2>1. CASE i <= Len(u)
      BY <2>1
    <2>2. CASE ~(i <= Len(u))
      BY <2>2 DEF Piece
    <2>3. QED BY <2>1, <2>2
  <1>2. Cut(u, n) \in [1..n -> Piece]
    BY <1>1 DEF Cut
  <1>3. Cut(u, n) \in Seq(Piece) /\ Len(Cut(u, n)) = n
    BY <1>2
  <1>4. QED BY <1>3 DEF Cut

(* A piece that is written comes after those that are there.               *)
LEMMA AppendPiece ==
    ASSUME NEW u \in Seq(Piece), NEW p \in Piece
    PROVE  /\ Append(u, p) \in Seq(Piece)
           /\ Len(Append(u, p)) = Len(u) + 1
           /\ \A i \in 1..Len(u) : Append(u, p)[i] = u[i]
           /\ Append(u, p)[Len(u) + 1] = p
  OBVIOUS

\* Whether or not the staged file can be removed, what is left has its type.
LEMMA RemoveTyped ==
    ASSUME TypeOK, NEW j \in Jobs, TryRemove(j)
    PROVE  upload' \in [Jobs -> {NoFile} \cup Seq(Piece)]
  BY DEF TypeOK, TryRemove

(* A handler writes pieces and sends cuts that have their types.           *)
LEMMA InFlightTyped ==
    ASSUME TypeOK, NEW j \in Jobs, Writing(j), NEW op \in InFlight(j), Chunk(j).offset < Total
    PROVE  op \in Late /\ (op[1] = NoFile => op = <<NoFile, Chunk(j).offset>>)
  <1>1. handler[j] \in Handler
    BY DEF TypeOK, Writing
  <1>2. Chunk(j).offset \in 0..Total /\ Chunk(j).next \in 0..Total /\ Chunk(j).file \in Files
    BY <1>1 DEF Chunk, Handler
  <1>3. ChunkEnd(Chunk(j).offset) \in 0..Total
    BY <1>2, ChunkEnds
  <1>4. CASE op = <<NoFile, Chunk(j).offset>>
    BY <1>2, <1>4 DEF Late
  <1>5. ASSUME NEW i \in {k \in {Chunk(j).next + 1} : k <= ChunkEnd(Chunk(j).offset)},
               op = <<Chunk(j).file, i>>
        PROVE  op \in Late /\ (op[1] = NoFile => op = <<NoFile, Chunk(j).offset>>)
    <2>1. i \in 1..Total
      BY <1>2, <1>3
    <2>2. QED BY <1>2, <1>5, <2>1 DEF Late
  <1>6. QED BY <1>4, <1>5 DEF InFlight

(* Every step keeps every variable in its type.                            *)
LEMMA NextTyped ==
    ASSUME Inv, [Next]_vars
    PROVE  TypeOK'
  <1> USE DEF Inv
  <1>1. ASSUME NEW j \in Jobs, NEW mode \in Modes, NEW f \in Files, Create(j, mode, f)
        PROVE TypeOK'
    <2>1. [mode |-> mode, status |-> "uploading", bytes_received |-> 0,
           file_fingerprint |-> NoFile, retry_safe |-> TRUE] \in Record
      BY DEF Record, Statuses
    <2>2. <<>> \in Seq(Piece)
      OBVIOUS
    <2>3. QED BY <1>1, <2>1, <2>2 DEF TypeOK, Create, Save
  <1>2. ASSUME NEW j \in Jobs, CreateFails(j) PROVE TypeOK'
    <2>1. <<>> \in Seq(Piece)
      OBVIOUS
    <2>2. QED BY <1>2, <2>1 DEF TypeOK, CreateFails
  <1>3. ASSUME NEW j \in Jobs, NEW f \in Files, NEW offset \in 0..Total,
               ChunkIsDuplicate(j, f, offset)
        PROVE TypeOK'
    BY <1>3 DEF TypeOK, ChunkIsDuplicate
  <1>4. ASSUME NEW j \in Jobs, NEW f \in Files, NEW offset \in 0..Total, ChunkStart(j, f, offset)
        PROVE TypeOK'
    BY <1>4 DEF TypeOK, ChunkStart, Handler
  <1>5. ASSUME NEW j \in Jobs, WritePiece(j) PROVE TypeOK'
    <2>1. handler[j] \in Handler /\ handler[j].next \in 0..(Total - 1)
      BY <1>5, ChunkEnds DEF TypeOK, WritePiece, Writing, Chunk, Handler, Content, Staged, ActiveUpload
    <2>2. <<Chunk(j).file, Chunk(j).next + 1>> \in Piece
      BY <2>1 DEF Piece, Chunk, Handler
    <2>3. upload[j] \in Seq(Piece)
      BY <1>5 DEF TypeOK, WritePiece, Writing, Content, Staged, ActiveUpload
    <2>4. upload' \in [Jobs -> {NoFile} \cup Seq(Piece)]
      BY <1>5, <2>2, <2>3, AppendPiece DEF TypeOK, WritePiece
    <2>5. handler' \in [Jobs -> Handler \cup {Idle, Completing}]
      BY <1>5, <2>1 DEF TypeOK, WritePiece, Handler
    <2>6. QED BY <1>5, <2>4, <2>5 DEF TypeOK, WritePiece
  <1>6. ASSUME NEW j \in Jobs, ChunkFails(j) PROVE TypeOK'
    <2>1. upload[j] \in Seq(Piece) /\ handler[j].offset \in 0..Total
      BY <1>6 DEF TypeOK, ChunkFails, Writing, Handler, Content, Staged, ActiveUpload
    <2>2. Cut(upload[j], handler[j].offset) \in Seq(Piece)
      BY <2>1, CutUpload
    <2>3. upload' \in [Jobs -> {NoFile} \cup Seq(Piece)]
      BY <1>6, <2>2 DEF TypeOK, ChunkFails, TrySetLen, Chunk
    <2>4. QED BY <1>6, <2>3 DEF TypeOK, ChunkFails, Release
  <1>7. ASSUME NEW j \in Jobs, ChunkSaved(j) PROVE TypeOK'
    <2>1. rec[j] \in Record /\ handler[j] \in Handler
      BY <1>7 DEF TypeOK, ChunkSaved, Writing, Content, Staged, ActiveUpload, IsUploading
    <2>2. /\ Chunk(j).next \in 0..Total
          /\ (IF Chunk(j).offset = 0 THEN Digest[Chunk(j).file] ELSE rec[j].file_fingerprint)
                \in Digests \cup {NoFile}
      BY <2>1 DEF Chunk, Handler, Record
    <2>3. rec' \in [Jobs -> Record \cup {NoJob}] /\ old' \in [Jobs -> BOOLEAN]
      BY <1>7, <2>1, <2>2, SavedFiles, ProgressedRecord, SaveTyped DEF TrySave
    <2>4. verified' \in [Jobs -> SUBSET Files]
      BY <1>7, <2>1 DEF TypeOK, ChunkSaved, Chunk, Handler
    <2>5. QED BY <1>7, <2>3, <2>4 DEF TypeOK, ChunkSaved, Release
  <1>8. ASSUME NEW j \in Jobs, HandlerDropped(j) PROVE TypeOK'
    <2>1. Writing(j) /\ Chunk(j).offset < Total
      BY <1>8 DEF HandlerDropped, Chunk, Content, Staged, ActiveUpload
    <2>2. \A op \in InFlight(j) : op \in Late
      BY <2>1, InFlightTyped
    <2>3. late' \in [Jobs -> SUBSET Late]
      BY <1>8, <2>2 DEF TypeOK, HandlerDropped
    <2>4. QED BY <1>8, <2>3 DEF TypeOK, HandlerDropped, Release
  <1>9. ASSUME NEW j \in Jobs, LateWrite(j) PROVE TypeOK'
    <2>1. PICK p \in late[j] \cap Piece :
            /\ late' = [late EXCEPT ![j] = @ \ {p}]
            /\ upload' = [upload EXCEPT ![j] = IF @ = NoFile THEN @ ELSE Append(@, p)]
      BY <1>9 DEF LateWrite
    <2>2. upload[j] # NoFile => Append(upload[j], p) \in Seq(Piece)
      BY AppendPiece DEF TypeOK
    <2>3. upload' \in [Jobs -> {NoFile} \cup Seq(Piece)] /\ late' \in [Jobs -> SUBSET Late]
      BY <2>1, <2>2 DEF TypeOK
    <2>4. QED BY <1>9, <2>3 DEF TypeOK, LateWrite
  <1>10. ASSUME NEW j \in Jobs, LateCut(j) PROVE TypeOK'
    <2>1. PICK n \in 0..Total :
            /\ late' = [late EXCEPT ![j] = @ \ {<<NoFile, n>>}]
            /\ upload' = [upload EXCEPT ![j] = IF @ = NoFile THEN @ ELSE Cut(@, n)]
            /\ lost' = [lost EXCEPT ![j] = @ \/ ~CutsOnlyItsOwn(j, n)]
      BY <1>10 DEF LateCut
    <2>2. upload[j] # NoFile => Cut(upload[j], n) \in Seq(Piece)
      BY CutUpload DEF TypeOK
    <2>3. upload' \in [Jobs -> {NoFile} \cup Seq(Piece)] /\ late' \in [Jobs -> SUBSET Late]
      BY <2>1, <2>2 DEF TypeOK
    <2>4. lost' \in [Jobs -> BOOLEAN]
      <3>1. (lost[j] \/ ~CutsOnlyItsOwn(j, n)) \in BOOLEAN
        OBVIOUS
      <3>2. QED BY <2>1, <3>1 DEF TypeOK
    <2>5. QED BY <1>10, <2>3, <2>4 DEF TypeOK, LateCut
  <1>21. ASSUME NEW j \in Jobs, CompleteChecks(j) \/ CompleteFails(j) PROVE TypeOK'
    BY <1>21 DEF TypeOK, CompleteChecks, CompleteFails, Release
  <1>22. ASSUME NEW j \in Jobs, CompleteSaves(j) PROVE TypeOK'
    <2>1. rec[j] \in Record
      BY <1>22 DEF TypeOK, CompleteSaves, Content, Staged, CompletingUpload, IsUploading
    <2>2. rec' \in [Jobs -> Record \cup {NoJob}] /\ old' \in [Jobs -> BOOLEAN]
      BY <1>22, <2>1, SavedFiles, SavedRecords, SaveTyped DEF TrySave
    <2>3. QED BY <1>22, <2>2 DEF TypeOK, CompleteSaves, Release, Builds
  <1>11. ASSUME NEW j \in Jobs, BuildStart(j) PROVE TypeOK'
    <2>1. rec[j] \in Record
      BY <1>11 DEF TypeOK, BuildStart, Outcome, TaskMatchesRecord
    <2>2. rec' \in [Jobs -> Record \cup {NoJob}] /\ old' \in [Jobs -> BOOLEAN]
      BY <1>11, <2>1, SavedFiles, SavedRecords, SaveTyped
    <2>3. QED BY <1>11, <2>2 DEF TypeOK, BuildStart, Builds
  <1>12. ASSUME NEW j \in Jobs, BuildLock(j) \/ Rename(j) \/ WriteCurrent(j) PROVE TypeOK'
    BY <1>12 DEF TypeOK, BuildLock, Rename, WriteCurrent, Builds
  <1>13. ASSUME NEW j \in Jobs, BuildSucceeds(j) \/ BuildFails(j) PROVE TypeOK'
    <2>1. rec[j] \in Record
      BY <1>13 DEF TypeOK, BuildSucceeds, BuildFails, Outcome, TaskMatchesRecord
    <2>2. rec' \in [Jobs -> Record \cup {NoJob}] /\ old' \in [Jobs -> BOOLEAN]
      BY <1>13, <2>1, SavedFiles, SavedRecords, SaveTyped
    <2>3. QED BY <1>13, <2>2, RemoveTyped DEF TypeOK, BuildSucceeds, BuildFails, Builds
  <1>14. ASSUME NEW j \in Jobs, Age(j) PROVE TypeOK'
    BY <1>14 DEF TypeOK, Age
  <1>15. ASSUME NEW j \in Jobs, Cleanup(j) PROVE TypeOK'
    <2>1. FailedSafely(rec[j]) \in Record
      BY <1>15, SavedRecords DEF TypeOK, Cleanup
    <2>2. rec' \in [Jobs -> Record \cup {NoJob}] /\ old' \in [Jobs -> BOOLEAN]
      BY <1>15, <2>1, SavedFiles, SaveTyped DEF TypeOK
    <2>3. QED BY <1>15, <2>2, RemoveTyped DEF TypeOK, Cleanup
  <1>16. CASE OtherWriter \/ Recover
    BY <1>16 DEF TypeOK, OtherWriter, Recover
  <1>17. CASE Crash
    BY <1>17 DEF TypeOK, Crash, Builds
  <1>18. CASE Restart
    <2>1. \A j \in Jobs : rec[j] # NoJob => Recovered(j) \in Record
      BY SavedRecords, RecoveredRecord DEF TypeOK
    <2>2. rec' \in [Jobs -> Record \cup {NoJob}]
      BY <1>18, <2>1 DEF TypeOK, Restart
    <2>3. old' \in [Jobs -> BOOLEAN] /\ upload' \in [Jobs -> {NoFile} \cup Seq(Piece)]
      BY <1>18 DEF TypeOK, Restart
    <2>4. QED BY <1>18, <2>2, <2>3 DEF TypeOK, Restart
  <1>19. CASE UNCHANGED vars
    BY <1>19 DEF TypeOK, vars
  <1>20. QED
    BY <1>1, <1>2, <1>3, <1>4, <1>5, <1>6, <1>7, <1>8, <1>9, <1>10, <1>11, <1>12, <1>13, <1>14,
       <1>15, <1>16, <1>17, <1>18, <1>19, <1>21, <1>22 DEF Next

----------------------------------------------------------------------------
(* What the record says and what becomes of the job's rows.                *)

(* Steps of the upload: no task runs, and the record keeps what it says.   *)
LEMMA UploadStepsKeepOutcome ==
    ASSUME Inv, up,
           \A k \in Jobs : /\ (rec'[k] = NoJob) <=> (rec[k] = NoJob)
                           /\ rec[k] # NoJob => /\ rec'[k].status = rec[k].status
                                                /\ rec'[k].mode = rec[k].mode
                                                /\ rec'[k].retry_safe = rec[k].retry_safe,
           UNCHANGED <<up, build, published, ready>>
    PROVE  Outcome'
  <1>1. DownIsQuiet' /\ BuildsAreNew'
    BY DEF Inv, Outcome, DownIsQuiet, BuildsAreNew
  <1>2. TaskMatchesRecord'
    BY DEF Inv, Outcome, TaskMatchesRecord
  <1>3. BuildHoldsLock'
    BY DEF Inv, Outcome, BuildHoldsLock, HoldsLock, ModeStillApplies, TaskMatchesRecord
  <1>4. QED BY <1>1, <1>2, <1>3 DEF Outcome

(* The record of a job without a task, whose rows are not in the bucket,   *)
(* is written.                                                             *)
LEMMA IdleRecordKeepsOutcome ==
    ASSUME Inv, NEW j \in Jobs, NEW r \in Record, TrySave(j, r), up,
           build[j] = "none", j \notin published, r.status # "complete",
           UNCHANGED <<up, build, published, ready>>
    PROVE  Outcome'
  <1>1. \A k \in Jobs \ {j} : rec'[k] = rec[k]
    BY DEF TrySave, Save, Inv, TypeOK
  <1>2. rec'[j] = r \/ rec'[j] = rec[j]
    BY DEF TrySave, Save, Inv, TypeOK
  <1>3. DownIsQuiet' /\ BuildsAreNew'
    BY DEF Inv, Outcome, DownIsQuiet, BuildsAreNew
  <1>4. TaskMatchesRecord'
    BY <1>1, <1>2 DEF Inv, Outcome, TaskMatchesRecord
  <1>5. BuildHoldsLock'
    BY <1>1 DEF Inv, Outcome, BuildHoldsLock, HoldsLock, ModeStillApplies
  <1>6. QED BY <1>3, <1>4, <1>5 DEF Outcome

(* The task of one job takes a step that ends in another state of the task. *)
LEMMA TaskStepsKeepOutcome ==
    ASSUME Inv, NEW j \in Jobs,
           CompleteSaves(j) \/ BuildStart(j) \/ BuildLock(j) \/ Rename(j) \/ WriteCurrent(j)
             \/ BuildSucceeds(j) \/ BuildFails(j)
    PROVE  Outcome'
  <1> USE DEF Inv, Outcome
  <1>1. up /\ UNCHANGED up
    BY DEF CompleteSaves, BuildStart, BuildLock, Rename, WriteCurrent, BuildSucceeds, BuildFails,
           DownIsQuiet
  <1>2. rec[j] # NoJob /\ rec[j] \in Record
    BY DEF TypeOK, CompleteSaves, Content, Staged, CompletingUpload, IsUploading, BuildStart,
           BuildLock, Rename, WriteCurrent, BuildSucceeds, BuildFails, TaskMatchesRecord
  <1>3. \A k \in Jobs \ {j} : rec'[k] = rec[k] /\ build'[k] = build[k]
    BY DEF TypeOK, CompleteSaves, BuildStart, BuildLock, Rename, WriteCurrent, BuildSucceeds, BuildFails, TrySave, Save
  <1>4. \A k \in Jobs \ {j} : (k \in published') <=> (k \in published)
    BY DEF TypeOK, CompleteSaves, BuildStart, BuildLock, Rename, WriteCurrent, BuildSucceeds, BuildFails
  <1>5. DownIsQuiet'
    BY <1>1 DEF DownIsQuiet
  <1>6. rec'[j] # NoJob /\ rec'[j].mode = rec[j].mode
    BY <1>2, SavedFiles, SavedRecords DEF TypeOK, TrySave, Save, BuildLock, Rename, WriteCurrent
  <1>7. CASE CompleteSaves(j)
    <2>0. rec'[j] = Queued(rec[j])
      BY <1>7, SavedFiles DEF Save, TypeOK
    <2>1. /\ rec'[j].status = "queued" /\ ~rec'[j].retry_safe
          /\ build'[j] = "waiting" /\ j \notin published'
      <3>1. rec'[j].status = "queued" /\ ~rec'[j].retry_safe
        BY <1>2, <2>0, SavedRecords
      <3>2. build'[j] = "waiting" /\ j \notin published'
        BY <1>7 DEF CompleteSaves, Content, Staged, CompletingUpload, IsUploading, TypeOK,
                    TaskMatchesRecord
      <3>3. QED BY <3>1, <3>2
    <2>2. TaskMatchesRecord' /\ BuildsAreNew'
      BY <1>3, <1>4, <1>6, <2>1 DEF TaskMatchesRecord, BuildsAreNew
    <2>3. BuildHoldsLock'
      BY <1>3, <1>7, <2>1 DEF BuildHoldsLock, HoldsLock, ModeStillApplies, CompleteSaves
    <2>4. QED BY <1>5, <2>2, <2>3
  <1>8. CASE BuildStart(j)
    <2>0. rec'[j] = Started(rec[j]) \/ rec'[j] = rec[j]
      BY <1>8, SavedFiles DEF TrySave, Save, TypeOK
    <2>1. /\ rec'[j].status \in {"queued", "running"} /\ ~rec'[j].retry_safe
          /\ build'[j] = "running" /\ j \notin published'
      <3>1. rec[j].status \in {"queued", "running"} /\ ~rec[j].retry_safe
        BY <1>8 DEF BuildStart, TaskMatchesRecord
      <3>2. rec'[j].status \in {"queued", "running"} /\ ~rec'[j].retry_safe
        BY <1>2, <2>0, <3>1, SavedRecords
      <3>3. build'[j] = "running" /\ j \notin published'
        BY <1>8 DEF BuildStart, TypeOK, BuildsAreNew
      <3>4. QED BY <3>2, <3>3
    <2>2. TaskMatchesRecord' /\ BuildsAreNew'
      BY <1>3, <1>4, <1>6, <2>1 DEF TaskMatchesRecord, BuildsAreNew
    <2>3. BuildHoldsLock'
      BY <1>3, <1>8, <2>1 DEF BuildHoldsLock, HoldsLock, ModeStillApplies, BuildStart
    <2>4. QED BY <1>5, <2>2, <2>3
  <1>9. CASE BuildLock(j)
    <2>1. build'[j] = "building" /\ UNCHANGED <<rec, published, ready>>
      BY <1>9 DEF BuildLock, TypeOK
    <2>2. TaskMatchesRecord' /\ BuildsAreNew'
      BY <1>3, <1>9, <2>1 DEF TaskMatchesRecord, BuildsAreNew, BuildLock
    <2>3. BuildHoldsLock'
      BY <1>3, <1>9, <2>1 DEF BuildHoldsLock, HoldsLock, ModeStillApplies, BuildLock, LockFree
    <2>4. QED BY <1>5, <2>2, <2>3
  <1>10. CASE WriteCurrent(j)
    <2>1. build'[j] = "published" /\ j \in published' /\ UNCHANGED rec
      BY <1>10 DEF WriteCurrent, TypeOK
    <2>2. TaskMatchesRecord' /\ BuildsAreNew'
      BY <1>3, <1>4, <1>10, <2>1 DEF TaskMatchesRecord, BuildsAreNew, WriteCurrent
    <2>3. BuildHoldsLock'
      BY <1>3, <1>10, <2>1 DEF BuildHoldsLock, HoldsLock, WriteCurrent
    <2>4. QED BY <1>5, <2>2, <2>3
  <1>14. CASE Rename(j)
    <2>1. build'[j] = "renamed" /\ UNCHANGED <<rec, published, ready>>
      BY <1>14 DEF Rename, TypeOK
    <2>2. TaskMatchesRecord' /\ BuildsAreNew'
      BY <1>3, <1>14, <2>1 DEF TaskMatchesRecord, BuildsAreNew, Rename
    <2>3. BuildHoldsLock'
      BY <1>3, <1>14, <2>1 DEF BuildHoldsLock, HoldsLock, ModeStillApplies, Rename
    <2>4. QED BY <1>5, <2>2, <2>3
  <1>11. CASE BuildSucceeds(j)
    <2>0. rec'[j] = Completed(rec[j]) \/ rec'[j] = rec[j]
      BY <1>11, SavedFiles DEF TrySave, Save, TypeOK
    <2>1. /\ ~rec'[j].retry_safe /\ rec'[j].status # "uploading"
          /\ build'[j] = "none" /\ j \in published'
      <3>1. rec[j].status # "uploading" /\ ~rec[j].retry_safe /\ j \in published
        BY <1>11 DEF BuildSucceeds, TaskMatchesRecord
      <3>2. ~rec'[j].retry_safe /\ rec'[j].status # "uploading"
        BY <1>2, <2>0, <3>1, SavedRecords
      <3>3. build'[j] = "none" /\ j \in published'
        BY <1>11, <3>1 DEF BuildSucceeds, TypeOK
      <3>4. QED BY <3>2, <3>3
    <2>2. TaskMatchesRecord' /\ BuildsAreNew'
      BY <1>3, <1>4, <1>6, <2>1 DEF TaskMatchesRecord, BuildsAreNew
    <2>3. BuildHoldsLock'
      BY <1>3, <1>11, <2>1 DEF BuildHoldsLock, HoldsLock, ModeStillApplies, BuildSucceeds
    <2>4. QED BY <1>5, <2>2, <2>3
  <1>12. CASE BuildFails(j)
    <2>0. rec'[j] = FailedSafely(rec[j]) \/ rec'[j] = rec[j]
      BY <1>12, SavedFiles DEF TrySave, Save, TypeOK
    <2>1. /\ rec'[j].status # "complete" /\ build'[j] = "none" /\ j \notin published'
      <3>1. rec[j].status # "complete" /\ j \notin published
        BY <1>12 DEF BuildFails, TaskMatchesRecord, BuildsAreNew
      <3>2. rec'[j].status # "complete"
        BY <1>2, <2>0, <3>1, SavedRecords
      <3>3. build'[j] = "none" /\ j \notin published'
        BY <1>12, <3>1 DEF BuildFails, TypeOK
      <3>4. QED BY <3>2, <3>3
    <2>2. TaskMatchesRecord' /\ BuildsAreNew'
      BY <1>3, <1>4, <1>6, <2>1 DEF TaskMatchesRecord, BuildsAreNew
    <2>3. BuildHoldsLock'
      BY <1>3, <1>12, <2>1 DEF BuildHoldsLock, HoldsLock, ModeStillApplies, BuildFails
    <2>4. QED BY <1>5, <2>2, <2>3
  <1>13. QED BY <1>7, <1>8, <1>9, <1>10, <1>11, <1>12, <1>14

\* No step makes a record dishonest about its build, or two builds of one attempt.
LEMMA NextKeepsOutcome ==
    ASSUME Inv, [Next]_vars
    PROVE  Outcome'
  <1>1. ASSUME NEW j \in Jobs, NEW mode \in Modes, NEW f \in Files, Create(j, mode, f)
        PROVE Outcome'
    <2>1. [mode |-> mode, status |-> "uploading", bytes_received |-> 0,
           file_fingerprint |-> NoFile, retry_safe |-> TRUE] \in Record
      BY DEF Record, Statuses
    <2>2. build[j] = "none" /\ j \notin published
      BY <1>1 DEF Inv, Outcome, TaskMatchesRecord, Create
    <2>3. QED BY <1>1, <2>1, <2>2, IdleRecordKeepsOutcome DEF Create, TrySave
  <1>2. ASSUME NEW j \in Jobs,
               \/ CreateFails(j) \/ WritePiece(j) \/ ChunkFails(j) \/ HandlerDropped(j) \/ LateWrite(j)
               \/ LateCut(j) \/ CompleteChecks(j) \/ CompleteFails(j) \/ Age(j)
               \/ \E f \in Files, offset \in 0..Total :
                    ChunkIsDuplicate(j, f, offset) \/ ChunkStart(j, f, offset)
        PROVE Outcome'
    <2>1. UNCHANGED <<up, rec, build, published, ready>>
      BY <1>2 DEF CreateFails, ChunkIsDuplicate, ChunkStart, WritePiece, ChunkFails, HandlerDropped,
                  LateWrite, LateCut, CompleteChecks, CompleteFails, Age
    <2>2. CASE up
      BY <2>1, <2>2, UploadStepsKeepOutcome
    <2>3. CASE ~up
      <3>1. Age(j) /\ UNCHANGED <<handler, late>>
        BY <1>2, <2>3 DEF CreateFails, ChunkIsDuplicate, ChunkStart, WritePiece, ChunkFails, HandlerDropped,
                  LateWrite, LateCut, CompleteChecks, CompleteAccepted, CompleteFails, Writing,
                  Age, Inv, Outcome, DownIsQuiet
      <3>2. QED
        BY <2>1, <3>1 DEF Inv, Outcome, DownIsQuiet, TaskMatchesRecord, BuildsAreNew,
                          BuildHoldsLock, HoldsLock, ModeStillApplies
    <2>4. QED BY <2>2, <2>3
  <1>3. ASSUME NEW j \in Jobs, ChunkSaved(j) PROVE Outcome'
    <2>1. up /\ rec[j] \in Record
      BY <1>3 DEF ChunkSaved, Writing, Inv, TypeOK, Outcome, DownIsQuiet, Content, Staged, ActiveUpload, IsUploading
    <2>2. /\ Chunk(j).next \in 0..Total
          /\ (IF Chunk(j).offset = 0 THEN Digest[Chunk(j).file] ELSE rec[j].file_fingerprint)
                \in Digests \cup {NoFile}
      BY <1>3, <2>1 DEF ChunkSaved, Writing, Chunk, Inv, TypeOK, Handler, Record
    <2>3. /\ rec'[j] # NoJob /\ rec'[j].status = rec[j].status /\ rec'[j].mode = rec[j].mode
          /\ rec'[j].retry_safe = rec[j].retry_safe
      <3> DEFINE f == IF Chunk(j).offset = 0 THEN Digest[Chunk(j).file] ELSE rec[j].file_fingerprint
      <3> DEFINE r == Progressed(rec[j], Chunk(j).next, f)
      <3>1. Save(j, r)
        BY <1>3, SavedFiles
      <3> HIDE DEF f
      <3>2. f \in Digests \cup {NoFile}
        BY <2>2 DEF f
      <3>3. /\ r \in Record /\ r.status = rec[j].status /\ r.mode = rec[j].mode
            /\ r.retry_safe = rec[j].retry_safe
        <4>1. Chunk(j).next \in 0..Total
          BY <2>2
        <4>2. rec[j] \in Record
          BY <2>1
        <4>3. QED BY <3>2, <4>1, <4>2, ProgressedRecord, Z3
      <3> HIDE DEF r
      <3>4. QED BY <3>1, <3>3 DEF Save, Inv, TypeOK
    <2>4. \A k \in Jobs \ {j} : rec'[k] = rec[k]
      BY <1>3 DEF ChunkSaved, Save, Inv, TypeOK
    <2>5. QED BY <1>3, <2>1, <2>3, <2>4, UploadStepsKeepOutcome DEF ChunkSaved
  <1>4. ASSUME NEW j \in Jobs,
               CompleteSaves(j) \/ BuildStart(j) \/ BuildLock(j) \/ Rename(j) \/ WriteCurrent(j)
                 \/ BuildSucceeds(j) \/ BuildFails(j)
        PROVE Outcome'
    BY <1>4, TaskStepsKeepOutcome
  <1>5. ASSUME NEW j \in Jobs, Cleanup(j) PROVE Outcome'
    <2>1. CASE IsUploading(j) /\ TrySave(j, FailedSafely(rec[j]))
      <3>1. FailedSafely(rec[j]) \in Record /\ FailedSafely(rec[j]).status # "complete"
        BY <1>5, SavedRecords DEF Cleanup, Inv, TypeOK
      <3>2. build[j] = "none" /\ j \notin published
        BY <2>1 DEF Inv, Outcome, TaskMatchesRecord, IsUploading
      <3>3. QED BY <1>5, <2>1, <3>1, <3>2, IdleRecordKeepsOutcome DEF Cleanup
    <2>2. CASE UNCHANGED <<rec, old>>
      BY <1>5, <2>2, UploadStepsKeepOutcome DEF Cleanup
    <2>3. QED BY <1>5, <2>1, <2>2, SavedFiles
  <1>6. CASE OtherWriter \/ Recover
    BY <1>6 DEF OtherWriter, Recover, LockFree, Inv, Outcome, DownIsQuiet, TaskMatchesRecord,
                BuildsAreNew, BuildHoldsLock, HoldsLock
  <1>7. CASE Crash
    BY <1>7 DEF Crash, Inv, Outcome, DownIsQuiet, TaskMatchesRecord, BuildsAreNew, BuildHoldsLock, HoldsLock
  <1>8. CASE Restart
    <2>1. \A j \in Jobs : \/ rec'[j] = rec[j]
                          \/ /\ rec[j] # NoJob /\ rec'[j] = Recovered(j)
                             /\ rec[j].status \in {"uploading", "queued", "running"}
      BY <1>8 DEF Restart
    <2>2. \A j \in Jobs : rec[j] # NoJob =>
            /\ Recovered(j) # NoJob /\ Recovered(j).status = "failed"
            /\ Recovered(j).retry_safe => IsUploading(j)
      BY SavedRecords, RecoveredRecord DEF Inv, TypeOK
    <2>3. \A j \in Jobs : build'[j] = "none"
      BY <1>8 DEF Restart, Inv, Outcome, DownIsQuiet
    <2>4. TaskMatchesRecord'
      <3>1. \A j \in Jobs : rec'[j] # NoJob /\ rec'[j] # rec[j] =>
              rec'[j].status = "failed" /\ (rec'[j].retry_safe => IsUploading(j))
        BY <2>1, <2>2
      <3>2. UNCHANGED published
        BY <1>8 DEF Restart
      <3>3. \A j \in Jobs : (rec'[j] = NoJob) <=> (rec[j] = NoJob)
        BY <2>1, <2>2
      <3>4. \A j \in Jobs : j \in published =>
              /\ rec'[j] # NoJob /\ rec'[j].status # "uploading" /\ ~rec'[j].retry_safe
        BY <2>1, <2>2, <3>3 DEF Inv, Outcome, TaskMatchesRecord, IsUploading
      <3>5. QED BY <2>3, <3>1, <3>2, <3>4 DEF Inv, Outcome, TaskMatchesRecord
    <2>5. QED BY <1>8, <2>3, <2>4 DEF Restart, Outcome, DownIsQuiet, BuildsAreNew, BuildHoldsLock, HoldsLock
  <1>9. CASE UNCHANGED vars
    BY <1>9 DEF vars, Inv, Outcome, DownIsQuiet, TaskMatchesRecord, BuildsAreNew, BuildHoldsLock,
                HoldsLock, ModeStillApplies
  <1>10. QED
    BY <1>1, <1>2, <1>3, <1>4, <1>5, <1>6, <1>7, <1>8, <1>9 DEF Next

----------------------------------------------------------------------------
(* What is staged.                                                         *)

SameStaging(k) ==
    /\ rec'[k] = rec[k] /\ upload'[k] = upload[k] /\ handler'[k] = handler[k]
    /\ late'[k] = late[k] /\ creator'[k] = creator[k] /\ verified'[k] = verified[k]
    /\ lost'[k] = lost[k]

(* Pieces that nobody touches stay in their place.                         *)
LEMMA InPlaceKept ==
    ASSUME NEW j \in Jobs, NEW n \in Nat, InPlace(j, n),
           \A i \in 1..n : upload'[j][i] = upload[j][i],
           rec'[j].file_fingerprint = rec[j].file_fingerprint, creator'[j] = creator[j]
    PROVE  InPlace(j, n)'
  BY DEF InPlace

(* A step that concerns other jobs leaves what is staged for this one.     *)
LEMMA OthersKeepStaged ==
    ASSUME NEW k \in Jobs, Staged(k), SameStaging(k)
    PROVE  Staged(k)'
  <1> USE DEF SameStaging, Staged
  <1>1. \A n : InPlace(k, n)' <=> InPlace(k, n)
    BY DEF InPlace
  <1>2. IsUploading(k)' <=> IsUploading(k)
    BY DEF IsUploading
  <1>3. VerifiedIsFingerprint(k)' /\ ProgressByChunks(k)'
    BY DEF VerifiedIsFingerprint, ProgressByChunks
  <1>4. RestingUpload(k)' /\ CompletingUpload(k)' /\ PendingCuts(k)'
    BY <1>1, <1>2 DEF RestingUpload, CompletingUpload, PendingCuts
  <1>5. ActiveUpload(k)'
    BY <1>1, <1>2 DEF ActiveUpload, Writing, MayAppend, WrittenOf
  <1>6. QED BY <1>3, <1>4, <1>5

(* Without a handler an upload may be removed, and its record may leave    *)
(* "uploading" with the same progress.                                     *)
LEMMA RestingKeepsStaged ==
    ASSUME NEW k \in Jobs, Staged(k), handler[k] = Idle, handler'[k] = Idle,
           upload'[k] \in {upload[k], NoFile}, late'[k] \subseteq late[k],
           creator'[k] = creator[k], verified'[k] = verified[k], lost'[k] = lost[k],
           \/ rec'[k] = rec[k]
           \/ /\ rec[k] # NoJob /\ rec'[k] # NoJob /\ rec'[k].status # "uploading"
              /\ rec'[k].bytes_received = rec[k].bytes_received
              /\ rec'[k].file_fingerprint = rec[k].file_fingerprint
    PROVE  Staged(k)'
  <1> USE DEF Staged
  <1>1. VerifiedIsFingerprint(k)' /\ ProgressByChunks(k)'
    BY DEF VerifiedIsFingerprint, ProgressByChunks
  <1>2. IsUploading(k)' => IsUploading(k) /\ rec'[k] = rec[k]
    BY DEF IsUploading
  <1>3. upload'[k] # NoFile /\ rec'[k] = rec[k] =>
          upload'[k] = upload[k] /\ \A n : InPlace(k, n) => InPlace(k, n)'
    BY DEF InPlace
  <1>4. RestingUpload(k)'
    BY <1>2, <1>3 DEF RestingUpload
  <1>5. PendingCuts(k)'
    <2> SUFFICES ASSUME NEW n \in 0..Total, <<NoFile, n>> \in late'[k]
                 PROVE  /\ rec'[k] # NoJob /\ n < Total /\ n <= rec'[k].bytes_received
                        /\ IsUploading(k)' /\ upload'[k] # NoFile /\ ~lost'[k]
                             /\ n = rec'[k].bytes_received =>
                             Len(upload'[k]) >= n /\ InPlace(k, n)'
      BY DEF PendingCuts
    <2>1. <<NoFile, n>> \in late[k]
      OBVIOUS
    <2>2. /\ rec[k] # NoJob /\ n < Total /\ n <= rec[k].bytes_received
          /\ IsUploading(k) /\ upload[k] # NoFile /\ ~lost[k] /\ n = rec[k].bytes_received =>
               Len(upload[k]) >= n /\ InPlace(k, n)
      BY <2>1 DEF PendingCuts
    <2>3. QED BY <1>2, <1>3, <2>2
  <1>6. ActiveUpload(k)' /\ CompletingUpload(k)'
    BY DEF ActiveUpload, CompletingUpload, Writing
  <1>7. QED BY <1>1, <1>4, <1>5, <1>6

(* A handler goes away, and leaves what it has written and a cut back to   *)
(* where it began.                                                         *)
LEMMA HandlerGoneKeepsStaged ==
    ASSUME TypeOK, NEW k \in Jobs, Staged(k), handler[k] # Idle, handler'[k] = Idle,
           rec'[k] = rec[k], upload'[k] = upload[k], creator'[k] = creator[k],
           verified'[k] = verified[k], lost'[k] = lost[k],
           \A n \in 0..Total : <<NoFile, n>> \in late'[k] =>
               <<NoFile, n>> \in late[k] \/ (Writing(k) /\ n = handler[k].offset)
    PROVE  Staged(k)'
  <1> USE DEF Staged
  <1>1. VerifiedIsFingerprint(k)' /\ ProgressByChunks(k)'
    BY DEF VerifiedIsFingerprint, ProgressByChunks
  <1>2. ActiveUpload(k)' /\ CompletingUpload(k)'
    BY DEF ActiveUpload, CompletingUpload, Writing
  <1>3. /\ IsUploading(k)' <=> IsUploading(k)
        /\ \A n : InPlace(k, n)' <=> InPlace(k, n)
    BY DEF IsUploading, InPlace
  <1>4. Writing(k) => /\ handler[k].offset \in Nat /\ handler[k].next \in Nat
                      /\ upload[k] \in Seq(Piece)
                      /\ IsUploading(k) /\ rec[k].bytes_received = handler[k].offset
                      /\ handler[k].offset < Total /\ handler[k].offset <= handler[k].next
                      /\ ~lost[k] => /\ Len(upload[k]) >= handler[k].next
                                     /\ InPlace(k, handler[k].offset)
    BY DEF TypeOK, Handler, ActiveUpload, Writing
  <1>5. Writing(k) \/ handler[k] = Completing
    BY DEF Writing
  <1>6. Writing(k) /\ ~lost[k] => Len(upload[k]) >= handler[k].offset
    BY <1>4
  <1>7. RestingUpload(k)'
    BY <1>3, <1>4, <1>5, <1>6 DEF RestingUpload, CompletingUpload
  <1>8. PendingCuts(k)'
    BY <1>3, <1>4, <1>6 DEF PendingCuts, IsUploading
  <1>9. QED BY <1>1, <1>2, <1>7, <1>8

\* No step puts a piece in a wrong place unnoticed: what it leaves is longer than recorded,
\* or right, or known to be lost.
LEMMA NextKeepsContent ==
    ASSUME Inv, [Next]_vars
    PROVE  Content'
  <1> USE DEF Inv
  <1>0. ASSUME NEW j \in Jobs, Staged(j)', \A k \in Jobs \ {j} : SameStaging(k)
        PROVE  Content'
    BY <1>0, OthersKeepStaged DEF Content
  <1>1. ASSUME NEW j \in Jobs, NEW mode \in Modes, NEW f \in Files, Create(j, mode, f)
        PROVE Content'
    <2> DEFINE r == [mode |-> mode, status |-> "uploading", bytes_received |-> 0,
                     file_fingerprint |-> NoFile, retry_safe |-> TRUE]
    <2>1. /\ rec'[j] = r /\ upload'[j] = <<>> /\ handler[j] = Idle /\ verified[j] = {}
          /\ \A n \in 0..Total : <<NoFile, n>> \notin late[j]
      BY <1>1 DEF Create, Save, TypeOK, Content, Staged, VerifiedIsFingerprint, ActiveUpload,
                  CompletingUpload, PendingCuts, Writing, IsUploading
    <2>2. r.bytes_received = 0 /\ r.file_fingerprint = NoFile
      OBVIOUS
    <2>3. handler'[j] = Idle /\ verified'[j] = {} /\ late'[j] = late[j]
      BY <1>1, <2>1 DEF Create
    <2>4. RestingUpload(j)'
      BY <2>1, <2>2 DEF RestingUpload, InPlace
    <2>5. ProgressByChunks(j)' /\ VerifiedIsFingerprint(j)'
      BY <2>1, <2>2, <2>3 DEF ProgressByChunks, VerifiedIsFingerprint
    <2>6. Staged(j)'
      BY <2>1, <2>3, <2>4, <2>5 DEF Staged, ActiveUpload, CompletingUpload, PendingCuts, Writing
    <2>7. QED BY <1>0, <1>1, <2>6 DEF Create, Save, TypeOK, SameStaging
  <1>2. ASSUME NEW j \in Jobs, CreateFails(j) PROVE Content'
    <2>1. /\ rec[j] = NoJob /\ handler[j] = Idle /\ verified[j] = {}
          /\ \A n \in 0..Total : <<NoFile, n>> \notin late[j]
      BY <1>2 DEF CreateFails, TypeOK, Content, Staged, VerifiedIsFingerprint, ActiveUpload,
                  CompletingUpload, PendingCuts, Writing, IsUploading
    <2>2. Staged(j)'
      BY <1>2, <2>1 DEF CreateFails, Staged, VerifiedIsFingerprint, ProgressByChunks,
         RestingUpload, ActiveUpload, CompletingUpload, PendingCuts, Writing, IsUploading
    <2>3. QED BY <1>0, <1>2, <2>2 DEF CreateFails, TypeOK, SameStaging
  <1>3. ASSUME NEW j \in Jobs, NEW f \in Files, NEW offset \in 0..Total,
               ChunkIsDuplicate(j, f, offset)
        PROVE  Content'
    <2>1. offset = 0 => rec[j].file_fingerprint = Digest[f]
      <3>1. rec[j] \in Record /\ offset < rec[j].bytes_received
        BY <1>3 DEF ChunkIsDuplicate, IsUploading, TypeOK
      <3>2. QED BY <1>3, <3>1 DEF ChunkIsDuplicate, FingerprintAccepted, Record
    <2>2. VerifiedIsFingerprint(j)'
      BY <1>3, <2>1 DEF ChunkIsDuplicate, IsUploading, TypeOK, Content, Staged, VerifiedIsFingerprint
    <2>3. Staged(j)'
      BY <1>3, <2>2 DEF ChunkIsDuplicate, Content, Staged, ProgressByChunks, RestingUpload,
         ActiveUpload, CompletingUpload, PendingCuts, Writing, IsUploading, InPlace, MayAppend,
         WrittenOf
    <2>4. QED BY <1>0, <1>3, <2>3 DEF ChunkIsDuplicate, TypeOK, SameStaging
  <1>4. ASSUME NEW j \in Jobs, NEW f \in Files, NEW offset \in 0..Total, ChunkStart(j, f, offset)
        PROVE  Content'
    <2>1. /\ handler'[j] = [file |-> f, offset |-> offset, next |-> offset]
          /\ handler[j] = Idle
          /\ rec[j].bytes_received = offset /\ upload[j] # NoFile /\ Len(upload[j]) = offset
          /\ IsUploading(j) /\ offset < Total
          /\ UNCHANGED <<rec, upload, late, creator, verified, lost>>
      BY <1>4 DEF ChunkStart, HasLength, TypeOK
    <2>2. /\ handler'[j].file = f /\ handler'[j].offset = offset /\ handler'[j].next = offset
          /\ handler'[j] \notin {Idle, Completing}
      BY <2>1 DEF Handler
    <2>3. MayAppend(j, f, offset)
      BY <1>4 DEF ChunkStart, Sendable, FingerprintAccepted, MayAppend, Content, Staged,
                  VerifiedIsFingerprint
    <2>4. ~lost[j] => InPlace(j, offset)
      BY <2>1 DEF Content, Staged, RestingUpload
    <2>5. ActiveUpload(j)'
      <3>1. offset <= ChunkEnd(offset)
        BY <2>1, ChunkEnds
      <3>2. /\ IsUploading(j)' /\ MayAppend(j, f, offset)' /\ WrittenOf(j, f, offset, offset)'
            /\ ~lost'[j] => InPlace(j, offset)'
        BY <2>1, <2>3, <2>4 DEF IsUploading, MayAppend, InPlace, WrittenOf
      <3>3. QED BY <2>1, <2>2, <3>1, <3>2 DEF ActiveUpload, ChunkEnd
    <2>6. Staged(j)'
      BY <2>1, <2>2, <2>5 DEF Content, Staged, VerifiedIsFingerprint, ProgressByChunks,
         RestingUpload, CompletingUpload, PendingCuts, IsUploading, InPlace
    <2>7. QED BY <1>0, <1>4, <2>6 DEF ChunkStart, TypeOK, SameStaging
  <1>5. ASSUME NEW j \in Jobs, WritePiece(j) PROVE Content'
    <2> DEFINE h == handler[j]
    <2> DEFINE u == upload[j]
    <2>0. Writing(j) /\ Staged(j) /\ UNCHANGED <<rec, late, creator, verified, lost>>
      BY <1>5 DEF WritePiece, Content
    <2>1. /\ h \in Handler /\ u # NoFile /\ u \in Seq(Piece)
          /\ h.next < ChunkEnd(h.offset) /\ ChunkEnd(h.offset) \in 0..Total
          /\ IsUploading(j) /\ rec[j].bytes_received = h.offset
          /\ h.offset < Total /\ h.offset <= h.next
      BY <1>5, <2>0, ChunkEnds DEF WritePiece, Chunk, TypeOK, Handler, Staged, ActiveUpload, Writing
    <2>2. handler'[j] = Advanced(h) /\ upload'[j] = Append(u, <<h.file, h.next + 1>>)
      BY <1>5 DEF WritePiece, Chunk, TypeOK, Advanced
    <2>3. h.offset \in Nat /\ h.next \in Nat /\ Len(u) \in Nat /\ h.file \in Files
      BY <2>1 DEF Handler
    <2>4. h.next + 1 \in 0..Total /\ h.next + 1 \in 1..Total
      BY <2>1, <2>3
    <2>5. /\ handler'[j].file = h.file /\ handler'[j].offset = h.offset
          /\ handler'[j].next = h.next + 1 /\ handler'[j] \notin {Idle, Completing}
      BY <2>1, <2>2, <2>4, AdvancedHandler
    <2> PICK o \in 0..Total, x \in 0..Total, f \in Files :
          h.offset = o /\ h.next = x /\ h.file = f
      BY <2>1 DEF Handler
    <2>6. <<h.file, h.next + 1>> \in Piece
      BY <2>3, <2>4 DEF Piece
    <2>7. /\ upload'[j] # NoFile /\ Len(upload'[j]) = Len(u) + 1
          /\ \A i \in 1..Len(u) : upload'[j][i] = u[i]
          /\ upload'[j][Len(u) + 1] = <<h.file, h.next + 1>>
      <3>1. /\ Append(u, <<h.file, h.next + 1>>) \in Seq(Piece)
            /\ Len(Append(u, <<h.file, h.next + 1>>)) = Len(u) + 1
            /\ \A i \in 1..Len(u) : Append(u, <<h.file, h.next + 1>>)[i] = u[i]
            /\ Append(u, <<h.file, h.next + 1>>)[Len(u) + 1] = <<h.file, h.next + 1>>
        BY <2>1, <2>6, AppendPiece
      <3>2. QED BY <2>2, <3>1
    <2>8. \A n \in 0..Total : n <= Len(u) /\ InPlace(j, n) => InPlace(j, n)'
      <3> SUFFICES ASSUME NEW n \in 0..Total, n <= Len(u), InPlace(j, n) PROVE InPlace(j, n)'
        OBVIOUS
      <3>1. \A i \in 1..n : i \in 1..Len(u)
        BY <2>3
      <3>2. QED BY <2>0, <2>7, <3>1, InPlaceKept
    <2>9. ~lost[j] => /\ Len(upload'[j]) >= x + 1
                      /\ InPlace(j, o)'
                      /\ Len(upload'[j]) = x + 1 => WrittenOf(j, f, o, x + 1)'
      <3> SUFFICES ASSUME ~lost[j]
                   PROVE  /\ Len(upload'[j]) >= x + 1
                          /\ InPlace(j, o)'
                          /\ Len(upload'[j]) = x + 1 => WrittenOf(j, f, o, x + 1)'
        OBVIOUS
      <3>1. /\ Len(u) >= x /\ InPlace(j, o)
            /\ Len(u) = x => WrittenOf(j, f, o, x)
        BY <2>0 DEF Staged, ActiveUpload
      <3>2. Len(upload'[j]) >= x + 1
        BY <2>3, <2>7, <3>1
      <3>3. InPlace(j, o)'
        <4>1. o <= Len(u)
          BY <2>1, <2>3, <3>1
        <4>2. QED BY <2>8, <3>1, <4>1
      <3>4. ASSUME Len(upload'[j]) = x + 1, NEW i \in (o + 1)..(x + 1)
            PROVE  upload'[j][i] = <<f, i>>
        <4>1. Len(u) = x
          BY <2>3, <2>7, <3>4
        <4>2. \A k \in (o + 1)..x : u[k] = <<f, k>>
          BY <3>1, <4>1 DEF WrittenOf
        <4>3. CASE i <= x
          <5>1. i \in 1..Len(u) /\ i \in (o + 1)..x
            BY <2>3, <4>1, <4>3
          <5>2. QED BY <2>7, <4>2, <5>1
        <4>4. CASE i = x + 1
          BY <2>7, <4>1, <4>4
        <4>5. QED BY <2>3, <4>3, <4>4
      <3>5. QED BY <3>2, <3>3, <3>4 DEF WrittenOf
    <2>10. ActiveUpload(j)'
      <3>1. /\ IsUploading(j)' /\ rec'[j].bytes_received = o /\ MayAppend(j, f, o)'
        BY <2>0, <2>1 DEF IsUploading, MayAppend, Staged, ActiveUpload
      <3>2. x + 1 <= ChunkEnd(o) /\ o <= x + 1 /\ o < Total
        BY <2>1, <2>3
      <3>3. handler'[j].file = f /\ handler'[j].offset = o /\ handler'[j].next = x + 1
        BY <2>5
      <3>4. upload'[j] # NoFile /\ lost'[j] = lost[j]
        BY <2>0, <2>7
      <3> HIDE DEF h, u
      <3>5. QED BY <2>9, <3>1, <3>2, <3>3, <3>4 DEF ActiveUpload, ChunkEnd
    <2>11. PendingCuts(j)'
      <3> SUFFICES ASSUME NEW n \in 0..Total, <<NoFile, n>> \in late'[j]
                   PROVE  /\ rec'[j] # NoJob /\ n < Total /\ n <= rec'[j].bytes_received
                          /\ IsUploading(j)' /\ upload'[j] # NoFile /\ ~lost'[j]
                               /\ n = rec'[j].bytes_received =>
                               Len(upload'[j]) >= n /\ InPlace(j, n)'
        BY DEF PendingCuts
      <3>1. /\ rec[j] # NoJob /\ n < Total /\ n <= rec[j].bytes_received
            /\ ~lost[j] /\ n = rec[j].bytes_received => Len(u) >= n /\ InPlace(j, n)
        BY <2>0, <2>1 DEF Staged, PendingCuts
      <3>2. QED BY <2>0, <2>3, <2>7, <2>8, <3>1
    <2>12. Staged(j)'
      BY <2>0, <2>5, <2>10, <2>11 DEF Staged, VerifiedIsFingerprint, ProgressByChunks,
         RestingUpload, CompletingUpload
    <2>13. QED BY <1>0, <1>5, <2>12 DEF WritePiece, TypeOK, SameStaging
  <1>6. ASSUME NEW j \in Jobs, ChunkFails(j) PROVE Content'
    <2>0. Writing(j) /\ Staged(j) /\ UNCHANGED <<rec, late, creator, verified, lost>>
      BY <1>6 DEF ChunkFails, Content
    <2>1. handler[j] # Idle /\ handler'[j] = Idle
      BY <1>6 DEF ChunkFails, Writing, Release, TypeOK
    <2>2. CASE UNCHANGED upload
      <3>1. Staged(j)'
        BY <2>0, <2>1, <2>2, HandlerGoneKeepsStaged
      <3>2. QED BY <1>0, <1>6, <2>2, <3>1 DEF ChunkFails, Release, TypeOK, SameStaging
    <2>3. CASE upload' = [upload EXCEPT ![j] = Cut(@, Chunk(j).offset)]
      <3>0. PICK n \in 0..Total : handler[j].offset = n
        BY <2>0 DEF Writing, TypeOK, Handler
      <3>1. /\ upload[j] \in Seq(Piece) /\ n \in 0..Total
            /\ IsUploading(j) /\ rec[j].bytes_received = n
            /\ ~lost[j] => /\ InPlace(j, n) /\ Len(upload[j]) >= handler[j].next
                           /\ handler[j].next \in Nat /\ n <= handler[j].next
        BY <2>0, <3>0 DEF TypeOK, Handler, Staged, ActiveUpload, Writing
      <3>2. upload'[j] = Cut(upload[j], n)
        BY <2>3, <3>0 DEF Chunk, TypeOK
      <3>3. /\ Len(upload'[j]) = n
            /\ \A i \in 1..n : i <= Len(upload[j]) => upload'[j][i] = upload[j][i]
        BY <3>1, <3>2, CutUpload
      <3>4. ~lost[j] => InPlace(j, n)'
        <4>1. ~lost[j] => \A i \in 1..n : i <= Len(upload[j])
          BY <3>1
        <4>2. QED BY <2>0, <3>1, <3>3, <4>1, InPlaceKept
      <3>5. RestingUpload(j)' /\ PendingCuts(j)'
        BY <2>0, <3>1, <3>3, <3>4 DEF RestingUpload, PendingCuts, Staged
      <3>6. Staged(j)'
        BY <2>0, <2>1, <3>5 DEF Staged, VerifiedIsFingerprint, ProgressByChunks, ActiveUpload,
           CompletingUpload, Writing
      <3>7. QED BY <1>0, <1>6, <2>3, <3>6 DEF ChunkFails, Release, TypeOK, SameStaging
    <2>4. QED BY <1>6, <2>2, <2>3 DEF ChunkFails, TrySetLen
  <1>7. ASSUME NEW j \in Jobs, ChunkSaved(j) PROVE Content'
    <2> DEFINE h == handler[j]
    <2> DEFINE f == IF h.offset = 0 THEN Digest[h.file] ELSE rec[j].file_fingerprint
    <2>0. Writing(j) /\ Staged(j) /\ UNCHANGED <<upload, late, creator, lost>>
      BY <1>7 DEF ChunkSaved, Content
    <2>1. /\ h \in Handler /\ rec[j] \in Record /\ IsUploading(j) /\ upload[j] # NoFile
          /\ h.next = ChunkEnd(h.offset) /\ rec[j].bytes_received = h.offset
          /\ h.offset < h.next /\ h.offset < Total /\ MayAppend(j, h.file, h.offset)
          /\ ~lost[j] => /\ Len(upload[j]) >= h.next /\ InPlace(j, h.offset)
                         /\ Len(upload[j]) = h.next => WrittenOf(j, h.file, h.offset, h.next)
      BY <1>7, <2>0, ChunkEnds DEF ChunkSaved, Chunk, TypeOK, Handler, Record, IsUploading,
                                   Staged, ActiveUpload, Writing
    <2>2. rec'[j] = Progressed(rec[j], h.next, f) /\ handler'[j] = Idle
      <3>1. Save(j, Progressed(rec[j], h.next, f))
        BY <1>7, SavedFiles DEF Chunk
      <3>2. QED BY <1>7, <3>1 DEF ChunkSaved, Save, Release, TypeOK
    <2>3. h.next \in 0..Total /\ h.file \in Files /\ h.offset \in 0..Total
      BY <2>1 DEF Handler
    <2>4. f \in Digests \cup {NoFile}
      BY <2>1, <2>3 DEF Record
    <2>5. /\ rec'[j] # NoJob /\ rec'[j].bytes_received = h.next
          /\ rec'[j].file_fingerprint = f
      <3> HIDE DEF f
      <3>1. /\ Progressed(rec[j], h.next, f) \in Record
            /\ Progressed(rec[j], h.next, f).bytes_received = h.next
            /\ Progressed(rec[j], h.next, f).file_fingerprint = f
        <4>1. rec[j] \in Record
          BY <2>1
        <4>2. h.next \in 0..Total
          BY <2>3
        <4>3. QED BY <2>4, <4>1, <4>2, ProgressedRecord, Z3
      <3>2. QED BY <2>2, <3>1
    <2>6. VerifiedIsFingerprint(j)'
      <3>1. CASE h.offset = 0
        <4>1. rec[j].file_fingerprint = NoFile
          BY <2>0, <2>1, <3>1 DEF Staged, ProgressByChunks, IsUploading
        <4>2. verified[j] = {}
          BY <2>0, <4>1 DEF Staged, VerifiedIsFingerprint, TypeOK
        <4>3. verified'[j] = {h.file}
          BY <1>7, <3>1, <4>2 DEF ChunkSaved, Chunk, TypeOK
        <4>4. QED BY <2>5, <3>1, <4>3 DEF VerifiedIsFingerprint
      <3>2. CASE h.offset # 0
        <4>1. verified'[j] = verified[j]
          BY <1>7, <3>2 DEF ChunkSaved, Chunk, TypeOK
        <4>2. QED BY <2>0, <2>5, <3>2, <4>1 DEF Staged, VerifiedIsFingerprint
      <3>3. QED BY <3>1, <3>2
    <2>7. h.offset = 0 \/ h.offset >= ChunkLen
      BY <2>0, <2>1, <2>3 DEF Staged, ProgressByChunks, IsUploading
    <2>8. ProgressByChunks(j)'
      <3>1. h.next # 0 /\ (h.next = Total \/ h.next >= ChunkLen)
        BY <2>1, <2>3 DEF ChunkEnd
      <3>2. QED BY <2>3, <2>5, <3>1 DEF ProgressByChunks
    <2> PICK x \in 0..Total : h.next = x
      BY <2>3
    <2>9. ~lost[j] /\ Len(upload[j]) = x => InPlace(j, x)'
      <3> SUFFICES ASSUME ~lost[j], Len(upload[j]) = x, NEW i \in 1..x
                   PROVE  \E g \in Files :
                            /\ upload'[j][i] = <<g, i>>
                            /\ Digest[g] = rec'[j].file_fingerprint \/ (i > ChunkLen /\ g = creator'[j])
        BY DEF InPlace
      <3>1. CASE i <= h.offset
        <4>1. i \in 1..h.offset
          BY <2>3, <3>1
        <4>2. PICK g \in Files :
                /\ upload[j][i] = <<g, i>>
                /\ Digest[g] = rec[j].file_fingerprint \/ (i > ChunkLen /\ g = creator[j])
          BY <2>1, <4>1 DEF InPlace
        <4>3. rec'[j].file_fingerprint = rec[j].file_fingerprint
          BY <2>3, <2>5, <4>1
        <4>4. QED BY <2>0, <4>2, <4>3
      <3>2. CASE i > h.offset
        <4>1. upload[j][i] = <<h.file, i>>
          <5>1. i \in (h.offset + 1)..x
            BY <2>3, <3>2
          <5>2. QED BY <2>1, <5>1 DEF WrittenOf
        <4>2. Digest[h.file] = f \/ (i > ChunkLen /\ h.file = creator[j])
          BY <2>1, <2>3, <2>7, <3>2 DEF MayAppend
        <4>3. QED BY <2>0, <2>3, <2>5, <4>1, <4>2
      <3>3. QED BY <2>3, <3>1, <3>2
    <2>10. RestingUpload(j)'
      BY <2>0, <2>1, <2>5, <2>9 DEF RestingUpload
    <2>11. PendingCuts(j)'
      <3> SUFFICES ASSUME NEW n \in 0..Total, <<NoFile, n>> \in late'[j]
                   PROVE  /\ rec'[j] # NoJob /\ n < Total
                          /\ n <= rec'[j].bytes_received /\ n # rec'[j].bytes_received
        BY DEF PendingCuts
      <3>1. n < Total /\ n <= h.offset
        BY <2>0, <2>1 DEF Staged, PendingCuts
      <3>2. QED BY <2>1, <2>3, <2>5, <3>1
    <2>12. Staged(j)'
      BY <2>2, <2>6, <2>8, <2>10, <2>11 DEF Staged, ActiveUpload, CompletingUpload, Writing
    <2>13. QED BY <1>0, <1>7, <2>12 DEF ChunkSaved, Save, Release, TypeOK, SameStaging
  <1>8. ASSUME NEW j \in Jobs, HandlerDropped(j) PROVE Content'
    <2>1. /\ Writing(j) /\ Staged(j) /\ UNCHANGED <<rec, upload, creator, verified, lost>>
          /\ handler'[j] = Idle /\ handler[j] # Idle
      BY <1>8 DEF HandlerDropped, Release, Writing, TypeOK, Content
    <2>2. Chunk(j).offset < Total
      BY <2>1 DEF Chunk, Staged, ActiveUpload
    <2>3. ASSUME NEW n \in 0..Total, <<NoFile, n>> \in late'[j]
          PROVE  <<NoFile, n>> \in late[j] \/ (Writing(j) /\ n = handler[j].offset)
      <3>1. CASE UNCHANGED late
        BY <2>3, <3>1
      <3>2. CASE \E op \in InFlight(j) : late' = [late EXCEPT ![j] = @ \cup {op}]
        <4>1. PICK op \in InFlight(j) : late' = [late EXCEPT ![j] = @ \cup {op}]
          BY <3>2
        <4>2. <<NoFile, n>> \in late[j] \/ <<NoFile, n>> = op
          BY <2>3, <4>1 DEF TypeOK
        <4>3. CASE <<NoFile, n>> = op
          <5>1. op[1] = NoFile
            BY <4>3
          <5>2. op = <<NoFile, Chunk(j).offset>>
            BY <2>1, <2>2, <5>1, InFlightTyped
          <5>3. QED BY <2>1, <4>3, <5>2 DEF Chunk
        <4>4. QED BY <4>2, <4>3
      <3>3. QED BY <1>8, <3>1, <3>2 DEF HandlerDropped
    <2>4. Staged(j)'
      BY <2>1, <2>3, HandlerGoneKeepsStaged
    <2>5. QED BY <1>0, <1>8, <2>4 DEF HandlerDropped, Release, TypeOK, SameStaging
  <1>9. ASSUME NEW j \in Jobs, LateWrite(j) PROVE Content'
    <2>1. PICK p \in late[j] \cap Piece :
            /\ late' = [late EXCEPT ![j] = @ \ {p}]
            /\ upload' = [upload EXCEPT ![j] = IF @ = NoFile THEN @ ELSE Append(@, p)]
      BY <1>9 DEF LateWrite
    <2>2. UNCHANGED <<rec, handler, creator, verified, lost>> /\ Staged(j)
      BY <1>9 DEF LateWrite, Content
    <2>3. late'[j] \subseteq late[j]
      BY <2>1 DEF TypeOK
    <2>4. upload'[j] = IF upload[j] = NoFile THEN upload[j] ELSE Append(upload[j], p)
      BY <2>1 DEF TypeOK
    <2>5. upload[j] # NoFile =>
            /\ upload[j] \in Seq(Piece) /\ upload'[j] # NoFile
            /\ Len(upload[j]) \in Nat /\ Len(upload'[j]) = Len(upload[j]) + 1
            /\ \A i \in 1..Len(upload[j]) : upload'[j][i] = upload[j][i]
      <3> SUFFICES ASSUME upload[j] # NoFile
                   PROVE  /\ upload[j] \in Seq(Piece) /\ upload'[j] # NoFile
                          /\ Len(upload[j]) \in Nat /\ Len(upload'[j]) = Len(upload[j]) + 1
                          /\ \A i \in 1..Len(upload[j]) : upload'[j][i] = upload[j][i]
        OBVIOUS
      <3>1. upload[j] \in Seq(Piece) /\ p \in Piece
        BY DEF TypeOK
      <3>2. /\ Append(upload[j], p) \in Seq(Piece)
            /\ Len(Append(upload[j], p)) = Len(upload[j]) + 1
            /\ \A i \in 1..Len(upload[j]) : Append(upload[j], p)[i] = upload[j][i]
        BY <3>1, AppendPiece
      <3>3. upload'[j] = Append(upload[j], p)
        BY <2>4
      <3>4. upload'[j] # NoFile
        BY <3>2, <3>3
      <3>5. Len(upload[j]) \in Nat
        BY <3>1
      <3>6. QED BY <3>1, <3>2, <3>3, <3>4, <3>5
    <2>6. \A n \in 0..Total : upload[j] # NoFile /\ n <= Len(upload[j]) /\ InPlace(j, n) =>
            InPlace(j, n)'
      <3> SUFFICES ASSUME upload[j] # NoFile, NEW n \in 0..Total, n <= Len(upload[j]), InPlace(j, n)
                   PROVE  InPlace(j, n)'
        OBVIOUS
      <3>1. \A i \in 1..n : i \in 1..Len(upload[j])
        BY <2>5
      <3>2. QED BY <2>2, <2>5, <3>1, InPlaceKept
    <2>7. IsUploading(j) => rec[j].bytes_received \in 0..Total
      BY DEF TypeOK, Record, IsUploading
    <2>8. RestingUpload(j)'
      BY <2>2, <2>4, <2>5, <2>7 DEF Staged, RestingUpload, IsUploading
    <2>9. ActiveUpload(j)'
      <3> SUFFICES ASSUME Writing(j) PROVE ActiveUpload(j)'
        BY <2>2 DEF ActiveUpload, Writing
      <3> DEFINE h == handler[j]
      <3>1. PICK o \in 0..Total, x \in 0..Total, f \in Files :
              h.offset = o /\ h.next = x /\ h.file = f
        BY DEF TypeOK, Handler, Writing
      <3>2. /\ IsUploading(j) /\ rec[j].bytes_received = o /\ MayAppend(j, f, o)
            /\ o < Total /\ o <= x /\ x <= ChunkEnd(o) /\ upload[j] # NoFile
            /\ ~lost[j] => Len(upload[j]) >= x /\ InPlace(j, o)
        BY <2>2, <3>1 DEF Staged, ActiveUpload
      <3>3. ~lost[j] => /\ Len(upload'[j]) >= x /\ Len(upload'[j]) # x
                        /\ InPlace(j, o)'
        BY <2>5, <2>6, <3>2
      <3>4. IsUploading(j)' /\ MayAppend(j, f, o)' /\ upload'[j] # NoFile
        BY <2>2, <2>5, <3>2 DEF IsUploading, MayAppend
      <3>5. /\ handler'[j].offset = o /\ handler'[j].next = x /\ handler'[j].file = f
            /\ rec'[j].bytes_received = o /\ lost'[j] = lost[j]
        BY <2>2, <3>1, <3>2
      <3> HIDE DEF h
      <3>6. QED BY <3>2, <3>3, <3>4, <3>5 DEF ActiveUpload, ChunkEnd
    <2>10. CompletingUpload(j)'
      BY <2>2, <2>5, <2>6 DEF Staged, CompletingUpload, IsUploading
    <2>11. PendingCuts(j)'
      <3> SUFFICES ASSUME NEW n \in 0..Total, <<NoFile, n>> \in late'[j]
                   PROVE  /\ rec'[j] # NoJob /\ n < Total /\ n <= rec'[j].bytes_received
                          /\ IsUploading(j)' /\ upload'[j] # NoFile /\ ~lost'[j]
                               /\ n = rec'[j].bytes_received =>
                               Len(upload'[j]) >= n /\ InPlace(j, n)'
        BY DEF PendingCuts
      <3>1. /\ rec[j] # NoJob /\ n < Total /\ n <= rec[j].bytes_received
            /\ IsUploading(j) /\ upload[j] # NoFile /\ ~lost[j] /\ n = rec[j].bytes_received =>
                 Len(upload[j]) >= n /\ InPlace(j, n)
        BY <2>2, <2>3 DEF Staged, PendingCuts
      <3>2. QED BY <2>2, <2>4, <2>5, <2>6, <3>1 DEF IsUploading
    <2>12. Staged(j)'
      BY <2>2, <2>8, <2>9, <2>10, <2>11 DEF Staged, VerifiedIsFingerprint, ProgressByChunks
    <2>13. QED BY <1>0, <2>1, <2>2, <2>12 DEF TypeOK, SameStaging
  <1>10. ASSUME NEW j \in Jobs, LateCut(j) PROVE Content'
    <2>1. PICK n \in 0..Total :
            /\ <<NoFile, n>> \in late[j]
            /\ late' = [late EXCEPT ![j] = @ \ {<<NoFile, n>>}]
            /\ upload' = [upload EXCEPT ![j] = IF @ = NoFile THEN @ ELSE Cut(@, n)]
            /\ lost' = [lost EXCEPT ![j] = @ \/ ~CutsOnlyItsOwn(j, n)]
      BY <1>10 DEF LateCut
    <2>2. UNCHANGED <<rec, handler, creator, verified>> /\ Staged(j)
      BY <1>10 DEF LateCut, Content
    <2>3. /\ late'[j] \subseteq late[j]
          /\ upload'[j] = IF upload[j] = NoFile THEN upload[j] ELSE Cut(upload[j], n)
          /\ ~lost'[j] => ~lost[j] /\ CutsOnlyItsOwn(j, n)
      BY <2>1 DEF TypeOK
    <2>4. upload[j] # NoFile =>
            /\ upload[j] \in Seq(Piece) /\ upload'[j] # NoFile /\ Len(upload'[j]) = n
            /\ \A i \in 1..n : i <= Len(upload[j]) => upload'[j][i] = upload[j][i]
      <3> SUFFICES ASSUME upload[j] # NoFile
                   PROVE  /\ upload[j] \in Seq(Piece) /\ upload'[j] # NoFile /\ Len(upload'[j]) = n
                          /\ \A i \in 1..n : i <= Len(upload[j]) => upload'[j][i] = upload[j][i]
        OBVIOUS
      <3>1. upload[j] \in Seq(Piece)
        BY DEF TypeOK
      <3>2. QED BY <2>3, <3>1, CutUpload
    <2>5. IsUploading(j)' <=> IsUploading(j)
      BY <2>2 DEF IsUploading
    <2>6. \A m \in 0..Total :
            /\ upload[j] # NoFile /\ m <= n /\ m <= Len(upload[j]) /\ InPlace(j, m) => InPlace(j, m)'
      <3> SUFFICES ASSUME upload[j] # NoFile, NEW m \in 0..Total, m <= n, m <= Len(upload[j]),
                          InPlace(j, m)
                   PROVE  InPlace(j, m)'
        OBVIOUS
      <3>1. \A i \in 1..m : i \in 1..n /\ i <= Len(upload[j])
        BY <2>4
      <3>2. QED BY <2>2, <2>4, <3>1, InPlaceKept
    <2>7. ASSUME ~lost'[j], upload[j] # NoFile, handler[j] = Idle,
                 rec[j].bytes_received = n, IsUploading(j)
          PROVE  Len(upload'[j]) = n /\ InPlace(j, n)'
      BY <2>1, <2>2, <2>3, <2>4, <2>6, <2>7 DEF Staged, PendingCuts
    <2>8. CutsOnlyItsOwn(j, n) /\ upload[j] # NoFile =>
            \/ Len(upload[j]) = n
            \/ handler[j] = Idle /\ rec[j].bytes_received = n
      BY DEF CutsOnlyItsOwn, HasLength
    <2>9. IsUploading(j) => rec[j].bytes_received \in 0..Total
      BY DEF TypeOK, Record, IsUploading
    <2>10. RestingUpload(j)'
      <3> SUFFICES ASSUME IsUploading(j), handler[j] = Idle, upload'[j] # NoFile, ~lost'[j]
                   PROVE  /\ Len(upload'[j]) >= rec[j].bytes_received
                          /\ Len(upload'[j]) = rec[j].bytes_received =>
                               InPlace(j, rec[j].bytes_received)'
        BY <2>2, <2>5 DEF RestingUpload
      <3>1. upload[j] # NoFile
        BY <2>3
      <3>2. CASE rec[j].bytes_received = n
        <4>1. Len(upload'[j]) = n /\ InPlace(j, n)'
          BY <2>7, <3>1, <3>2
        <4>2. rec'[j].bytes_received = n
          BY <2>2, <3>2
        <4>3. QED BY <2>2, <3>2, <4>1, <4>2
      <3>3. CASE Len(upload[j]) = n
        BY <2>2, <2>3, <2>4, <2>6, <2>9, <3>1, <3>3 DEF Staged, RestingUpload
      <3>4. QED BY <2>3, <2>8, <3>1, <3>2, <3>3
    <2>11. ActiveUpload(j)'
      <3> SUFFICES ASSUME Writing(j) PROVE ActiveUpload(j)'
        BY <2>2 DEF ActiveUpload, Writing
      <3> DEFINE h == handler[j]
      <3>1. PICK o \in 0..Total, x \in 0..Total, f \in Files :
              h.offset = o /\ h.next = x /\ h.file = f
        BY DEF TypeOK, Handler, Writing
      <3>2. /\ IsUploading(j) /\ rec[j].bytes_received = o /\ MayAppend(j, f, o)
            /\ o < Total /\ o <= x /\ x <= ChunkEnd(o) /\ upload[j] # NoFile
            /\ ~lost[j] => /\ Len(upload[j]) >= x /\ InPlace(j, o)
                           /\ Len(upload[j]) = x => WrittenOf(j, f, o, x)
        BY <2>2, <3>1 DEF Staged, ActiveUpload
      <3>3. ASSUME ~lost'[j]
            PROVE  /\ Len(upload'[j]) >= x /\ InPlace(j, o)'
                   /\ Len(upload'[j]) = x => WrittenOf(j, f, o, x)'
        <4>0. handler[j] # Idle
          BY DEF Writing
        <4>1. ~lost[j] /\ Len(upload[j]) = n
          BY <2>3, <2>8, <3>2, <3>3, <4>0
        <4>2. Len(upload'[j]) = n /\ x <= n /\ o <= n
          BY <2>4, <3>2, <4>1
        <4>3. InPlace(j, o)'
          <5>1. o <= Len(upload[j])
            BY <4>1, <4>2
          <5>2. QED BY <2>6, <3>2, <4>1, <4>2, <5>1
        <4>4. ASSUME n = x PROVE WrittenOf(j, f, o, x)'
          <5>1. \A i \in (o + 1)..x : upload[j][i] = <<f, i>>
            BY <3>2, <4>1, <4>4 DEF WrittenOf
          <5>2. \A i \in (o + 1)..x : i \in 1..n /\ i <= Len(upload[j])
            BY <4>1, <4>4
          <5>3. \A i \in (o + 1)..x : upload'[j][i] = upload[j][i]
            BY <2>4, <3>2, <5>2
          <5>4. QED BY <5>1, <5>3 DEF WrittenOf
        <4>5. QED BY <4>2, <4>3, <4>4
      <3>4. IsUploading(j)' /\ MayAppend(j, f, o)'
        BY <2>2, <3>2 DEF IsUploading, MayAppend
      <3>5. /\ handler'[j].offset = o /\ handler'[j].next = x /\ handler'[j].file = f
            /\ rec'[j].bytes_received = o /\ upload'[j] # NoFile
        BY <2>2, <2>4, <3>1, <3>2
      <3> HIDE DEF h
      <3>6. QED BY <3>2, <3>3, <3>4, <3>5 DEF ActiveUpload, ChunkEnd
    <2>12. CompletingUpload(j)'
      <3> SUFFICES ASSUME handler[j] = Completing
                   PROVE  /\ IsUploading(j) /\ rec[j].bytes_received = Total /\ upload'[j] # NoFile
                          /\ ~lost'[j] => Len(upload'[j]) >= Total /\ InPlace(j, Total)'
        BY <2>2, <2>5 DEF CompletingUpload
      <3>1. /\ IsUploading(j) /\ rec[j].bytes_received = Total /\ upload[j] # NoFile
            /\ ~lost[j] => Len(upload[j]) >= Total /\ InPlace(j, Total)
        BY <2>2 DEF Staged, CompletingUpload
      <3>2. ~lost'[j] => Len(upload[j]) = n /\ n = Total
        BY <2>3, <2>8, <3>1
      <3>3. QED BY <2>3, <2>4, <2>6, <3>1, <3>2
    <2>13. PendingCuts(j)'
      <3> SUFFICES ASSUME NEW m \in 0..Total, <<NoFile, m>> \in late'[j]
                   PROVE  /\ rec'[j] # NoJob /\ m < Total /\ m <= rec'[j].bytes_received
                          /\ IsUploading(j)' /\ upload'[j] # NoFile /\ ~lost'[j]
                               /\ m = rec'[j].bytes_received =>
                               Len(upload'[j]) >= m /\ InPlace(j, m)'
        BY DEF PendingCuts
      <3>1. /\ rec[j] # NoJob /\ m < Total /\ m <= rec[j].bytes_received
            /\ IsUploading(j) /\ upload[j] # NoFile /\ ~lost[j] /\ m = rec[j].bytes_received =>
                 Len(upload[j]) >= m /\ InPlace(j, m)
        BY <2>2, <2>3 DEF Staged, PendingCuts
      <3>2. ASSUME IsUploading(j), upload[j] # NoFile, ~lost'[j], m = rec[j].bytes_received
            PROVE  Len(upload'[j]) >= m /\ InPlace(j, m)'
        <4>1. CASE Len(upload[j]) = n
          BY <2>3, <2>4, <2>6, <3>1, <3>2, <4>1
        <4>2. CASE handler[j] = Idle /\ rec[j].bytes_received = n
          BY <2>7, <3>2, <4>2
        <4>3. QED BY <2>3, <2>8, <3>2, <4>1, <4>2
      <3>3. QED BY <2>2, <2>3, <2>5, <3>1, <3>2
    <2>14. Staged(j)'
      BY <2>2, <2>10, <2>11, <2>12, <2>13 DEF Staged, VerifiedIsFingerprint, ProgressByChunks
    <2>15. QED BY <1>0, <2>1, <2>2, <2>14 DEF TypeOK, SameStaging
  <1>11. ASSUME NEW j \in Jobs, CompleteChecks(j) PROVE Content'
    <2>1. /\ handler[j] = Idle /\ handler'[j] = Completing /\ IsUploading(j) /\ Staged(j)
          /\ rec[j].bytes_received = Total /\ upload[j] # NoFile /\ Len(upload[j]) = Total
          /\ UNCHANGED <<rec, upload, late, creator, verified, lost>>
      BY <1>11 DEF CompleteChecks, CompleteAccepted, HasLength, TypeOK, Content
    <2>2. ~lost[j] => InPlace(j, Total)
      BY <2>1 DEF Staged, RestingUpload
    <2>3. CompletingUpload(j)'
      BY <2>1, <2>2 DEF CompletingUpload, IsUploading, InPlace
    <2>4. Staged(j)'
      BY <2>1, <2>3 DEF Staged, VerifiedIsFingerprint, ProgressByChunks, RestingUpload,
         ActiveUpload, PendingCuts, Writing, IsUploading, InPlace
    <2>5. QED BY <1>0, <1>11, <2>4 DEF CompleteChecks, TypeOK, SameStaging
  <1>12. ASSUME NEW j \in Jobs, CompleteFails(j) PROVE Content'
    <2>1. /\ handler[j] # Idle /\ handler'[j] = Idle /\ Staged(j)
          /\ UNCHANGED <<rec, upload, late, creator, verified, lost>>
      BY <1>12 DEF CompleteFails, Release, TypeOK, Content
    <2>2. Staged(j)'
      BY <2>1, HandlerGoneKeepsStaged
    <2>3. QED BY <1>0, <1>12, <2>2 DEF CompleteFails, Release, TypeOK, SameStaging
  <1>13. ASSUME NEW j \in Jobs, CompleteSaves(j) PROVE Content'
    <2>1. /\ rec[j] \in Record /\ Staged(j) /\ handler'[j] = Idle
          /\ UNCHANGED <<late, verified>>
      BY <1>13 DEF CompleteSaves, Release, TypeOK, Content, Staged, CompletingUpload, IsUploading
    <2>2. rec'[j] = Queued(rec[j])
      BY <1>13, SavedFiles DEF Save, TypeOK
    <2>3. /\ rec'[j] # NoJob /\ rec'[j].status # "uploading"
          /\ rec'[j].bytes_received = rec[j].bytes_received
          /\ rec'[j].file_fingerprint = rec[j].file_fingerprint
      BY <2>1, <2>2, SavedRecords
    <2>4. Staged(j)'
      BY <2>1, <2>3 DEF Staged, VerifiedIsFingerprint, ProgressByChunks, RestingUpload,
         ActiveUpload, CompletingUpload, PendingCuts, Writing, IsUploading
    <2>5. QED BY <1>0, <1>13, <2>4 DEF CompleteSaves, Save, Release, TypeOK, SameStaging
  <1>14. ASSUME NEW j \in Jobs, BuildStart(j) \/ BuildSucceeds(j) \/ BuildFails(j)
        PROVE  Content'
    <2>1. handler[j] = Idle /\ rec[j] # NoJob /\ rec[j] \in Record
      <3>1. rec[j] # NoJob /\ ~IsUploading(j)
        BY <1>14 DEF BuildStart, BuildSucceeds, BuildFails, IsUploading, Outcome, TaskMatchesRecord
      <3>2. QED BY <3>1 DEF TypeOK, Content, Staged, ActiveUpload, CompletingUpload, Writing
    <2>2. rec'[j] \in {rec[j], Started(rec[j]), Completed(rec[j]), FailedSafely(rec[j])}
      BY <1>14, SavedFiles DEF TrySave, Save, TypeOK
    <2>3. \/ rec'[j] = rec[j]
          \/ /\ rec'[j] # NoJob /\ rec'[j].status # "uploading"
             /\ rec'[j].bytes_received = rec[j].bytes_received
             /\ rec'[j].file_fingerprint = rec[j].file_fingerprint
      BY <2>1, <2>2, SavedRecords
    <2>4. /\ upload'[j] \in {upload[j], NoFile}
          /\ UNCHANGED <<handler, late, creator, verified, lost>>
      BY <1>14 DEF BuildStart, BuildSucceeds, BuildFails, TryRemove, TypeOK
    <2>5. Staged(j)'
      BY <2>1, <2>3, <2>4, RestingKeepsStaged DEF Content
    <2>6. \A k \in Jobs \ {j} : rec'[k] = rec[k] /\ upload'[k] = upload[k]
      BY <1>14 DEF BuildStart, BuildSucceeds, BuildFails, TryRemove, TrySave, Save, TypeOK
    <2>7. QED BY <1>0, <2>4, <2>5, <2>6 DEF SameStaging
  <1>15. ASSUME NEW j \in Jobs, Cleanup(j) PROVE Content'
    <2>1. /\ handler[j] = Idle /\ rec[j] # NoJob /\ rec[j] \in Record
          /\ UNCHANGED <<handler, late, creator, verified, lost>>
      BY <1>15 DEF Cleanup, TypeOK
    <2>2. rec'[j] \in {rec[j], FailedSafely(rec[j])} /\ \A k \in Jobs \ {j} : rec'[k] = rec[k]
      BY <1>15, SavedFiles DEF TrySave, Save, TypeOK
    <2>3. \/ rec'[j] = rec[j]
          \/ /\ rec'[j] # NoJob /\ rec'[j].status # "uploading"
             /\ rec'[j].bytes_received = rec[j].bytes_received
             /\ rec'[j].file_fingerprint = rec[j].file_fingerprint
      BY <2>1, <2>2, SavedRecords
    <2>4. upload'[j] \in {upload[j], NoFile} /\ \A k \in Jobs \ {j} : upload'[k] = upload[k]
      BY <1>15 DEF Cleanup, TryRemove, TypeOK
    <2>5. Staged(j)'
      BY <2>1, <2>3, <2>4, RestingKeepsStaged DEF Content
    <2>6. QED BY <1>0, <2>1, <2>2, <2>4, <2>5 DEF SameStaging
  <1>16. ASSUME UNCHANGED <<rec, upload, handler, late, creator, verified, lost>> PROVE Content'
    BY <1>16, OthersKeepStaged DEF Content, SameStaging
  <1>17. ASSUME NEW j \in Jobs, BuildLock(j) \/ Rename(j) \/ WriteCurrent(j) \/ Age(j) PROVE Content'
    BY <1>16, <1>17 DEF BuildLock, Rename, WriteCurrent, Age
  <1>18. CASE OtherWriter \/ Recover \/ UNCHANGED vars
    BY <1>16, <1>18 DEF OtherWriter, Recover, vars
  <1>19. CASE Crash
    <2>1. ASSUME NEW k \in Jobs PROVE Staged(k)'
      <3>1. /\ handler'[k] = Idle /\ late'[k] = {} /\ Staged(k)
            /\ UNCHANGED <<rec, upload, creator, verified, lost>>
        BY <1>19 DEF Crash, Content
      <3>2. QED BY <3>1, HandlerGoneKeepsStaged, RestingKeepsStaged
    <2>2. QED BY <2>1 DEF Content
  <1>20. CASE Restart
    <2>1. ASSUME NEW k \in Jobs PROVE Staged(k)'
      <3>1. /\ handler[k] = Idle /\ handler'[k] = Idle /\ Staged(k)
            /\ UNCHANGED <<late, creator, verified, lost>>
        BY <1>20 DEF Restart, Outcome, DownIsQuiet, Content
      <3>2. rec'[k] = rec[k] \/ (rec[k] # NoJob /\ rec'[k] = Recovered(k))
        BY <1>20 DEF Restart
      <3>3. rec[k] # NoJob => /\ Recovered(k) # NoJob /\ Recovered(k).status # "uploading"
                              /\ Recovered(k).bytes_received = rec[k].bytes_received
                              /\ Recovered(k).file_fingerprint = rec[k].file_fingerprint
        BY SavedRecords, RecoveredRecord DEF TypeOK
      <3>4. upload'[k] \in {upload[k], NoFile}
        BY <1>20 DEF Restart
      <3>5. QED BY <3>1, <3>2, <3>3, <3>4, RestingKeepsStaged
    <2>2. QED BY <2>1 DEF Content
  <1>21. QED
    BY <1>1, <1>2, <1>3, <1>4, <1>5, <1>6, <1>7, <1>8, <1>9, <1>10, <1>11, <1>12, <1>13, <1>14,
       <1>15, <1>17, <1>18, <1>19, <1>20
       DEF Next

----------------------------------------------------------------------------
(* The theorems.                                                           *)

(* The invariant holds at first.                                           *)
LEMMA InitInv == Init => Inv
  <1>1. Init => TypeOK
    BY InitTyped
  <1>2. Init => Outcome
    BY DEF Init, Outcome, DownIsQuiet, TaskMatchesRecord, BuildsAreNew, BuildHoldsLock, HoldsLock
  <1>3. Init => Content
    BY DEF Init, Content, Staged, VerifiedIsFingerprint, ProgressByChunks, RestingUpload,
           ActiveUpload, CompletingUpload, PendingCuts, Writing, IsUploading
  <1>4. QED BY <1>1, <1>2, <1>3 DEF Inv

(* The inductive invariant holds in every reachable state.                 *)
THEOREM InvHolds == Spec => []Inv
  <1>1. Inv /\ [Next]_vars => Inv'
    BY NextTyped, NextKeepsOutcome, NextKeepsContent DEF Inv
  <1>2. QED BY <1>1, InitInv, PTL DEF Spec

(* Every record, upload, handler, late operation and task of the service   *)
(* always has its type: whatever chunks, retries, failed saves and         *)
(* restarts do, a record is one the service can read back, its progress is *)
(* at most the file's length, and every piece of an upload is one of the   *)
(* pieces of a file or of the zeros of a set_len.                          *)
THEOREM TypeCorrect == Spec => []TypeOK
  <1>1. Inv => TypeOK
    BY DEF Inv
  <1>2. QED BY <1>1, InvHolds, PTL

(* For any number of files that begin alike or differently, clients, late  *)
(* writes and late cuts: a resting upload that is as long as its recorded  *)
(* progress has every piece in its place, of a file with the recorded      *)
(* beginning or, after the first chunk, of the creator's; the exception is *)
(* an upload that a late set_len took received pieces from.                *)
THEOREM LengthMeansInPlace == Spec => []MatchingLengthMeansInPlace
  <1>1. Inv => MatchingLengthMeansInPlace
    BY DEF Inv, Content, Staged, RestingUpload, MatchingLengthMeansInPlace, HasLength
  <1>2. QED BY <1>1, InvHolds, PTL

(* What the record says about a retry and about completion is true.        *)
THEOREM HonestOutcome == Spec => []OutcomeIsHonest
  <1>1. Inv => OutcomeIsHonest
    BY DEF Inv, Outcome, TaskMatchesRecord, OutcomeIsHonest
  <1>2. QED BY <1>1, InvHolds, PTL

(* No build runs whose rows are already published.                         *)
THEOREM RowsPublishedOnce == Spec => []BuildsAreNew
  <1>1. Inv => BuildsAreNew
    BY DEF Inv, Outcome
  <1>2. QED BY <1>1, InvHolds, PTL

(* Also when late writes and cuts land between the look at the length and  *)
(* the save, what is queued for a build has all its pieces in place.       *)
THEOREM QueuedAreInPlace == Spec => QueuedUploadsAreInPlace
  <1>1. Inv /\ [Next]_vars =>
          [\A j \in Jobs : IsUploading(j) /\ rec'[j].status = "queued" /\ ~lost[j] =>
              Len(upload[j]) >= Total /\ InPlace(j, Total)]_vars
    <2> SUFFICES ASSUME Inv, [Next]_vars, NEW k \in Jobs,
                        IsUploading(k), rec'[k].status = "queued", ~lost[k]
                 PROVE  Len(upload[k]) >= Total /\ InPlace(k, Total)
      OBVIOUS
    <2>1. CompleteSaves(k)
      <3> USE DEF Inv
      <3>1. rec[k] \in Record /\ rec[k].status = "uploading" /\ rec'[k] # rec[k]
        BY DEF IsUploading, TypeOK
      <3>2. build[k] = "none"
        BY DEF IsUploading, Outcome, TaskMatchesRecord
      <3>3. ASSUME NEW j \in Jobs, Cleanup(j) PROVE FALSE
        BY <3>1, <3>3, SavedFiles, SavedRecords DEF TrySave, Save, TypeOK
      <3>4. ASSUME NEW j \in Jobs, ChunkSaved(j) PROVE FALSE
        <4>1. rec[j] \in Record /\ handler[j] \in Handler
          BY <3>4 DEF TypeOK, ChunkSaved, Writing, Content, Staged, ActiveUpload, IsUploading
        <4>2. /\ Chunk(j).next \in 0..Total
              /\ (IF Chunk(j).offset = 0 THEN Digest[Chunk(j).file] ELSE rec[j].file_fingerprint)
                    \in Digests \cup {NoFile}
          BY <4>1 DEF Chunk, Handler, Record
        <4>3. /\ rec'[j].status = rec[j].status
              /\ \A i \in Jobs \ {j} : rec'[i] = rec[i]
          <5> DEFINE f == IF Chunk(j).offset = 0 THEN Digest[Chunk(j).file]
                          ELSE rec[j].file_fingerprint
          <5> DEFINE r == Progressed(rec[j], Chunk(j).next, f)
          <5>1. Save(j, r)
            BY <3>4, SavedFiles
          <5> HIDE DEF f
          <5>2. r.status = rec[j].status
            <6>1. f \in Digests \cup {NoFile}
              BY <4>2 DEF f
            <6>2. Chunk(j).next \in 0..Total /\ rec[j] \in Record
              BY <4>1, <4>2
            <6>3. QED BY <6>1, <6>2, ProgressedRecord, Z3
          <5> HIDE DEF r
          <5>3. QED BY <5>1, <5>2 DEF Save, TypeOK
        <4>4. QED BY <3>1, <4>3
      <3>5. ~Restart
        <4>1. Recovered(k).status = "failed"
          BY <3>1, SavedRecords, RecoveredRecord
        <4>2. QED BY <3>1, <4>1 DEF Restart
      <3>6. ASSUME NEW j \in Jobs, BuildStart(j) \/ BuildSucceeds(j) \/ BuildFails(j) PROVE FALSE
        <4>1. j # k
          BY <3>2, <3>6 DEF BuildStart, BuildSucceeds, BuildFails
        <4>2. QED BY <3>1, <3>6, <4>1 DEF BuildStart, BuildSucceeds, BuildFails, TrySave, Save, TypeOK
      <3>7. ASSUME NEW j \in Jobs, NEW mode \in Modes, NEW f \in Files, Create(j, mode, f) PROVE FALSE
        BY <3>1, <3>7 DEF Create, Save, TypeOK, IsUploading
      <3>8. PICK j \in Jobs : CompleteSaves(j)
        BY <3>1, <3>3, <3>4, <3>5, <3>6, <3>7
           DEF Next, vars, CreateFails, ChunkIsDuplicate, ChunkStart, WritePiece, ChunkFails,
               HandlerDropped, LateWrite, LateCut, CompleteChecks, CompleteFails, BuildLock,
               Rename, WriteCurrent, Age, OtherWriter, Recover, Crash
      <3>9. j = k
        BY <3>1, <3>8 DEF CompleteSaves, Save, TypeOK
      <3>10. QED BY <3>8, <3>9
    <2>2. QED
      BY <2>1 DEF CompleteSaves, Inv, Content, Staged, CompletingUpload
  <1>2. QED BY <1>1, InvHolds, PTL DEF Spec, QueuedUploadsAreInPlace

(* A build becomes CURRENT only while what its mode assumes of the bucket  *)
(* holds.                                                                  *)
THEOREM CreatesFillEmptyBucket == Spec => CreateFillsEmptyBucket
  <1>1. Inv /\ [Next]_vars =>
          [\A j \in Jobs : build[j] = "renamed" /\ build'[j] = "published" =>
              ready = (rec[j].mode = "append")]_vars
    BY DEF Inv, Outcome, BuildHoldsLock, HoldsLock, ModeStillApplies
  <1>2. QED BY <1>1, InvHolds, PTL DEF Spec, CreateFillsEmptyBucket
=============================================================================
