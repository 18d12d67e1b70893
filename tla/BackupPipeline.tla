--------------------------- MODULE BackupPipeline ---------------------------
(***************************************************************************)
(* The backup engine of internal/backup/engine.go: one session at a time   *)
(* pulls the database snapshot from object storage, scans the disk, hashes *)
(* and deduplicates, compresses, encrypts and uploads each new content,    *)
(* indexes the session's files, releases the references of deleted files   *)
(* and pushes the database back.  Around it the disk changes, the process  *)
(* crashes, the session is cancelled and the object store misbehaves.      *)
(*                                                                         *)
(* A file's content is its SHA-256; the storage key data/<xx>/<hash>.enc   *)
(* is that hash.  A file whose hashing failed has hash "" (NoHash), and    *)
(* all such files share the key data/00/.enc.                              *)
(***************************************************************************)
EXTENDS Integers, Sequences, FiniteSets

CONSTANTS
  Paths,         \* the files under the backup directories
  Hashes,        \* the contents a file can have
  NoHash,        \* the hash "" of a file that could not be read for hashing
  None,          \* no file, no row, no object, no IV, no snapshot
  Compressible,  \* the paths whose extension is worth compressing
  Reuse,         \* the contents that may appear twice (copies, reverted edits)
  Faults,        \* the kinds of fault the environment may inject
  MaxRuns,       \* bound on the number of sessions started
  MaxEdits,      \* bound on the number of changes to the disk
  MaxFaults      \* bound on the number of faults

FaultKinds ==
  {"liveDisk", "walkError", "hashError", "batchCheckError", "preCheckError", "nonceUnreadable",
   "fileError", "rowError", "hardError", "statusError", "cancel", "crash", "pullError",
   "pushError", "loss", "deleteError", "fixError", "timeout"}

ASSUME NamesAssumption ==
  /\ None \notin Hashes /\ NoHash \notin Hashes /\ None # NoHash
  /\ Compressible \subseteq Paths
  /\ Reuse \subseteq Hashes

ASSUME BoundsAssumption ==
  /\ Faults \subseteq FaultKinds
  /\ MaxRuns \in Nat /\ MaxEdits \in Nat /\ MaxFaults \in Nat

Keys == Hashes \cup {NoHash}

VARIABLES
  disk,       \* the content of each path, None where there is no file
  seen,       \* history: the contents that have been on the disk
  oss,        \* the object under each storage key, None where there is none
  snap,       \* the authoritative database snapshot oss.db, None where there is none to read
  torn,       \* whether an oss.db.enc without its own oss.db.iv is there instead
  files,      \* table files: one row per path ever backed up
  index,      \* table hash_index: reference count and orphan mark per hash
  synthetic,  \* keys with a "reconciled:<key>" row in hash_index
  rows,       \* table backup_files
  backups,    \* table backups: the status of session 1, 2, ...
  phase,      \* where the engine is in executeBackup
  job,        \* the locals of executeBackup
  runs,       \* how many sessions were started since the beginning
  edits,      \* how many disk changes were made
  faults      \* how many faults were injected

tables == <<files, index, synthetic, rows, backups>>
bounds == <<edits, faults>>
vars == <<disk, seen, oss, snap, torn, tables, phase, job, runs, bounds>>

-----------------------------------------------------------------------------
(* Types. *)

\* An IV is fresh random bytes: it is named by the run and the path it was
\* drawn for, so that two encryptions never share one.
IVs == (1..MaxRuns) \X Paths
Statuses == {"pending", "running", "completed", "completed_with_errors",
             "failed", "cancelled"}
Unsettled == {"pending", "running"}

FileRows == [status : {"active", "deleted"}, hash : Keys,
             last : {"none", "success", "failed"}]
HashRows == [ref : Nat, orphaned : BOOLEAN]
BackupRows == [backup : Nat, path : Paths, key : Keys,
               iv : IVs \cup {None}, comp : BOOLEAN]
Objects == [content : Hashes, iv : IVs, comp : BOOLEAN]
Metas == [iv : IVs \cup {None}, comp : BOOLEAN]
Items == [path : Paths, content : Hashes, iv : IVs, comp : BOOLEAN,
          stored : BOOLEAN]
Snapshots == [files : [Paths -> FileRows \cup {None}],
              index : [Keys -> HashRows \cup {None}],
              synthetic : SUBSET Keys,
              rows : SUBSET BackupRows,
              backups : Seq(Statuses)]
Kinds == {"none", "added", "modified", "unchanged", "deleted"}
Jobs == [cur : Nat,
         kind : [Paths -> Kinds],       \* FileChange.ChangeType of the scan
         hash : [Paths -> Keys],        \* FileChange.NewHash
         pending : SUBSET Paths,        \* pendingChecks of Deduplicate
         confirmed : SUBSET Keys,       \* keys ExistsBatch reported present
         upload : SUBSET Paths,         \* DedupResult.ToUpload, what is left of it
         fresh : SUBSET Paths,          \* the entries of it with IsNew
         skipped : SUBSET Paths,        \* DedupResult.Skipped, what is left of it
         gone : SUBSET Paths,           \* deletedPaths, what is left of them
         item : Items \cup {None},      \* the file in processAndUploadFile
         batch : SUBSET BackupRows,     \* backupFiles
         meta : [Keys -> Metas \cup {None}],  \* pendingByHash
         failed : BOOLEAN,              \* failedFiles > 0
         cancelled : BOOLEAN]           \* the context was cancelled
Phases == {"idle", "scan", "hash", "check", "dedup", "upload", "skip", "index",
           "delete", "unref", "status", "push", "down"}
Working == Phases \ {"idle", "down"}

\* No row, object, IV or item is None itself.
ASSUME NoneAssumption ==
  /\ None \notin IVs \cup FileRows \cup HashRows \cup Objects
  /\ None \notin Metas \cup Items \cup Snapshots

TypeOK ==
  /\ disk \in [Paths -> Hashes \cup {None}]
  /\ seen \subseteq Hashes
  /\ oss \in [Keys -> Objects \cup {None}]
  /\ snap \in Snapshots \cup {None} /\ torn \in BOOLEAN
  /\ files \in [Paths -> FileRows \cup {None}]
  /\ index \in [Keys -> HashRows \cup {None}]
  /\ synthetic \subseteq Keys
  /\ rows \subseteq BackupRows
  /\ backups \in Seq(Statuses)
  /\ phase \in Phases
  /\ job \in Jobs
  /\ runs \in 0..MaxRuns /\ edits \in 0..MaxEdits /\ faults \in 0..MaxFaults

-----------------------------------------------------------------------------
(* The repositories: what each statement does to its table. *)

\* FileRepository.Upsert: the row becomes active with the new hash; the
\* last_backup columns are kept.
UpsertFile(p, h) ==
  [files EXCEPT ![p] =
     [status |-> "active", hash |-> h,
      last |-> IF files[p] = None THEN "none" ELSE files[p].last]]

\* MarkBackupSuccess and MarkBackupFailed, right after an Upsert of the path.
UpsertMarked(p, h, outcome) ==
  [files EXCEPT ![p] = [status |-> "active", hash |-> h, last |-> outcome]]

\* Mutant: ON CONFLICT DO NOTHING, the second upload of a content counts nothing.
InsertHash(h) ==
  IF index[h] = None THEN [index EXCEPT ![h] = [ref |-> 1, orphaned |-> FALSE]] ELSE index

\* HashRepository.Upsert: a new row has one reference; an existing one gains one.
UpsertHash(h) ==
  [index EXCEPT ![h] =
     [ref |-> IF index[h] = None THEN 1 ELSE index[h].ref + 1, orphaned |-> FALSE]]

\* IncrementRef clears orphaned_at only when the count was zero.
IncrementRef(h) ==
  [index EXCEPT ![h] =
     [ref |-> index[h].ref + 1,
      orphaned |-> index[h].orphaned /\ index[h].ref # 0]]

\* DecrementRef never goes below zero; reaching zero starts the grace period.
DecrementRef(h) ==
  IF index[h] = None \/ index[h].ref = 0 THEN index
  ELSE [index EXCEPT ![h] =
          [ref |-> index[h].ref - 1,
           orphaned |-> index[h].orphaned \/ index[h].ref = 1]]

\* GetFileRestoreInfo: the row of p of its latest session (a singleton, or empty).
LatestRows(p) ==
  {r \in rows : r.path = p /\ \A s \in rows : s.path = p => s.backup <= r.backup}

\* GetByHash: the active files with hash h, in no stated order.
ActiveWith(fs, h) == {q \in Paths : fs[q] # None /\ fs[q].status = "active" /\ fs[q].hash = h}

IsActive(p) == files[p] # None /\ files[p].status = "active"

\* The database file that PushOSSDB uploads.
Database == [files |-> files, index |-> index, synthetic |-> synthetic,
             rows |-> rows, backups |-> backups]

\* Mutant: a database that has sessions is not replaced.
PulledWhenNew(local) == IF snap = None \/ local.backups # << >> THEN local ELSE snap

\* PullOSSDB and Reopen: with no oss.db yet the local database stays.
Pulled(local) == IF snap = None THEN local ELSE snap

LoadDatabase(d) ==
  /\ files' = d.files /\ index' = d.index /\ synthetic' = d.synthetic
  /\ rows' = d.rows

-----------------------------------------------------------------------------
(* The session. *)

NoJob ==
  [cur |-> 0, kind |-> [p \in Paths |-> "none"], hash |-> [p \in Paths |-> NoHash],
   pending |-> {}, confirmed |-> {}, upload |-> {}, fresh |-> {}, skipped |-> {},
   gone |-> {}, item |-> None, batch |-> {}, meta |-> [k \in Keys |-> None],
   failed |-> FALSE, cancelled |-> FALSE]

Init ==
  /\ disk \in [Paths -> Hashes \cup {None}]
  /\ \A p, q \in Paths : disk[p] = disk[q] /\ disk[p] \notin Reuse \cup {None} => p = q
  /\ seen = {disk[p] : p \in Paths} \ {None}
  /\ oss = [k \in Keys |-> None]
  /\ snap = None /\ torn = FALSE
  /\ files = [p \in Paths |-> None]
  /\ index = [k \in Keys |-> None]
  /\ synthetic = {} /\ rows = {} /\ backups = << >>
  /\ phase = "idle" /\ job = NoJob
  /\ runs = 0 /\ edits = 0 /\ faults = 0

\* The environment injects one more fault of kind f.
Fault(f) ==
  /\ f \in Faults /\ faults < MaxFaults
  /\ faults' = faults + 1 /\ UNCHANGED edits

SetStatus(s) == backups' = [backups EXCEPT ![job.cur] = s]

\* preBackupCheck looks at the local database, and the pull must find a snapshot
\* it can decrypt, or none.
CanStart == ~torn /\ \A i \in DOMAIN backups : backups[i] # "running"

\* The snapshot replaces the local database and the session is created, pending,
\* in the result.
StartBackup ==
  LET d == Pulled(Database) IN
  /\ phase = "idle" /\ runs < MaxRuns
  /\ CanStart
  /\ LoadDatabase(d)
  /\ backups' = Append(d.backups, "pending")
  /\ runs' = runs + 1
  /\ phase' = "scan"
  /\ job' = [NoJob EXCEPT !.cur = Len(d.backups) + 1]
  /\ UNCHANGED <<disk, seen, oss, snap, torn, bounds>>

\* What the walk and the comparison with the active rows can make of path p:
\* a touched file is reported modified although its content is the same, and a
\* row with no hash compares by size and time alone.
KindsOf(p) ==
  IF disk[p] = None THEN IF IsActive(p) THEN {"deleted"} ELSE {"none"}
  ELSE IF ~IsActive(p) THEN {"added"}
  ELSE IF files[p].hash \in {disk[p], NoHash} THEN {"modified", "unchanged"}
  ELSE {"modified"}

\* A directory that cannot be read contributes no path: its active files look deleted.
LostInWalk(p) == IF IsActive(p) THEN "deleted" ELSE "none"

\* Phases 1 and 2: the session is running, ScanWithProgress compares the disk
\* with the active rows.  W is what an unreadable directory hides.
Scan ==
  /\ phase = "scan"
  /\ SetStatus("running")
  /\ \E kind \in [Paths -> Kinds], W \in SUBSET {p \in Paths : disk[p] # None} :
       /\ \A p \in Paths : IF p \in W THEN kind[p] = LostInWalk(p) ELSE kind[p] \in KindsOf(p)
       /\ IF W = {} THEN UNCHANGED bounds ELSE Fault("walkError")
       /\ job' = [job EXCEPT !.kind = kind]
  /\ phase' = "hash"
  /\ UNCHANGED <<disk, seen, oss, snap, torn, files, index, synthetic, rows, runs>>

\* Mutant: a file that has a row keeps the hash of its row.
RowHash(p, unread) ==
  IF files[p] # None THEN files[p].hash
  ELSE IF p \in unread \/ disk[p] = None THEN NoHash ELSE disk[p]

\* FileChange.NewHash after ComputeHashes: an unchanged file keeps the hash of
\* its row, a file that could not be read (or is gone by now) keeps "".
NewHash(p, unread) ==
  CASE job.kind[p] = "unchanged" -> files[p].hash
    [] job.kind[p] \in {"added", "modified"} /\ p \notin unread /\ disk[p] # None -> disk[p]
    [] OTHER -> NoHash

\* Phases 3 and 4: added and modified files are hashed, unchanged ones keep the
\* hash of their row; a file that cannot be read (E) keeps the hash "".  All of
\* them are processed, and the deleted paths are set aside.
ComputeHashes ==
  /\ phase = "hash" /\ ~job.cancelled
  /\ \E E \in SUBSET {p \in Paths : job.kind[p] \in {"added", "modified"} /\ disk[p] # None} :
       /\ IF E = {} THEN UNCHANGED bounds ELSE Fault("hashError")
       /\ job' = [job EXCEPT !.hash = [p \in Paths |-> NewHash(p, E)],
                             !.gone = {p \in Paths : job.kind[p] = "deleted"}]
  /\ phase' = "check"
  /\ UNCHANGED <<disk, seen, oss, snap, torn, tables, runs>>

\* Mutant: a hash row is taken for its object.
TrustIndex(keys) == keys

\* ExistsBatch: the keys that have an object.
ExistsBatch(keys) == {k \in keys : oss[k] # None}

\* Passes 1 and 2 of Deduplicate: contents without a hash row are new; the keys
\* of the others are checked in one batch, where a failed check means absent.
CheckObjects ==
  LET changed == {p \in Paths : job.kind[p] \in {"added", "modified", "unchanged"}}
      new == {p \in changed : job.hash[p] = NoHash \/ index[job.hash[p]] = None}
      present == ExistsBatch({job.hash[p] : p \in changed \ new}) IN
  /\ phase = "check" /\ ~job.cancelled
  /\ \E C \in SUBSET present :
       /\ IF C = present THEN UNCHANGED bounds ELSE Fault("batchCheckError")
       /\ job' = [job EXCEPT !.upload = new, !.fresh = new,
                             !.pending = changed \ new, !.confirmed = C]
  /\ phase' = "dedup"
  /\ UNCHANGED <<disk, seen, oss, snap, torn, tables, runs>>

\* Pass 3: a confirmed object is referenced once more and not uploaded; any
\* other is queued for upload without a new reference.
DedupFile(p) ==
  /\ phase = "dedup" /\ p \in job.pending
  /\ IF job.hash[p] \in job.confirmed
     THEN /\ index[job.hash[p]] # None
          /\ index' = IncrementRef(job.hash[p])
          /\ job' = [job EXCEPT !.pending = @ \ {p}, !.skipped = @ \cup {p}]
     ELSE /\ job' = [job EXCEPT !.pending = @ \ {p}, !.upload = @ \cup {p}]
          /\ UNCHANGED index
  /\ UNCHANGED <<disk, seen, oss, snap, torn, files, synthetic, rows, backups, phase, runs, bounds>>

DedupDone ==
  /\ phase = "dedup" /\ job.pending = {}
  /\ phase' = "upload"
  /\ UNCHANGED <<disk, seen, oss, snap, torn, tables, job, runs, bounds>>

\* Start of processAndUploadFile: the row is upserted, then whatever the disk
\* holds now is compressed and encrypted under a fresh IV.
SealFile(p) ==
  /\ phase = "upload" /\ ~job.cancelled /\ job.item = None
  /\ p \in job.upload /\ disk[p] # None
  /\ files' = UpsertFile(p, job.hash[p])
  /\ job' = [job EXCEPT !.upload = @ \ {p},
                        !.item = [path |-> p, content |-> disk[p], iv |-> <<runs, p>>,
                                  comp |-> p \in Compressible, stored |-> FALSE]]
  /\ UNCHANGED <<disk, seen, oss, snap, torn, index, synthetic, rows, backups, phase, runs, bounds>>

\* The storage key of the item, and the object its encryption would store.
ItemKey == job.hash[job.item.path]
ItemObject == [content |-> job.item.content, iv |-> job.item.iv, comp |-> job.item.comp]

\* UploadOrReuseNonce, by what the store answers.  Nothing there: the object is
\* written.  There and readable: the recorded IV becomes the object's own.
PutObject ==
  /\ oss[ItemKey] = None
  /\ oss' = [oss EXCEPT ![ItemKey] = ItemObject]
  /\ job' = [job EXCEPT !.item.stored = TRUE]
  /\ UNCHANGED bounds

\* Mutants of ReuseNonce: the nonce read is empty; the object is written anyway;
\* the fresh IV is recorded for the old object.
ReuseEmptyNonce ==
  /\ oss[ItemKey] # None
  /\ job' = [job EXCEPT !.item.iv = None, !.item.stored = TRUE]
  /\ UNCHANGED <<oss, bounds>>

UploadAnyway ==
  /\ oss[ItemKey] # None
  /\ oss' = [oss EXCEPT ![ItemKey] = ItemObject]
  /\ job' = [job EXCEPT !.item.stored = TRUE]
  /\ UNCHANGED bounds

KeepFreshNonce ==
  /\ oss[ItemKey] # None
  /\ job' = [job EXCEPT !.item.stored = TRUE]
  /\ UNCHANGED <<oss, bounds>>

ReuseNonce ==
  /\ oss[ItemKey] # None
  /\ job' = [job EXCEPT !.item.iv = oss[ItemKey].iv, !.item.stored = TRUE]
  /\ UNCHANGED <<oss, bounds>>

\* There, but its nonce cannot be read (an archive tier): it is overwritten.
OverwriteFrozen ==
  /\ oss[ItemKey] # None /\ Fault("nonceUnreadable")
  /\ oss' = [oss EXCEPT ![ItemKey] = ItemObject]
  /\ job' = [job EXCEPT !.item.stored = TRUE]

\* There, but the existence check fails: the fall-through upload checks again
\* and either skips silently or, when that check fails too, overwrites.
UploadUnsure ==
  /\ oss[ItemKey] # None /\ Fault("preCheckError")
  /\ oss' \in {oss, [oss EXCEPT ![ItemKey] = ItemObject]}
  /\ job' = [job EXCEPT !.item.stored = TRUE]

UploadObject ==
  /\ phase = "upload" /\ ~job.cancelled
  /\ job.item # None /\ ~job.item.stored
  /\ PutObject \/ ReuseNonce \/ OverwriteFrozen \/ UploadUnsure
  /\ UNCHANGED <<disk, seen, snap, torn, tables, phase, runs>>

\* The backup_files row of path p in this session.
RowOf(p, m) == [backup |-> job.cur, path |-> p, key |-> job.hash[p],
                iv |-> m.iv, comp |-> m.comp]

\* Mutant: the upload goes on in the background and is taken for done.
AssumeUploaded == job.item # None

\* The upload returned and Exists finds the object.
Verified == job.item.stored /\ oss[ItemKey] # None

\* The object is verified, a new content gets (or shares) its hash row, the file
\* is marked (a mark that fails is only logged) and its row and metadata are kept
\* for the end of the session.
RecordUpload ==
  LET p == job.item.path
      m == [iv |-> job.item.iv, comp |-> job.item.comp] IN
  /\ phase = "upload" /\ job.item # None /\ Verified
  /\ index' = IF p \in job.fresh THEN UpsertHash(ItemKey) ELSE index
  /\ \/ files' = UpsertMarked(p, ItemKey, "success") /\ UNCHANGED bounds
     \/ Fault("rowError") /\ UNCHANGED files
  /\ job' = [job EXCEPT !.item = None, !.batch = @ \cup {RowOf(p, m)},
                        !.meta = IF ItemKey = NoHash THEN @ ELSE [@ EXCEPT ![ItemKey] = m]]
  /\ UNCHANGED <<disk, seen, oss, snap, torn, synthetic, rows, backups, phase, runs>>

\* Mutant: the failure is logged and not counted.
FileFailsQuietly(p) ==
  /\ files' = UpsertMarked(p, job.hash[p], "failed")
  /\ job' = [job EXCEPT !.upload = @ \ {p}, !.item = None]
  /\ UNCHANGED <<disk, seen, oss, snap, torn, index, synthetic, rows, backups, phase, runs>>

\* A file that fails (the disk lost it, no temporary space, compression,
\* encryption, upload or verification failed) is upserted, marked failed and
\* left out; the session goes on.
FileFails(p) ==
  /\ files' = UpsertMarked(p, job.hash[p], "failed")
  /\ job' = [job EXCEPT !.upload = @ \ {p}, !.item = None, !.failed = TRUE]
  /\ UNCHANGED <<disk, seen, oss, snap, torn, index, synthetic, rows, backups, phase, runs>>

FailBeforeSealing(p) ==
  /\ phase = "upload" /\ ~job.cancelled /\ job.item = None /\ p \in job.upload
  /\ IF disk[p] = None THEN UNCHANGED bounds ELSE Fault("fileError")
  /\ FileFails(p)

FailAfterSealing ==
  /\ phase = "upload" /\ job.item # None
  /\ IF job.cancelled \/ (job.item.stored /\ oss[ItemKey] = None)
     THEN UNCHANGED bounds ELSE Fault("fileError")
  /\ FileFails(job.item.path)

\* A file that fails when its row cannot be written or marked either.
FailUnmarked(p) ==
  /\ phase = "upload" /\ Fault("rowError")
  /\ IF job.item = None THEN ~job.cancelled /\ p \in job.upload ELSE p = job.item.path
  /\ files' \in {files, UpsertFile(p, job.hash[p])}
  /\ job' = [job EXCEPT !.upload = @ \ {p}, !.item = None, !.failed = TRUE]
  /\ UNCHANGED <<disk, seen, oss, snap, torn, index, synthetic, rows, backups, phase, runs>>

UploadsDone ==
  /\ phase = "upload" /\ ~job.cancelled /\ job.upload = {} /\ job.item = None
  /\ phase' = "skip"
  /\ UNCHANGED <<disk, seen, oss, snap, torn, tables, job, runs, bounds>>

NoMeta == [iv |-> None, comp |-> FALSE]

\* The metadata a skipped file is recorded with: that of an upload of this
\* session, else that of the latest row of some active file with the hash,
\* else no IV and no compression.
SkippedMeta(fs, p) ==
  LET h == job.hash[p]
      latest(q) == {[iv |-> r.iv, comp |-> r.comp] : r \in LatestRows(q)} IN
  IF job.meta[h] # None THEN {job.meta[h]}
  ELSE UNION {IF LatestRows(q) = {} THEN {NoMeta} ELSE latest(q)
              : q \in ActiveWith(fs, h)}

RecordSkipped(p) ==
  LET fs == UpsertMarked(p, job.hash[p], "success") IN
  /\ phase = "skip" /\ ~job.cancelled /\ p \in job.skipped
  /\ files' = fs
  /\ \E m \in SkippedMeta(fs, p) :
       job' = [job EXCEPT !.skipped = @ \ {p}, !.batch = @ \cup {RowOf(p, m)}]
  /\ UNCHANGED <<disk, seen, oss, snap, torn, index, synthetic, rows, backups, phase, runs, bounds>>

\* One of the statements for a skipped file fails, which is logged and not counted:
\* its row is not written and the file is passed over; or it is not marked; or the
\* metadata cannot be read and is left out.
SkipFails(p) ==
  LET Recorded(m) == job' = [job EXCEPT !.skipped = @ \ {p}, !.batch = @ \cup {RowOf(p, m)}] IN
  /\ phase = "skip" /\ ~job.cancelled /\ p \in job.skipped
  /\ Fault("rowError")
  /\ \/ files' = files /\ job' = [job EXCEPT !.skipped = @ \ {p}]
     \/ /\ files' = UpsertFile(p, job.hash[p])
        /\ \E m \in SkippedMeta(files', p) : Recorded(m)
     \/ /\ files' = UpsertMarked(p, job.hash[p], "success")
        /\ job.meta[job.hash[p]] = None /\ Recorded(NoMeta)
  /\ UNCHANGED <<disk, seen, oss, snap, torn, index, synthetic, rows, backups, phase, runs>>

SkipsDone ==
  /\ phase = "skip" /\ ~job.cancelled /\ job.skipped = {}
  /\ phase' = "index"
  /\ UNCHANGED <<disk, seen, oss, snap, torn, tables, job, runs, bounds>>

\* Mutant: the session's rows replace those of earlier sessions.
ReplaceBackupFiles ==
  /\ phase = "index" /\ ~job.cancelled
  /\ rows' = {r \in rows : \A s \in job.batch : r.path # s.path} \cup job.batch
  /\ phase' = "delete"
  /\ UNCHANGED <<disk, seen, oss, snap, torn, files, index, synthetic, backups, job, runs, bounds>>

\* Phase 8: all rows of the session in one transaction.  From here a
\* cancellation is no longer noticed.
AddBackupFiles ==
  /\ phase = "index" /\ ~job.cancelled
  /\ rows' = rows \cup job.batch
  /\ phase' = "delete"
  /\ UNCHANGED <<disk, seen, oss, snap, torn, files, index, synthetic, backups, job, runs, bounds>>

\* Phase 9: the deleted files are marked in one transaction, then each gives up
\* one reference to the content of its row.
MarkDeleted ==
  /\ phase = "delete"
  /\ files' = [p \in Paths |-> IF p \in job.gone /\ files[p] # None
                               THEN [files[p] EXCEPT !.status = "deleted"] ELSE files[p]]
  /\ phase' = "unref"
  /\ UNCHANGED <<disk, seen, oss, snap, torn, index, synthetic, rows, backups, job, runs, bounds>>

ReleaseFile(p) ==
  /\ phase = "unref" /\ p \in job.gone
  /\ index' = IF files[p] # None /\ files[p].hash # NoHash
              THEN DecrementRef(files[p].hash) ELSE index
  /\ job' = [job EXCEPT !.gone = @ \ {p}]
  /\ UNCHANGED <<disk, seen, oss, snap, torn, files, synthetic, rows, backups, phase, runs, bounds>>

\* Its row or the count cannot be read or written: logged, and the reference stays.
ReleaseFails(p) ==
  /\ phase = "unref" /\ p \in job.gone
  /\ Fault("rowError")
  /\ job' = [job EXCEPT !.gone = @ \ {p}]
  /\ UNCHANGED <<disk, seen, oss, snap, torn, tables, phase, runs>>

ReleasesDone ==
  /\ phase = "unref" /\ job.gone = {}
  /\ phase' = "status"
  /\ UNCHANGED <<disk, seen, oss, snap, torn, tables, job, runs, bounds>>

\* The deferred calls of a session that returned no error, last first: the
\* terminal status, the push of the database, the end of the session.
Complete ==
  /\ phase = "status"
  /\ SetStatus(IF job.failed THEN "completed_with_errors" ELSE "completed")
  /\ phase' = "push"
  /\ UNCHANGED <<disk, seen, oss, snap, torn, files, index, synthetic, rows, job, runs, bounds>>

\* UpdateStatus fails, its error is dropped, and the push follows all the same.
CompleteUnrecorded ==
  /\ phase = "status" /\ Fault("statusError")
  /\ phase' = "push"
  /\ UNCHANGED <<disk, seen, oss, snap, torn, tables, job, runs>>

EndSession == phase' = "idle" /\ job' = NoJob

PushSnapshot ==
  /\ phase = "push"
  /\ snap' = Database /\ torn' = FALSE
  /\ EndSession
  /\ UNCHANGED <<disk, seen, oss, tables, runs, bounds>>

\* The new .enc is there and its .iv is not: nothing decrypts to a database any more.
Tear == snap' = None /\ torn' = TRUE

\* What a push that failed leaves: the snapshot there was; nothing, as the .enc whose
\* .iv cannot follow is deleted; or that .enc, when this fails too or the upload that
\* failed had taken effect.
PushFailed ==
  \/ UNCHANGED <<snap, torn>>
  \/ snap' = None /\ torn' = FALSE
  \/ Tear

PushFails ==
  /\ phase = "push" /\ Fault("pushError")
  /\ PushFailed
  /\ EndSession
  /\ UNCHANGED <<disk, seen, oss, tables, runs>>

\* A session that returns an error gets its status and ends without a push.
Abort ==
  /\ SetStatus(IF job.cancelled THEN "cancelled" ELSE "failed")
  /\ EndSession
  /\ UNCHANGED <<disk, seen, oss, snap, torn, files, index, synthetic, rows, runs>>

\* Mutants of NoticeCancel: the context is also looked at among the deletions; a
\* cancelled upload loop skips its files without returning.
NoticeCancelLate ==
  /\ job.cancelled
  /\ phase \in {"hash", "check", "upload", "skip", "index", "delete", "unref"}
  /\ job.item = None
  /\ UNCHANGED bounds
  /\ Abort

NoticeCancelEarly ==
  /\ job.cancelled /\ phase \in {"hash", "check"}
  /\ UNCHANGED bounds
  /\ Abort

\* The context is looked at between phases and before each file.
CancelNoticed ==
  job.cancelled /\ phase \in {"hash", "check", "upload", "skip", "index"} /\ job.item = None

NoticeCancel ==
  /\ CancelNoticed
  /\ UNCHANGED bounds
  /\ Abort

\* A database statement or the temporary directory fails: the whole session does.
HardPhases == {"scan", "check", "dedup", "index", "delete", "status"}

HardError ==
  /\ phase \in HardPhases
  /\ Fault("hardError")
  /\ Abort

\* As Abort, but UpdateStatus fails too and its error is dropped: the record of the
\* session stays as it was, running but for a session that never got that far.
EndUnrecorded ==
  /\ Fault("statusError")
  /\ EndSession
  /\ UNCHANGED <<disk, seen, oss, snap, torn, tables, runs>>

AbortUnrecorded ==
  /\ CancelNoticed \/ (phase \in HardPhases /\ "hardError" \in Faults)
  /\ EndUnrecorded

-----------------------------------------------------------------------------
(* Around the session. *)

\* The owner of the files adds, changes or deletes one; a content
\* outside Reuse is a new one.
Edit(p, c) ==
  /\ edits < MaxEdits
  /\ phase \in {"idle", "down"} \/ "liveDisk" \in Faults
  /\ c # disk[p] /\ c \notin seen \ Reuse
  /\ disk' = [disk EXCEPT ![p] = c]
  /\ seen' = seen \cup ({c} \ {None})
  /\ edits' = edits + 1
  /\ UNCHANGED <<oss, snap, torn, tables, phase, job, runs, faults>>

\* Cancel of the running session: its context is cancelled.
Cancel ==
  /\ phase \in Working \ {"push"} /\ ~job.cancelled
  /\ Fault("cancel")
  /\ job' = [job EXCEPT !.cancelled = TRUE]
  /\ UNCHANGED <<disk, seen, oss, snap, torn, tables, phase, runs>>

\* The store loses an object (a lifecycle rule, an operator, another program).
Lose(k) ==
  /\ oss[k] # None
  /\ Fault("loss")
  /\ oss' = [oss EXCEPT ![k] = None]
  /\ UNCHANGED <<disk, seen, snap, torn, tables, phase, job, runs>>

\* The process dies: what was in memory is lost, the local database is not.  In a
\* push that may be between the two objects of the snapshot.
Crash ==
  /\ phase # "down"
  /\ Fault("crash")
  /\ phase' = "down" /\ job' = NoJob
  /\ UNCHANGED <<snap, torn>> \/ (phase = "push" /\ Tear)
  /\ UNCHANGED <<disk, seen, oss, tables, runs>>

\* Mutant: only the sessions that were running are settled.
CleanedRunning == [Database EXCEPT !.backups =
                     [i \in DOMAIN backups |->
                        IF backups[i] = "running" THEN "failed" ELSE backups[i]]]

\* main: CleanupStaleRunning settles the local sessions, then InitFromOSS
\* replaces the local database by the snapshot; if it cannot, the service
\* goes on with the local one.
Cleaned == [Database EXCEPT !.backups =
              [i \in DOMAIN backups |->
                 IF backups[i] \in Unsettled THEN "failed" ELSE backups[i]]]

Restart ==
  /\ phase = "down"
  /\ \/ /\ ~torn
        /\ LoadDatabase(Pulled(Cleaned))
        /\ backups' = Pulled(Cleaned).backups
        /\ UNCHANGED bounds
     \/ /\ LoadDatabase(Cleaned)
        /\ backups' = Cleaned.backups
        /\ IF torn THEN UNCHANGED bounds ELSE Fault("pullError")
  /\ phase' = "idle"
  /\ UNCHANGED <<disk, seen, oss, snap, torn, job, runs>>

SessionStep ==
  \/ Scan \/ ComputeHashes \/ CheckObjects
  \/ (\E p \in Paths : DedupFile(p)) \/ DedupDone
  \/ (\E p \in Paths : SealFile(p) \/ FailBeforeSealing(p) \/ FailUnmarked(p))
  \/ UploadObject \/ RecordUpload \/ FailAfterSealing \/ UploadsDone
  \/ (\E p \in Paths : RecordSkipped(p) \/ SkipFails(p)) \/ SkipsDone
  \/ AddBackupFiles \/ MarkDeleted
  \/ (\E p \in Paths : ReleaseFile(p) \/ ReleaseFails(p)) \/ ReleasesDone
  \/ Complete \/ CompleteUnrecorded \/ PushSnapshot \/ PushFails
  \/ NoticeCancel \/ HardError \/ AbortUnrecorded

Environment ==
  \/ \E p \in Paths, c \in Hashes \cup {None} : Edit(p, c)
  \/ Cancel \/ Crash
  \/ \E k \in Keys : Lose(k)

\* The bound on the number of sessions is reached: the model ends here, so that
\* any other state without a step is a deadlock.
Exhausted == phase = "idle" /\ runs = MaxRuns /\ UNCHANGED vars

\* Every start is refused: the snapshot cannot be decrypted, or a session is running in
\* the database and nowhere else.  A restart settles the latter, unless it was pushed.
Refused == phase = "idle" /\ ~CanStart /\ UNCHANGED vars

Next == StartBackup \/ SessionStep \/ Restart \/ Environment \/ Exhausted \/ Refused

Spec == Init /\ [][Next]_vars

\* A running session is a goroutine that keeps going; a process that died is
\* restarted by its supervisor; the scheduler starts sessions again and again.
FairSpec == /\ Spec
            /\ WF_vars(SessionStep) /\ WF_vars(Restart) /\ WF_vars(StartBackup)
=============================================================================
