# nasbkup: models, checks and proofs

nasbkup backs up the directories of a NAS to an object store ("OSS"): each file
is hashed, deduplicated by content, compressed, encrypted and uploaded under a
key made of its hash, and a SQLite database says what was backed up when. The
database itself lives in the bucket: a session *pulls* it first and *pushes* it
last. The modules here model that protocol of a disk, a local database, a
snapshot and a bucket, with crashes, cancellations, faulty answers and the two
maintenance jobs beside it, then the transfer of the snapshot itself, restore
jobs from outside and from inside, and the settings with their scheduler. Paths below are under
`nas-backup-backend/internal/` unless they say otherwise.

## 1. Inventory

| Component | State | Operations | Hard behaviour | What makes it correct |
|---|---|---|---|---|
| Engine (`backup/engine.go`) | `runningBackupID`, cancel functions, locals of `executeBackup` | `StartBackup`, `RunBackup`, `executeBackup`, `processAndUploadFile`, `Cancel`, `InitFromOSS`, `RefreshFromOSS` | ten phases, each of which may fail, be cancelled or be cut by a crash; three deferred calls in a fixed order | sessions end; what is marked as backed up can be restored; no push loses history; cancelled sessions leave no rows |
| Tables (`db/*_repo.go`, `db/migrations`) | `files`, `hash_index`, `backup_files`, `backups` | upserts, counts, transactions | counts moved by several files and sessions; `ON CONFLICT` rules | counts cover the files that use a content |
| Deduplicator (`dedup/dedup.go`) | none of its own | three passes of `Deduplicate` | the batch check fails, the index is ahead of the bucket | a hash row alone never skips an upload |
| Scanner (`scanner/scanner.go`) | none | walk, comparison, hashing | unreadable files and directories, files that change meanwhile | only files that are gone count as deleted |
| Storage (`storage/storage.go`) | the bucket | `Upload`, `UploadOverwrite`, `UploadOrReuseNonce`, `Exists`, `ExistsBatch`, `Delete`, thawing | existence checks that fail, unreadable nonces, archived objects, a worker pool | an object is not written twice; the IV recorded is the object's |
| Snapshot (`backup/db_backup.go`) | `oss.db.enc`, `oss.db.iv`, archives | `PullOSSDB`, `PushOSSDB`, archive, prune | two objects for one snapshot, failed pushes | the snapshot is always readable and never older than what was pushed |
| Garbage collection (`engine.go`) | list of orphans | `RunGarbageCollection` | runs beside sessions, times out, partly fails | only contents no file has are collected |
| Reconciliation (`backup/reconcile.go`) | the report | listing, comparison, six fixes, push | a report made from several reads and applied later, fixes that fail one by one | after a pass the hash table agrees with the rows and the bucket |
| Restorer (`backup/restore.go`) | temporary files, the result | a pool of workers: thaw, download, decrypt, check, resolve conflicts, move | archived objects, a cancelled context, failures after an existing file was removed, rows of an older encryption | a file counted as restored is whole; what was there is replaced or kept; the job ends |
| Restore jobs (`backup/restore_job.go`) | `restore_jobs`, cancel functions | create, start, cancel, clean up | check-then-insert without a lock, cancel against completion | one job at a time, none beside a session, a final status stays |
| Settings (`db/config_repo.go`, `api/content_handler.go`, `api/strategy_handler.go`) | `backup_directories`, `exclusion_rules`, `config_kv` | insert, read and write back, delete; export and import by every pull; seeding | a pull has the tables out for minutes; three statements for one schedule; a start keeps nothing | settings are what was asked for, whatever pulls come in between |
| Scheduler (`scheduler/scheduler.go`) | `cron`, its mutex | `StartWithCron`, `UpdateSchedule`, `Stop`, `runBackup` | `Stop` holds the mutex until the running backup ends | it runs what was saved last; off means quiet; nobody waits for ever |
| Start-up, progress, YAML configuration, logs, command line, web page | | | sessions during start-up; dropped events | |

The components meet in three places: the local database (engine, maintenance
and jobs read and write it), the bucket (engine, maintenance and snapshot), and
the snapshot, which replaces the whole local database at every session and at
start-up. Nearly every hazard listed in `PROJECT.json` is a disagreement between
two of the three.

## 2. Modules

| Module | What it is |
|---|---|
| `BackupPipeline` | the session: one action per step of `executeBackup`, the environment, crash and restart |
| `BackupProperties` | its properties, and the restorer as the predicate `Delivers` |
| `Ledger` | what the history of sessions is taken for: entries with their rows, one at a time, none ever changed; `BackupPipeline` implements it |
| `Maintenance` | garbage collection and reconciliation composed with the pipeline |
| `Jobs` | sessions, restore jobs, pulls, cancellation and start-up: who may work beside whom |
| `SnapshotRegister` | what the engine takes the snapshot for: a register with one writer that never goes back |
| `OssDb` | push and pull of the snapshot, one transfer at a time; implements `SnapshotRegister` |
| `Restorer` | one restore job from the inside: its goroutine, the pool of workers, the bucket's thawing, the files |
| `Settings` | the settings' tables, the handlers that write them, the pulls that replace them, the scheduler |
| `MCBackupPipeline`, `MCMaintenance`, `MCJobs`, `MCOssDb`, `MCRestorer`, `MCSettings` | the instances TLC checks |
| `BackupProofs`, `HistoryProofs`, `ContentProofs` | theorems and proofs about the pipeline |
| `ExclusionProofs` | theorems and proofs about `Jobs` |
| `SnapshotProofs` | theorems and proofs about `OssDb`, the refinement among them |
| `RestorerProofs` | theorems and proofs about `Restorer` |
| `SettingsProofs` | theorems and proofs about `Settings` |
| `MaintenanceProofs` | theorems and proofs about `Maintenance` |

`BackupPipeline` is the ground of `BackupProperties`, `Maintenance` and the
proofs about it. `Jobs`, `OssDb`, `Restorer` and `Settings` look at one part each, more closely than the
pipeline does, and share its idea of the rest: a session is one state in `Jobs`
and `Settings`, a push or a pull one step everywhere but in `OssDb`, a restore
job one state in `Jobs` and the whole of `Restorer`.

### State

| Variable | Code |
|---|---|
| `disk`, `seen` | the directories being backed up; `seen` is a history variable (contents that ever existed) |
| `oss` | the objects `data/<xx>/<hash>.enc`: the plaintext's hash, its IV, whether it was compressed |
| `snap`, `torn` | the decrypted `oss.db`, or None; whether an `oss.db.enc` without its own `oss.db.iv` is there instead |
| `files`, `index`, `synthetic`, `rows`, `backups` | the tables `files`, `hash_index` (its `reconciled:` rows apart), `backup_files`, `backups` |
| `phase`, `job` | the position and the locals of `executeBackup`; `runningBackupID` is `job.cur` from `Scan` on |
| `gc`, `rec` | the locals of `RunGarbageCollection` and of `Reconcile` |
| `runs`, `edits`, `faults`, `passes` | counters that bound the model (sessions, disk changes, faults, maintenance passes) |

A hash is its content: the model takes SHA-256 to be injective. An IV is the
pair (session, path) it was drawn for, as no two encryptions share random bytes.
The hash `""` of a file that could not be read is `NoHash`; all such files share
the key `data/00/.enc`.

### Actions

`StartBackup` is one step because `e.mu` is held over the check, the pull and
the creation of the record. `Scan`, `ComputeHashes`, `CheckObjects`,
`DedupFile` are phases 1 to 5, `SealFile`, `UploadObject`, `RecordUpload` are
`processAndUploadFile` and what the loop does with its result, split wherever a
crash or a cancellation makes a difference, `RecordSkipped` and
`AddBackupFiles` are phases 7 and 8, `MarkDeleted` and `ReleaseFile` phase 9, and
`Complete`, `PushSnapshot`, `PushFails` the deferred calls of a session that
returned no error. `Abort` is those of one that did. `NoticeCancel` stands for
the context checks between phases and before each file.

The errors the code drops have actions of their own: `CompleteUnrecorded`,
`AbortUnrecorded` and `EndUnrecorded` when the terminal `UpdateStatus` fails (the
push follows all the same), `SkipFails` when a statement for a deduplicated file
does (it is passed over and not counted), `FailUnmarked` and `ReleaseFails` for an
uploaded and for a deleted file. A push that fails, or is cut by a crash, leaves the
snapshot there was, none, or a torn one (`Tear`), which no pull can decrypt:
`StartBackup` is then refused (`CanStart`), as it is by a record that says running.
`Refused` is the step of a system in that state for good.

Statements on local tables that follow one another without a call to the store
in between (in `RecordUpload`: `hash_index`, `files`, the in-memory batch) are one
action. A crash between two of them leaves a file row marked a moment later than
its hash row; the next session pulls the snapshot over both, so the only way to
see the difference is a service whose bucket has no snapshot yet.

`Delivers` is the restorer's side: key against hash, existence, recorded IV
against the object's nonce, decompression, final hash.

In `Maintenance` the documentation says that sessions and passes exclude each
other, while in the code each looks once, when it starts. The history variable
`overlaps` counts how often one meets another, up to `MaxOverlaps`, so that one
run has both: the properties that need them apart say `overlaps = 0`, the others
hold across one meeting. `StartGC` takes any subset of the orphans, because their
age is not modelled. A reconciliation reads at different times: the listing
(`StartReconcile`), the comparison with the tables (`Compare`), the counts
(`CompareCounts`), the rows of failed sessions (`ListFailed`) and the existence of
their objects (`CheckFailed`), with whatever sessions do in between; so are
`ApplyFixes` and the deletions of fix 6. A fix whose statement fails is recorded
and passed over, and the others are committed and pushed: `ApplyFixes` carries out
any part of the report (`CarriedOut`) and notes that it was one (`partial`).

### Jobs

`Jobs` looks at the same engine from outside: what a session does is one state
(`working`), but the steps from a request to that state are kept apart, because
the lock, the memory and the tables change at different ones.

| Variable | Code |
|---|---|
| `db`, `snap` | the status columns of `backups` and `restore_jobs`, locally and in the snapshot |
| `pull` | for each of the three callers, how far its pull is and what it carries |
| `session`, `restore` | each goroutine's position, row and context |
| `running`, `cancels`, `ready` | `Engine.runningBackupID`, `cancelFuncs`, `ready` |
| `jobCancels` | `RestoreJobManager.cancelFuncs` |
| `staleCancel` | a cancel request between `RunningBackupID` and its look at the table |
| `reconcile` | a reconciliation between its check and its push |
| `windows` | history: the windows of a race entered since nothing was at work |

The engine's lock is held exactly while the pull of a starting session is under
way, so it needs no variable (`MutexFree`). A pull is export, download, swap and
import: `ImportBatch` inserts the exported jobs under their old ids or, when one
is taken, none. `InitFromOSS` exports nothing and sets `ready` even when it
fails. A failed push leaves the old snapshot or, when the second of its two
objects fails, none. Ids are given by length, as rows are never deleted.

Requests come in any order and overlap. A query that fails while `Reopen` has the
database closed lets a restore job past its check, and a session past its look at
the restore jobs, as the code ignores these errors (`QueriesFail`).

Four windows are what the code leaves open, and `windows` says which of them was
entered since nothing was last at work:

- `pending`: a check passed while another start had passed its own and its row did
  not say running yet;
- `unseen`: a check passed beside a job that was cancelled and still works, or while
  its queries fail;
- `replaced`: a pull replaced the database under a session or job that has a row;
- `failed`: a cancel request that had found no session in memory failed the row of
  one that works by then.

Each alone lets two in, as TLC found; `replaced` and `failed` each make rows lie
about work, and `pending` is what the engine's memory goes wrong by.

Every final status is `over`: no check tells them apart. What this leaves out
is which of two final statuses written for one row stays.

### The snapshot

In `OssDb` the push and each pull go transfer by transfer. `enc` and `iv` say
which push the object comes from (0: none); a pull that finds an IV of another
push than its object's cannot decrypt it, as `DecryptFile` compares the first
nonce. `UploadEnc` and `UploadIV` may fail and have written all the same. The
archive's two objects are named by the minute; `Put` is the `Upload` that does not
overwrite, unless its own check fails. `PruneBkups` deletes any part of what it
should when deletions fail. `window`, `got`, `published` and `crowded` are
history: what a pull could have read, what it read, the last complete push, and
whether two pushes archived in one minute.

A reader stands for a process: two pulls of one process share their temporary
files. There is one writer: that a session's push and a reconciliation's meet is
left to `Maintenance`, where a push is one step.

### A restore job

`Restorer` splits `restoreFile` where a cancellation, another worker or the
bucket can come in between: check, wait, download, decrypt, verify, conflict,
move. A destination holds the item that was delivered, `Old`, or nothing; `plain`
says which item created the plaintext under a file's temporary name and `whole`
which plaintexts are complete, so that two workers on the same temporary file can
be told apart (`Twice`). A worker that sees the context ended leaves; waiting for
a thaw may end at any poll, because its deadline may have passed. Thawing is one
tier (`thawing`) that may become `thawed` or not, and a thawed object may be
archived again. The strategy `other` is any value but the three the code knows:
the command line has none, and the API gives `skip` to a request without one
(`restore_job.go:117`) but does not check what a request names. The errors of
`UpdateStatus` are dropped: `WriteStatus` may leave the status as it is, and
`unwritten` remembers it. A job whose request cannot be resolved (`ResolveFails`)
ends in the same way from `broken`.

### Settings

The three tables are functions from their keys to a value or None. A row is known
by its path or pattern and is its `enabled` column: the other columns are written
by the same statements. `kv` has the two keys the scheduler depends on. `ReadRow`
and `UpdateRow` are the two halves of a partial update; `SaveEnabled`, `SaveExpr`,
`AskIsEnabled` and the calls of the scheduler are `handleUpdateSchedule`. A
scheduled session is told from one by hand because only the former keeps `Stop`
waiting; the mutex is held exactly by a handler in `waiting` (`Locked`). A pull
exports all three tables in one step and imports them in one, because no property
relates two of them to each other across a pull; at most one table fails per step.
At the start there is no snapshot, or one with the settings of `config.yaml`, so that
the first pull already replaces the tables.

`want` is what the accepted requests amount to, and `lost` the reasons the code
gives for a table to differ from it: a write or an export fell into the window of a
pull (`overlap`), a statement failed (`failure`), a table was empty when it was
exported (`emptied`), or the process started on an older snapshot (`restart`).
The properties hold without these reasons; two disagreements below show two of
them against what the documentation says. Left out: a `Reopen` that fails (`Jobs`
has it), adding a row while another handler holds it, the time zone, and the first
statement of a schedule failing, which changes nothing.

### Faults

In the pipeline each kind can be switched on by a run: `liveDisk` (files change during a
session), `walkError`, `hashError`, `batchCheckError`, `preCheckError`,
`nonceUnreadable`, `fileError`, `rowError` (a database statement for one file),
`hardError` (one that ends the session), `statusError` (the terminal status),
`cancel`, `crash`, `pullError`, `pushError`, `loss` (an object disappears),
`deleteError`, `fixError` (statements of a reconciliation), `timeout`.

## 3. Runs

Every run of the pipeline has two paths (one, with maintenance), of which one is
compressible (both in `interrupted`), and two or three contents. Those in `Reuse`
may come back, or be on two paths.

| Run | Question | Result |
|---|---|---|
| `interrupted` | crashes, cancellations, lost pushes, torn snapshots, lost pulls, unreadable files, over copies, moves and deletions: counts, content addressing, rows, statuses; is the history a ledger, is an object ever written twice? | holds |
| `faulty_store` | the store's checks fail, files fail, sessions are cancelled and the process crashes: is what is marked as backed up restorable, is a completed session complete? | holds, with two exceptions by name |
| `recovery` | under fairness, one fault of any kind: do sessions end, are lost objects uploaded again as long as a session can start? | holds |
| `maintenance` | collection and reconciliation apart from sessions and across one, cut short, failing as a whole and fix by fix | holds |
| `exclusion` | requests in any order: do sessions and restore jobs exclude each other, do their rows say so, does a cancel request reach its session? | holds outside the windows |
| `snapshot` | does a pair of objects behave as the register, and does one failure leave a readable copy? | holds |
| `restoring` | under fairness: is what is counted as restored whole, what was there kept or replaced, every file counted, and does the job end? | holds |
| `settings` | under fairness: do settings and schedule stay what was asked for, is a scheduler that is off quiet, is every request answered? | holds |
| `copies` | `LatestRestorable` when two files may have one content | violated |
| `regained` | `CountsCover` when a collected content comes back | violated |
| `cancelled_restore` | `CancelStays` when a running restore job is cancelled | violated |
| `settings_restart` | `SettingsSurviveRestart` when the process restarts before the next push | violated |

Nine more configurations show other disagreements of section 5 in the same way,
each a violation of one property:

| Configuration | Module | Property |
|---|---|---|
| `DoubleStart.cfg` | `MCJobs` | `Exclusive` |
| `ReconcileOverlap.cfg` | `MCMaintenance` | `NoStaleRunning` |
| `RepairUndone.cfg` | `MCMaintenance` | `ReferencedStay` |
| `SkippedQuietly.cfg` | `MCBackupPipeline` | `CompletedMeansAll` |
| `StatusLost.cfg` | `MCBackupPipeline` | `NoStaleRunning` |
| `SharedFiles.cfg` | `MCRestorer` | `DeliveredWhole` |
| `SilentReplace.cfg` | `MCRestorer` | `NeverSilently` |
| `PartlyRestored.cfg` | `MCRestorer` | `PartlyIsTold` |
| `EmptiedRules.cfg` | `MCSettings` | `LocalSettingsWin` |

`Sessions.cfg` (`MCJobs`) is a second instance of `exclusion`, with two sessions, no
restore job and two events; it passes.

### Bounds

Two paths are the fewest on which deduplication, shared keys and a file's
deletion beside another's use of its content happen. Three sessions are enough
for a record to be made, replaced and read again; the interesting behaviours
(a pull that discards, a re-upload, a dedup against an older row) need two. Two
edits make a file change and come back, or move. One or two faults of any kind,
at any step, are every single and double failure; `faulty_store` has three, because
it takes a failing check, an unreadable nonce and a failing file to leave an object
that no row describes. In `interrupted` contents and
paths may be exchanged (`Exchanges`): all contents may come back, both paths are
compressible, and nothing orders either. With maintenance one path is
enough, because its fixes work key by key; it still has two contents and so two
keys beside `NoHash`. The liveness run has two sessions and one fault: the
session the fault hits and one after it.

Deadlock is checked. In the pipeline two disjuncts stand for the states without
another step: `Exhausted` for the end of the bounded model, and `Refused` for a
system no start leaves, because the snapshot is torn or a record says running. In
`maintenance` the latter also happens when a reconciliation that began before a
session publishes its running record.

`exclusion` has one session and two restore jobs, whose requests overlap in every
order, and one event (a cancel request, a refresh, a reconciliation or a restart):
enough for a job and a session, or two jobs, to pass their checks beside each other
and for a pull to replace the rows of either. `Sessions.cfg` has two sessions and two
events: a session that pushes a snapshot, a second that pulls it, ids that are given
again, a cancel request that meets the wrong one. Both switch the deadlock check
off: a running job published in a snapshot and pulled again keeps every start out
for good, as in the code.

`snapshot` has three pushes and three minutes, so that an archive is made,
pruned, and made again, two readers, and two failures or crashes: `NothingLost` is
about one, and its second lets the model go past it. `restoring` has three files
for two workers, so that one worker takes a second item, one file archived, one in
the way, every strategy, and one failure, that of a status included. `settings` has
two requests at once (what `ScheduleRuns` and `RequestsAnswered` need), two pulls,
which may both replace the tables before either puts them back (a session and a
refresh across each other), one failure or restart; `config.yaml` has no rules and
one cron expression. It switches the deadlock check off,
because nothing need happen any more when requests and pulls are used up.

### Why the runs differ

Properties are checked under the faults the code defends against, and the
exceptions are deliberate:

- `LatestRestorable` is checked with cancellations and crashes, and excepts two
  things by name, both found by running it without them. A session that was
  cancelled or failed after an upload leaves files marked as backed up and no rows,
  until a pull discards its tables. And a known content whose batch check fails is
  uploaded again, its nonce cannot be read so that the object is encrypted anew, and
  the file fails before its row is written (`EncryptedAnew`): the file is only marked
  failed, so the next session skips it with the IV of the object that is gone, and
  marks it successful (`engine.go:1093`).
- `faulty_store` has no failing pre-check, no failing statement, and every content is
  new. When the existence check before an upload fails, the code uploads without
  knowing what is there and records an IV the object need not have (`UploadUnsure`);
  a statement that fails leaves a mark without a row; and copies meet the defect of
  `copies`. In each, `LatestRestorable` fails in the model as it does in the code.
- `CompletedMeansAll` is checked without `rowError`: `SkippedQuietly.cfg` shows that
  the code passes over a file in silence. `NoStaleRunning` and `IsLedger` are
  checked without `statusError`: `StatusLost.cfg` shows a session published as
  running.
- `NoClobber` is checked without store faults: with an unreadable nonce the code
  overwrites on purpose.
- `ContentAddressed` needs files that stand still while they are backed up:
  the engine hashes a file and reads it again to encrypt it.
- `CancelledLeavesNoRows` needs database statements not to fail after phase 8.
- `PassRepairs` speaks of passes that met nobody and carried out every fix, and
  excepts the keys of fix 3, whose objects fix 6 deletes: `RepairUndone.cfg`.
- `ExistingReplaced` speaks of the strategies the code knows: `SilentReplace.cfg`.
- The restorer in `Delivers` reads the *latest* row of a path. Restoring an
  older session is resolved through `backup_files` too, but against the hash the
  file has now, so it is refused after any change; the model keeps that check.

### Fairness

`FairSpec` has weak fairness of the running session (a goroutine that nothing
blocks: its calls to rclone have time limits), of the restart of a process that
died (the service is supervised by its container), and of starting sessions (the
scheduler calls `RunBackup` at every tick). Weak fairness is enough for each:
they stay enabled until taken; a start that is refused is not enabled and nothing
is asked of it. Nothing is assumed of the environment: it may
stop injecting faults or not, up to its bound. `LossHealed` is stated from a
state in which the disk is quiet, the faults are over and a session is left and can
start (`CanStart`): after a push that tore the snapshot nothing heals, because every
start is refused until somebody repairs the bucket by hand.

In `Restorer` the goroutine of the job, a cancellation under way and every
worker's own step (`Step`) are weakly fair: goroutines are scheduled, and each
wait ends by its deadline if by nothing else. The bucket is not: `JobEnds` holds
though an object may never thaw. It lets the row say running only when its verdict
could not be written. In `Settings` requests, and the session under way with its
pull, go on once they have begun; that new ones come, or that a refresh ends, is not
assumed. Here weak fairness of the session is the point of `RequestsAnswered`: `Stop` waits for it
with the mutex in its hand, and the session must end without that mutex.

### What implements what

`Register == INSTANCE SnapshotRegister WITH value <- Value, open <- push.step #
"idle"` maps the two objects to the version they decrypt to, Absent or Broken.
`IsRegister` says that every step of a push is a write, its beginning or its end,
and every pull reads at once or answers with what the register held at some moment
of its window. What it rules out is that a pull pairs the object of one push with
the IV of another, that a late or failed transfer brings an older version back, or
that anything but a push changes what is there. The mutant of the run, a pull that
does not compare the IV with the object, violates it.

`Book == INSTANCE Ledger` in `BackupProperties` maps the ledger to the sessions and
rows of the snapshot; without one, to those of the local database, less the session
that is still to end. `IsLedger` says more than `HistoryOnlyGrows`: the history is
followed from the first session to the first push and again after a failed push has
destroyed the snapshot, each step enters exactly one session, and every row that comes
with it is that session's. A history already published takes in finished sessions only:
failed and cancelled ones stay in the local database until the next pull discards
them and gives their number to another session. The mutant of the run, a pull
that leaves a database with sessions as it is, publishes two entries at once.
Three sessions and two faults are enough for it: a session that fails between two
that are published, a first push that fails, a snapshot that a failed push destroys and
the next session writes anew. It needs the terminal status to be written: without
it the pipeline publishes a session that is not finished. Reconciliation is outside:
repairing rows and statuses is what it is for.

## 4. Proofs

The theorems hold for every set of paths and contents, every bound and, unless
said otherwise, every set of faults.

- `TypeCorrect`: `Spec => []TypeOK`. The invariant is `TypeInv`: `TypeOK` and two
  facts without which it is not inductive: `Started` (a working session was
  counted and its record is the last of `backups`) and `Compared` (until hashes
  are computed, what the scan found unchanged has a row).
  One lemma per repository statement, one case per action.
- `NoSessionIsLeftRunning`: `NoStaleRunning`, from the assumption that the terminal
  status can be written (`"statusError" \notin Faults`); every other statement may
  fail. The strengthening says that while a
  session works every *other* session is settled, and that the snapshot's
  always are: a push happens only after the terminal status was written.
- `NoPushLosesHistory`: `HistoryOnlyGrows`. The invariant `Extends` says that in
  a session the local sessions and rows extend the snapshot's, because the
  session started from the pulled snapshot and no step of it removes any.
- `CancelledSessionsHaveNoRows`, from the assumption that no database statement
  fails: rows belong to sessions that were past their last look at the context.
- `ObjectsAreContentAddressed`, from the assumption that the disk stands still
  during a session: the hash of every change is that of what the disk holds, or
  of nothing, hence also of what is sealed.
- `RowsAreBacked` (`RowsBacked`), from the assumption that the bucket loses
  nothing. The invariant `ObjectsThere` follows an object to its row: what the batch
  check confirmed is there, what is skipped was confirmed, what waits in the
  session's batch was verified; and an object stays (`NextKeepsObjects`).
- `NothingIsClobbered` (`NoClobber`), from the assumption that the store loses
  nothing and can say whether an object is there and what its nonce is: then the one
  step that writes an object finds none (`UploadOnlyAdds`).
- `CompletedSessionsTakeAll` (`CompletedMeansAll`), from the assumptions that files
  stand still during a session, that no directory is hidden from the walk, that
  files can be hashed and that no statement for a single file fails; failing uploads, crashes, cancellations and a faulty store are
  all allowed. `DiskTaken` follows every file from the scan to its row: what the
  scan found is what is there (`ScanTrue`), and a file is waiting, in hand, failed
  (then the session is not completed without errors) or recorded under the hash of
  what the disk holds (`Progress`). `Dated` makes the session's rows the latest.
- `CountsCoverFiles` (`RefsCoverFiles`), for finitely many paths that stand still
  during a session. Before anything failed, the count of a content is at least the
  number of files whose use of it is *counted by now*: all active ones before the
  session sorts them, then those that were sorted, and after `MarkDeleted` those that
  have not been released (`CountsHold`, `Holders`). The property itself says nothing
  during a session, when counts and rows disagree.
- `SuccessfulFilesRestore` (`LatestRestorable`), from `Mild`: no content appears
  twice, and the faults are failing batch checks, unreadable nonces and failing
  files, any number of them. Cancellations and crashes are left to the run. It is
  the theorem with the longest argument. `OneOwner`: a content is one file's for
  good. `Queue`: a file waits in one place, a new content has no hash row yet, and a
  known one is uploaded again only after its batch check failed. `InStore`: a known
  content has its object, stored as its file is, and a stored item has the IV of its
  object. `Remembered`: a known content on the disk is its file's current one, and
  the rows the file would be restored from (the session's, else the latest) are
  `Good`: they have the key and the compression of the object, and its IV or one of
  an earlier session. `Aged` dates the IVs, so that such a row says of itself that
  its object was encrypted anew since. `DiskTaken`, `Dated` and `HashesTrue` are used
  beside it.

- `JobsTypeCorrect`: `Jobs` is well typed whatever the order of requests.
- `CancelReachesCorrect`, `RowsTellOfWorkCorrect`, `OneAtATimeCorrect`, for any
  number of overlapping requests. None of the three is inductive. The engine's
  memory: a cancel function is that of a session in memory with this id, whatever the
  windows (`Remembers`), and outside `pending` there is one session at a time and it
  is the one in memory (`Alone`). The rows: outside `replaced` everyone at work has a
  row of their own and the cancel function under a job's id is its own or none
  (`SessionsRowed`, `JobsRowed`), which is what keeps a request from reaching the
  wrong job; outside `replaced` and `failed` these rows say running (`SessionsTell`,
  `JobsTell`). Exclusion, outside all four (`Apart`): a check that passes looks only
  at rows, so it is `RowsTellOfWork` that makes it find what is at work
  (`CheckFindsNone`). Together they say that the four windows are the only ways in.

- `SnapshotTypeCorrect` and `SnapshotIsRegister`: `OssDb` is well typed and
  implements the register, for any number of readers, pushes, minutes and
  failures. The invariant behind the refinement is `TypeOK`, which also says
  that a push about to write its IV has just written its object, and three more
  parts: `Numbered` (a push under way has a number), `Watched` (a pull has a
  window exactly while it is under way, and what the bucket holds now is in every
  open window) and `Matched` (when the IV there is that of the object a pull has
  downloaded, the pull has the whole snapshot in its window). Without `Matched` a
  pull that downloaded the object before the push wrote its IV, and the IV after,
  could not be shown to answer with something its window holds.
- `ArchiveCovers`: `NothingLost`, for any number of pushes, minutes and pulls. Its
  invariant `Guarded` has two halves. Before the first failure the pair in use is
  the published one, and a push replaces it only with a copy of that pair in the
  archive (`Orderly`). After one failure a copy at least as new is left, in use
  (`Current`) or in the archive (`Archived`), wherever a push may still end without
  a second one (`Covered`): the two steps that archive, the two uploads and the
  deletion of an orphaned object each keep one of the two.

- `RestorerTypeCorrect`: a restore job is well typed, and a worker at work has an
  item (`HasItem`).
- `RestoredIsWhole` (`DeliveredWhole`), `ExistingIsReplaced` (`ExistingReplaced`)
  and `EveryItemAccounted` (`Accounted`), for any files, workers, storage classes
  and failures, those of the job's statuses included, from the assumption that no
  file is named twice (`Twice = {}`), which `SharedFiles.cfg` shows is needed. One
  invariant, `Inv`, carries the three (`RestorerInvariant`). `Ownership`: every item is in the queue, held by one worker or counted,
  and nothing has been written of an item that is still queued. `FilesFollow`: the
  plaintext under an item's temporary name is its worker's, reaches its place only
  after its check, and until then the place is as the job found it; this is where
  the assumption is used, since two items with one file would share the names. `ExistingFollows`: what was at
  a destination is there, or a checked file is in its place, or its own move failed.
  `Lossless`: while the job's context lives no item is dropped between the queue
  and the counts, and only a cancellation or the deadline ends the context.

- `SettingsTypeCorrect`; `SettingsKeptCorrect`, by `Kept`: while no reason for a
  loss has come up, every pull of a session or a refresh that is under way holds
  exactly what the accepted requests amount to, and the local tables are that too
  whenever no pull has them out. So an export is safe precisely when no *other*
  pull is between its fetch and its import, and an import puts back what is wanted
  although it skips the tables that were exported empty. `ScheduleRunsCorrect`, by
  `Agreed`: one schedule request is at work, the tables hold as much of it as its
  statements have written, the call it will make is the one its `enabled` asks for,
  and between requests the scheduler runs what is saved. `StoppedIsQuietCorrect`
  is inductive with the types.

- `MaintenanceTypeCorrect`, for any overlap: the steps of the pipeline keep their
  types by the lemma of `BackupProofs`, and the counts fix 4 sets are numbers
  because the tables of rows stay finite (`CountableRows`). `MaintainedContents`:
  `ContentAddressed` with collections and repairs in the middle of sessions, from
  the assumption that the disk stands still during a session.
- `PassRepairsCorrect`, from the assumption that the bucket loses nothing meanwhile.
  `PassInv` follows a reconciliation that meets nobody: nothing else moves
  (`Undisturbed`), so its listing and then its report, read piece by piece, stay true
  until the fixes (`Listed`, `Reported`), the fixes make every key agree when none
  fails (`FixesRepair`), and the deletions touch only keys without a row or those of
  fix 3, so that they keep the rest so (`Repaired`).
  The proof needs no assumption about how the tables came to be what they are, and
  that is how it showed an exception: a row whose object is gone and whose count is
  above zero without any row of `backup_files` is not dangling yet when the report
  is made. Fix 4 sets its count to zero, and the pass leaves an unreferenced row
  without its object; the next pass removes it. `PassRepairs` names the exception
  (`rec.refs[k] = 0`). The other exception it names is fix 3: the object is deleted
  and its synthetic row stays.

- `MaintainedCancellations`: the argument of `CancelledSessionsHaveNoRows` with
  reconciliations beside it, at any moment of a session. A reconciliation removes rows,
  calls sessions completed or failed, and pushes the tables even while a session runs;
  `BesideOwned` says that none of this gives a cancelled session a row, in the tables
  or in that push.
- `OnDiskContentsAreKept`, from the assumptions that no directory is hidden from
  the walk and that the bucket loses nothing, by `KeepInv`, which holds as long as
  nothing overlapped. It has two parts, both about contents that are on the disk
  and cannot appear twice. `OwnContent`: no file row and no local of a session gives
  such a content to another file than the one that has it, so releasing the
  reference of a deleted file never touches it. `Counted`: a row of `backup_files`,
  a file waiting to be skipped or uploaded again, has the hash row of its key, and a
  hash row of such a content has its object and no orphan mark. Both are required of
  the local tables and of the snapshot, because the next pull brings the snapshot
  back: what a repair did in between must not have taken away what that pull will
  rely on. A collection then has only contents in hand that no file has
  (`Collecting`), and a reconciliation takes away only objects without hash row and
  hash rows without object, which `Counted` rules out for these.

- `HistoryIsLedger`: the refinement, for every set of faults in which the terminal
  status can be written. `LedgerInv` adds to
  `Extends` that a working session is exactly one more than the snapshot and the rows
  that are not the snapshot's are its own (`AddsItself`), and that only the last
  session can be open, is so until it completes, and is finished when it is pushed
  (`LastOpen`); also in a process that died, where nothing else says it.
  `LedgerStep` takes the kinds of steps one by one: without a snapshot, the end of a
  session or the restart after a crash is the entry, and the push publishes
  what is there; with one, the push is, or the failed push that destroys it.

`StepKinds` in `HistoryProofs` sorts the actions by what they do to sessions
and rows, so that the first proofs of that module share one case analysis, and the
lemmas on the locals of a session (`StartLocals` to `CancelLocals` in
`BackupProofs`) say once what each action does to them. The proofs of the pipeline
use two more assumptions on the constants: `NoneAssumption`, that None is no row,
object, IV or item, as nil is not in the code; and where sets of files are counted,
that `Paths` is finite.

Only model-checked: the liveness properties (the installed prover has no
fairness). Nothing recursive is used.

## 5. Disagreements found

Each is a counterexample TLC finds under the configuration in brackets; `copies`,
`regained`, `cancelled_restore` and `settings_restart` are runs of the project.

1. *Copies* (`copies`; `engine.go:1093`). A file skipped by deduplication borrows
   IV and compression from the latest row of the first active file with its hash.
   Since its own row is already active with that hash, this can be itself, with
   the row of its previous content. The object is then recorded with an IV that is
   not its own and the restorer refuses it.
2. *A content that comes back* (`regained`; `engine.go:1346`). Collection deletes
   the hash row locally and does not push, so the next pull brings the row back
   with count 0; the upload of the same content does not count because "the row
   already exists with correct ref_count". The session ends with an active file whose
   content has count 0 and its orphan mark. The reconciliation that follows a session
   (`engine.go:641`) normally repairs the count; until it does, the content is up for
   collection.
3. *Two sessions* (`DoubleStart.cfg`; `engine.go:424`). A session's row is pending,
   and the engine's memory empty, from the release of the lock until its goroutine
   takes it. A second request that waited for the lock gets in between, in spite of
   the double check of `docs/WIKI.md:1995` and of TC-SCHD-007
   (`docs/TEST_CASES.md:318`), and its pull may take the first one's row.
4. *Reconciliation beside a session* (`ReconcileOverlap.cfg`; `reconcile.go:134`).
   It looks once for a running session and takes no lock, whatever
   `docs/WIKI.md:833` says, and its push can publish a running session.
5. *A cancelled restore* (`cancelled_restore`; `restore_job.go:297`). The workers
   leave without an error when the context ends, so the job overwrites "cancelled"
   with "completed" or "failed"; `docs/TEST_CASES.md:356` expects "cancelled".
6. *Settings after a restart* (`settings_restart`; `engine.go:149`). Start-up pulls
   the snapshot without exporting the settings first, and nothing pushes a setting
   when it is saved; `docs/TEST_CASES.md:489` expects a saved
   setting to survive a restart.
7. *Emptied rules* (`EmptiedRules.cfg`; `config_repo.go:469`). An empty export
   imports nothing, so the last rule that was deleted returns with the next pull,
   although "the local config always wins over the OSS-pulled DB"
   (`config_repo.go:465`).
8. *One file named twice* (`SharedFiles.cfg`; `restore.go:201`). A request that
   names a file and its directory makes two items with the same temporary files,
   which are said to be "self-contained per file"; two workers can deliver half a
   file, and count it.
9. *A repair that is undone* (`RepairUndone.cfg`; `reconcile.go:679`). Fix 3 gives an
   object that rows reference a hash row, "to prevent GC from deleting the OSS object
   that is still referenced by backup_files" (`reconcile.go:586`); the same report has
   the object among those without a hash row, and fix 6 deletes it, saying that these
   have "no backup_files reference". TC-RCNL-005 (`docs/TEST_CASES.md:436`) expects
   such objects to be reported only, TC-RCNL-007 the row to be rebuilt.
10. *A file passed over* (`SkippedQuietly.cfg`; `engine.go:1057`). A deduplicated file
   whose row cannot be written is logged and not counted among the failed ones
   (unlike an uploaded one, `engine.go:958`), so the session is completed without it.
11. *A session published as running* (`StatusLost.cfg`; `engine.go:692` and 700). The
   error of the terminal `UpdateStatus` is dropped and the push follows, which is the
   case that the comment at `engine.go:644` orders the deferred calls to avoid.
12. *A silent replacement* (`SilentReplace.cfg`; `restore.go:618`). Skip is "the
   default" (`restore.go:73`) and an existing destination is not to be silently
   overwritten, for which `moveFile` relies on `os.Rename` failing on one; it replaces
   it. A request whose strategy is none the code knows, as every one from the command
   line, does so.
13. *A partial restore called completed* (`PartlyRestored.cfg`; `restore_job.go:303`).
   TC-RSTR-013 (`docs/TEST_CASES.md:357`) expects `completed_with_errors` when some
   files fail; the job is completed as soon as one file was restored.

One more is part of the models and of no single configuration. A push whose `.iv`
cannot follow its `.enc` deletes the latter "to avoid leaving an unrecoverable
snapshot" (`db_backup.go:231`); when the deletion fails too, or the process dies
between the two uploads, that is what it leaves, and since every start pulls first
(`engine.go:372`), no session starts again (`Tear`, `Refused`). After a single such
failure the archive still holds a readable copy (`NothingLost`).

Seen while reading, and shown by no configuration: two pushes in one minute share the
names of their archive; the clean-up of an orphaned `oss.db.enc` uses the context that may have
just expired (`db_backup.go:247`); two pulls of one process share their files in
the temporary directory (`db_backup.go:119`); of what the strategy page saves in
`config_kv`, compression, upload, retention and encryption are read back by pages
only, while the engine reads `config.yaml`.

## 6. Plan

Done: the pipeline, its properties and the ledger it implements, maintenance, jobs,
the snapshot and the register it implements, restore jobs, settings and scheduler,
and the theorems of section 4. Left, in this order:

1. The history of restore jobs over pulls, and the running job in a snapshot.
2. Infrastructure if room is left: the worker pool of `ExistsBatch`, the progress
   brokers.

## 7. Not modelled

- rclone, its configuration, time limits and retries: a transfer is one step that
  succeeds, fails, or fails after it has taken effect.
- The chunks and the authentication of the cipher and the compressed streams: an
  object is its content, IV and whether it is compressed; it decrypts with its own
  IV and no other.
- How exclusion rules match, how directories are walked, and where a restored file
  is put: paths are names.
- Logs, progress events and their brokers (which drop events when a reader is
  slow, and decide nothing), the dry run of reconciliation (it writes nothing).
- The command line, which calls the same restorer, and the web page.
- Strategies other than the backup schedule: they are stored and read back like
  it, and nothing in the engine reads them.

Reasons in detail are in the notes of `PROJECT.json`.
