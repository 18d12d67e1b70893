---------------------------- MODULE ContentProofs ----------------------------
(***************************************************************************)
(* The object under a storage key has the content the key names, every row *)
(* names an object that is there, and no object is written twice; a file   *)
(* whose last backup succeeded comes back from its latest row.             *)
(***************************************************************************)
EXTENDS HistoryProofs

\* While the disk does not change under a session, the hashes it works with are
\* those of the disk.
HashesTrue ==
  /\ ContentAddressed
  /\ phase = "hash" => \A p \in Paths : job.kind[p] = "unchanged" => files[p].hash \in {disk[p], NoHash}
  /\ phase \in {"check", "dedup", "upload"} => \A p \in Paths : job.hash[p] \in {disk[p], NoHash}
  /\ phase \in {"scan", "hash", "check", "dedup"} => job.item = None
  /\ phase = "upload" /\ job.item # None =>
       job.hash[job.item.path] \in {job.item.content, NoHash}

LEMMA InitTrue == Init => HashesTrue
BY DEF Init, HashesTrue, ContentAddressed, Keys

\* A step that neither writes an object nor stays where hashes are used.
LEMMA OtherStepsTrue ==
  ASSUME HashesTrue, \A k \in Keys : oss'[k] \in {oss[k], None},
         phase' \notin {"scan", "hash", "check", "dedup", "upload"}
  PROVE  HashesTrue'
BY DEF HashesTrue, ContentAddressed, Keys

LEMMA NextTrue ==
  ASSUME "liveDisk" \notin Faults
  PROVE  TypeInv /\ HashesTrue /\ [Next]_vars => HashesTrue'
<1> SUFFICES ASSUME TypeInv, HashesTrue, [Next]_vars PROVE HashesTrue'
  OBVIOUS
<1>0. TypeOK /\ job \in Jobs /\ Compared
  BY DEF TypeInv, TypeOK
<1>1. CASE Scan
  <2>1. PICK kind \in [Paths -> Kinds], W \in SUBSET {p \in Paths : disk[p] # None} :
          /\ \A p \in Paths : IF p \in W THEN kind[p] = LostInWalk(p) ELSE kind[p] \in KindsOf(p)
          /\ job' = [job EXCEPT !.kind = kind]
    BY <1>1 DEF Scan
  <2>2. phase' = "hash" /\ UNCHANGED <<disk, oss, files>>
    BY <1>1 DEF Scan
  <2>3. job'.kind = kind /\ job'.item = None
    BY <1>0, <1>1, <2>1 DEF Jobs, Scan, HashesTrue
  <2>4. ASSUME NEW p \in Paths, kind[p] = "unchanged" PROVE files[p].hash \in {disk[p], NoHash}
    <3>1. p \notin W
      BY <2>1, <2>4 DEF LostInWalk
    <3> QED
      BY <2>1, <2>4, <3>1 DEF KindsOf
  <2> QED
    BY <2>2, <2>3, <2>4 DEF HashesTrue, ContentAddressed
<1>2. CASE ComputeHashes
  <2>1. PICK E \in SUBSET {p \in Paths : job.kind[p] \in {"added", "modified"} /\ disk[p] # None} :
          job' = [job EXCEPT !.hash = [p \in Paths |-> NewHash(p, E)],
                             !.gone = {p \in Paths : job.kind[p] = "deleted"}]
    BY <1>2 DEF ComputeHashes
  <2>2. phase = "hash" /\ phase' = "check" /\ UNCHANGED <<disk, oss>>
    BY <1>2 DEF ComputeHashes
  <2>3. (\A p \in Paths : job'.hash[p] = NewHash(p, E)) /\ job'.item = None
    BY <1>0, <2>1, <2>2 DEF Jobs, HashesTrue
  <2>4. \A p \in Paths : NewHash(p, E) \in {disk[p], NoHash}
    BY <2>2 DEF NewHash, HashesTrue
  <2> QED
    BY <2>2, <2>3, <2>4 DEF HashesTrue, ContentAddressed
<1>3. CASE CheckObjects \/ DedupDone
  <2>1. /\ phase \in {"check", "dedup"} /\ phase' \in {"dedup", "upload"} /\ UNCHANGED <<disk, oss>>
        /\ job'.hash = job.hash /\ job'.item = job.item
    BY <1>0, <1>3 DEF CheckObjects, DedupDone, Jobs
  <2> QED
    BY <2>1 DEF HashesTrue, ContentAddressed
<1>4. CASE StartBackup
  <2>1. phase' = "scan" /\ oss' = oss /\ job' = [NoJob EXCEPT !.cur = Len(Pulled(Database).backups) + 1]
    BY <1>4 DEF StartBackup
  <2>2. job'.item = None
    <3>1. NoJob \in Jobs /\ NoJob.item = None
      BY NoJobType DEF NoJob
    <3> QED
      BY <2>1, <3>1 DEF Jobs
  <2> QED
    BY <2>1, <2>2 DEF HashesTrue, ContentAddressed
<1>5. ASSUME NEW p \in Paths, DedupFile(p) PROVE HashesTrue'
  <2>1. phase = "dedup" /\ phase' = phase /\ UNCHANGED <<disk, oss>>
    BY <1>5 DEF DedupFile
  <2>2. job'.hash = job.hash /\ job'.item = job.item
    BY <1>0, <1>5 DEF DedupFile, Jobs
  <2> QED
    BY <2>1, <2>2 DEF HashesTrue, ContentAddressed
<1>6. ASSUME NEW p \in Paths, SealFile(p) PROVE HashesTrue'
  <2>1. phase = "upload" /\ phase' = phase /\ UNCHANGED <<disk, oss>>
    BY <1>6 DEF SealFile
  <2>2. job'.hash = job.hash /\ job'.item.path = p /\ job'.item.content = disk[p]
    BY <1>0, <1>6 DEF SealFile, Jobs
  <2> QED
    BY <2>1, <2>2 DEF HashesTrue, ContentAddressed
<1>7. CASE UploadObject
  <2>1. /\ phase = "upload" /\ phase' = phase /\ job.item # None /\ disk' = disk
        /\ PutObject \/ ReuseNonce \/ OverwriteFrozen \/ UploadUnsure
    BY <1>7 DEF UploadObject
  <2>2. job.item \in Items /\ ItemKey \in Keys /\ ItemObject.content = job.item.content
    BY <1>0, <2>1, ItemType DEF ItemObject
  <2>3. oss' \in {oss, [oss EXCEPT ![ItemKey] = ItemObject]}
    BY <2>1 DEF PutObject, ReuseNonce, OverwriteFrozen, UploadUnsure
  <2>4. ItemKey \in {job.item.content, NoHash}
    BY <2>1 DEF HashesTrue, ItemKey
  <2>5. oss \in [Keys -> Objects \cup {None}]
    BY <1>0 DEF TypeOK
  <2>6. ContentAddressed'
    BY <2>2, <2>3, <2>4, <2>5, NamesAssumption DEF HashesTrue, ContentAddressed, Keys
  <2>7. job'.hash = job.hash
    BY <1>0, <2>1 DEF PutObject, ReuseNonce, OverwriteFrozen, UploadUnsure, Jobs
  <2>8. job'.item.path = job.item.path /\ job'.item.content = job.item.content
    <3>1. CASE ReuseNonce
      <4>1. job'.item = [job.item EXCEPT !.iv = oss[ItemKey].iv, !.stored = TRUE]
        BY <1>0, <3>1 DEF ReuseNonce, Jobs
      <4> QED
        BY <2>2, <4>1 DEF Items
    <3>2. CASE PutObject \/ OverwriteFrozen \/ UploadUnsure
      <4>1. job'.item = [job.item EXCEPT !.stored = TRUE]
        BY <1>0, <3>2 DEF PutObject, OverwriteFrozen, UploadUnsure, Jobs
      <4> QED
        BY <2>2, <4>1 DEF Items
    <3> QED
      BY <2>1, <3>1, <3>2
  <2> QED
    BY <2>1, <2>6, <2>7, <2>8 DEF HashesTrue
<1>8. ASSUME phase = "upload", phase' = phase, UNCHANGED <<disk, oss>>,
             job'.hash = job.hash, job'.item = None
      PROVE  HashesTrue'
  BY <1>8 DEF HashesTrue, ContentAddressed
<1>9. CASE RecordUpload
  <2>1. phase = "upload" /\ phase' = phase /\ UNCHANGED <<disk, oss>>
    BY <1>9 DEF RecordUpload
  <2>2. job'.hash = job.hash /\ job'.item = None
    BY <1>0, <1>9 DEF RecordUpload, Jobs
  <2> QED
    BY <1>8, <2>1, <2>2
<1>10. ASSUME NEW p \in Paths, FileFails(p), phase = "upload" PROVE HashesTrue'
  <2>1. phase' = phase /\ UNCHANGED <<disk, oss>>
    BY <1>10 DEF FileFails
  <2>2. job'.hash = job.hash /\ job'.item = None
    BY <1>0, <1>10 DEF FileFails, Jobs
  <2> QED
    BY <1>8, <1>10, <2>1, <2>2
<1>11. ASSUME NEW p \in Paths, FailBeforeSealing(p) PROVE HashesTrue'
  BY <1>10, <1>11 DEF FailBeforeSealing
<1>12. CASE FailAfterSealing
  BY <1>0, <1>10, <1>12, ItemType DEF FailAfterSealing
<1>18. ASSUME NEW p \in Paths, FailUnmarked(p) PROVE HashesTrue'
  <2>1. phase = "upload" /\ phase' = phase /\ UNCHANGED <<disk, oss>>
    BY <1>18 DEF FailUnmarked
  <2>2. job'.hash = job.hash /\ job'.item = None
    BY <1>0, <1>18 DEF FailUnmarked, Jobs
  <2> QED
    BY <1>8, <2>1, <2>2
<1>13. ASSUME NEW p \in Paths, NEW c \in Hashes \cup {None}, Edit(p, c) PROVE HashesTrue'
  <2>1. phase \in {"idle", "down"} /\ phase' = phase /\ oss' = oss
    BY <1>13 DEF Edit
  <2> QED
    BY <2>1, OtherStepsTrue
<1>14. CASE Cancel
  <2>1. UNCHANGED <<disk, oss, files, phase>>
    BY <1>14 DEF Cancel, tables
  <2>2. job'.hash = job.hash /\ job'.item = job.item /\ job'.kind = job.kind
    BY <1>0, <1>14 DEF Cancel, Jobs
  <2> QED
    BY <2>1, <2>2 DEF HashesTrue, ContentAddressed
<1>15. ASSUME NEW k \in Keys, Lose(k) PROVE HashesTrue'
  <2>1. UNCHANGED <<disk, files, job, phase>> /\ \A j \in Keys : oss'[j] \in {oss[j], None}
    BY <1>0, <1>15 DEF Lose, tables, TypeOK
  <2> QED
    BY <2>1 DEF HashesTrue, ContentAddressed, Keys
<1>16. CASE UNCHANGED vars
  BY <1>16 DEF vars, tables, HashesTrue, ContentAddressed
<1>17. CASE \/ UploadsDone \/ SkipsDone \/ AddBackupFiles \/ MarkDeleted \/ ReleasesDone \/ Complete
           \/ CompleteUnrecorded \/ PushSnapshot \/ PushFails \/ NoticeCancel \/ HardError
           \/ AbortUnrecorded \/ Crash \/ Restart
           \/ \E p \in Paths : RecordSkipped(p) \/ SkipFails(p) \/ ReleaseFile(p) \/ ReleaseFails(p)
  <2>1. oss' = oss /\ phase' \notin {"scan", "hash", "check", "dedup", "upload"}
    BY <1>17 DEF UploadsDone, SkipsDone, AddBackupFiles, MarkDeleted, ReleasesDone, Complete,
                 CompleteUnrecorded, PushSnapshot, PushFails, NoticeCancel, HardError, AbortUnrecorded,
                 EndUnrecorded, Crash, Restart, RecordSkipped, SkipFails, ReleaseFile, ReleaseFails,
                 Abort, EndSession
  <2> QED
    BY <2>1, OtherStepsTrue
<1> QED
  BY <1>1, <1>2, <1>3, <1>4, <1>5, <1>6, <1>7, <1>9, <1>11, <1>12, <1>13, <1>14, <1>15, <1>16,
     <1>17, <1>18 DEF Next, SessionStep, Environment, Exhausted, Refused

\* As long as files do not change while they are being backed up, every object
\* has the content its key names, whatever the store, the process and the other
\* faults do: an upload never replaces the content of another file.
THEOREM ObjectsAreContentAddressed ==
  ASSUME "liveDisk" \notin Faults
  PROVE  Spec => []ContentAddressed
<1>1. Init => TypeInv /\ HashesTrue
  BY InitType, InitTrue
<1>2. TypeInv /\ HashesTrue /\ [Next]_vars => (TypeInv /\ HashesTrue)'
  BY NextType, NextTrue
<1>3. HashesTrue => ContentAddressed
  BY DEF HashesTrue
<1> QED
  BY <1>1, <1>2, <1>3, PTL DEF Spec

-----------------------------------------------------------------------------
(* Every row names an object that is there, and no object is written twice. *)

\* Every object the database, its snapshot or the session relies on is there.
ObjectsThere ==
  /\ RowsBacked
  /\ \A r \in job.batch : oss[r.key] # None
  /\ \A k \in job.confirmed : oss[k] # None
  /\ \A p \in job.skipped : job.hash[p] \in job.confirmed
  /\ phase \in {"scan", "hash", "check"} => job.skipped = {}

\* Nothing but a loss takes an object away.
ObjectsKept == \A k \in Keys : oss[k] # None => oss'[k] # None

LEMMA NextKeepsObjects ==
  ASSUME "loss" \notin Faults, TypeInv, [Next]_vars
  PROVE  ObjectsKept
<1>1. CASE UploadObject
  <2>1. oss' \in {oss, [oss EXCEPT ![ItemKey] = ItemObject]}
    BY <1>1 DEF UploadObject, PutObject, ReuseNonce, OverwriteFrozen, UploadUnsure
  <2>2. ItemObject # None /\ oss \in [Keys -> Objects \cup {None}]
    BY <1>1, ItemType, NoneAssumption DEF UploadObject, TypeInv, TypeOK
  <2> QED
    BY <2>1, <2>2 DEF ObjectsKept
<1>2. ASSUME NEW k \in Keys, Lose(k) PROVE FALSE
  BY <1>2 DEF Lose, Fault
<1>3. CASE oss' = oss
  BY <1>3 DEF ObjectsKept
<1> QED
  BY <1>1, <1>2, <1>3
     DEF Next, SessionStep, Environment, Exhausted, vars, StartBackup, Scan, ComputeHashes,
         CheckObjects, DedupFile, DedupDone, SealFile, FailBeforeSealing, RecordUpload,
         FailAfterSealing, FileFails, UploadsDone, RecordSkipped, SkipsDone, AddBackupFiles,
         MarkDeleted, ReleaseFile, ReleasesDone, Complete, PushSnapshot, PushFails, NoticeCancel,
         HardError, Abort, Restart, Edit, Cancel, Crash, Refused, FailUnmarked, SkipFails,
         ReleaseFails, CompleteUnrecorded, AbortUnrecorded, EndUnrecorded

\* A step whose rows and whose locals rely on nothing that is not there.
LEMMA ThereKept ==
  ASSUME TypeInv, ObjectsThere, ObjectsKept,
         rows' \in {rows, rows \cup job.batch} \/ (snap # None /\ rows' = snap.rows),
         snap' \in {snap, None, Database},
         \A r \in job'.batch : r \in job.batch \/ (r.key \in Keys /\ oss'[r.key] # None),
         \A k \in job'.confirmed : k \in job.confirmed \/ (k \in Keys /\ oss'[k] # None),
         \A p \in job'.skipped : job'.hash[p] \in job'.confirmed,
         phase' \in {"scan", "hash", "check"} => job'.skipped = {}
  PROVE  ObjectsThere'
<1>1. /\ \A r \in rows \cup job.batch : r.key \in Keys
      /\ snap # None => \A r \in snap.rows : r.key \in Keys
      /\ job.confirmed \subseteq Keys
  BY DEF TypeInv, TypeOK, Jobs, BackupRows, Snapshots
<1>2. /\ \A r \in rows \cup job.batch : oss'[r.key] # None
      /\ snap # None => \A r \in snap.rows : oss'[r.key] # None
      /\ \A k \in job.confirmed : oss'[k] # None
  BY <1>1 DEF ObjectsThere, RowsBacked, ObjectsKept
<1>3. \A r \in rows' : oss'[r.key] # None
  BY <1>2
<1>4. snap' # None => \A r \in snap'.rows : oss'[r.key] # None
  BY <1>2 DEF Database
<1> QED
  BY <1>2, <1>3, <1>4 DEF ObjectsThere, RowsBacked

LEMMA NextThere ==
  ASSUME "loss" \notin Faults
  PROVE  TypeInv /\ ObjectsThere /\ [Next]_vars => ObjectsThere'
<1> SUFFICES ASSUME TypeInv, ObjectsThere, [Next]_vars PROVE ObjectsThere'
  OBVIOUS
<1>0. job \in Jobs /\ ObjectsKept
  BY NextKeepsObjects DEF TypeInv, TypeOK
<1> USE <1>0
<1>1. CASE StartBackup
  <2>1. rows' = Pulled(Database).rows /\ snap' = snap
    BY <1>1 DEF StartBackup, LoadDatabase
  <2>2. rows' = rows \/ (snap # None /\ rows' = snap.rows)
    BY <2>1 DEF Pulled, Database
  <2> QED
    BY <1>1, <2>1, <2>2, StartLocals, ThereKept
<1>2. CASE Scan
  <2>1. phase = "scan" /\ UNCHANGED <<rows, snap>>
    BY <1>2 DEF Scan
  <2> QED
    BY <1>2, <2>1, ScanLocals, ThereKept DEF ObjectsThere
<1>3. CASE ComputeHashes
  <2>1. phase = "hash" /\ UNCHANGED <<rows, snap>>
    BY <1>3 DEF ComputeHashes, tables
  <2> QED
    BY <1>3, <2>1, HashLocals, ThereKept DEF ObjectsThere
<1>4. CASE CheckObjects
  <2>1. phase = "check" /\ phase' = "dedup" /\ UNCHANGED <<oss, rows, snap>>
    BY <1>4 DEF CheckObjects, tables
  <2>2. \A k \in job'.confirmed : k \in Keys /\ oss'[k] # None
    BY <1>4, <2>1, CheckLocals DEF KnownKeys, ExistsBatch, Present, Jobs
  <2>3. job'.skipped = {} /\ job'.batch = job.batch
    BY <1>4, <2>1, CheckLocals DEF ObjectsThere
  <2> QED
    BY <2>1, <2>2, <2>3, ThereKept
<1>5. ASSUME NEW p \in Paths, DedupFile(p) PROVE ObjectsThere'
  <2>1. phase' = "dedup" /\ UNCHANGED <<rows, snap>>
    BY <1>5 DEF DedupFile
  <2>2. \A q \in job'.skipped : job'.hash[q] \in job'.confirmed
    BY <1>5, DedupLocals DEF ObjectsThere
  <2> QED
    BY <1>5, <2>1, <2>2, DedupLocals, ThereKept
<1>6. CASE RecordUpload
  <2> DEFINE p == job.item.path
             m == [iv |-> job.item.iv, comp |-> job.item.comp]
  <2>1. phase' = "upload" /\ UNCHANGED <<oss, rows, snap>> /\ oss[ItemKey] # None
    BY <1>6 DEF RecordUpload, Verified
  <2>2. RowOf(p, m).key = ItemKey /\ ItemKey \in Keys
    BY <1>6, ItemType DEF RowOf, ItemKey, RecordUpload, TypeInv
  <2>3. \A r \in job'.batch : r \in job.batch \/ (r.key \in Keys /\ oss'[r.key] # None)
    BY <1>6, <2>1, <2>2, RecordLocals
  <2>4. UNCHANGED <<job.confirmed, job.skipped, job.hash>>
    BY <1>6, RecordLocals
  <2> QED
    BY <2>1, <2>3, <2>4, ThereKept DEF ObjectsThere
<1>7. ASSUME NEW p \in Paths, RecordSkipped(p) PROVE ObjectsThere'
  <2>1. phase' = "skip" /\ UNCHANGED <<oss, rows, snap>> /\ p \in job.skipped
    BY <1>7 DEF RecordSkipped
  <2>2. oss[job.hash[p]] # None /\ job.hash[p] \in Keys
    BY <2>1 DEF ObjectsThere, Jobs
  <2>3. \A m : RowOf(p, m).key = job.hash[p]
    BY DEF RowOf
  <2>4. \A r \in job'.batch : r \in job.batch \/ (r.key \in Keys /\ oss'[r.key] # None)
    BY <1>7, <2>1, <2>2, <2>3, SkipLocals
  <2>5. job'.confirmed = job.confirmed /\ job'.hash = job.hash /\ job'.skipped \subseteq job.skipped
    BY <1>7, SkipLocals
  <2> QED
    BY <2>1, <2>4, <2>5, ThereKept DEF ObjectsThere
<1>8. ASSUME UNCHANGED <<job.batch, job.confirmed, job.skipped, job.hash>>,
             rows' \in {rows, rows \cup job.batch}, snap' \in {snap, None, Database},
             phase' \notin {"scan", "hash", "check"} \/ phase' = phase
      PROVE  ObjectsThere'
  BY <1>8, ThereKept DEF ObjectsThere
<1>9. ASSUME NEW p \in Paths, SealFile(p) PROVE ObjectsThere'
  BY <1>8, <1>9, SealLocals DEF SealFile
<1>10. CASE UploadObject
  BY <1>8, <1>10, UploadLocals DEF UploadObject, tables
<1>11. ASSUME NEW p, FileFails(p) PROVE ObjectsThere'
  BY <1>8, <1>11, FailLocals DEF FileFails
<1>12. ASSUME NEW p \in Paths, ReleaseFile(p) PROVE ObjectsThere'
  BY <1>8, <1>12, ReleaseLocals DEF ReleaseFile
<1>13. CASE Cancel
  BY <1>8, <1>13, CancelLocals DEF Cancel, tables
<1>14. CASE \/ DedupDone \/ UploadsDone \/ SkipsDone \/ AddBackupFiles \/ MarkDeleted
            \/ ReleasesDone \/ Complete \/ CompleteUnrecorded
  BY <1>8, <1>14 DEF DedupDone, UploadsDone, SkipsDone, AddBackupFiles, MarkDeleted, ReleasesDone,
                     Complete, CompleteUnrecorded, tables
<1>15. ASSUME NEW p \in Paths, NEW c \in Hashes \cup {None}, Edit(p, c) PROVE ObjectsThere'
  BY <1>8, <1>15 DEF Edit, tables
<1>16. CASE UNCHANGED vars
  BY <1>8, <1>16 DEF vars, tables
<1>17. ASSUME job' = NoJob, rows' = rows \/ (snap # None /\ rows' = snap.rows),
              snap' \in {snap, None, Database}
       PROVE  ObjectsThere'
  <2>1. job'.batch = {} /\ job'.confirmed = {} /\ job'.skipped = {}
    BY <1>17 DEF NoJob
  <2> QED
    BY <1>17, <2>1, ThereKept
<1>18. CASE PushSnapshot \/ PushFails \/ NoticeCancel \/ HardError \/ AbortUnrecorded \/ Crash
  BY <1>17, <1>18 DEF PushSnapshot, PushFails, PushFailed, Tear, NoticeCancel, HardError, Crash, Abort,
                      AbortUnrecorded, EndUnrecorded, EndSession, tables
<1>19. CASE Restart
  <2>1. rows' = rows \/ (snap # None /\ rows' = snap.rows)
    BY <1>19 DEF Restart, LoadDatabase, Pulled, Cleaned, Database
  <2>2. phase' = "idle" /\ UNCHANGED <<snap, job>>
    BY <1>19 DEF Restart
  <2> QED
    BY <2>1, <2>2, ThereKept DEF ObjectsThere
<1>20. ASSUME NEW k \in Keys, Lose(k) PROVE FALSE
  BY <1>20 DEF Lose, Fault
<1>21. ASSUME NEW p \in Paths, FailUnmarked(p) PROVE ObjectsThere'
  BY <1>8, <1>21, UnmarkedLocals DEF FailUnmarked
<1>22. ASSUME NEW p \in Paths, ReleaseFails(p) PROVE ObjectsThere'
  BY <1>8, <1>22, ReleaseFailsLocals DEF ReleaseFails, tables
<1>23. ASSUME NEW p \in Paths, SkipFails(p) PROVE ObjectsThere'
  <2>1. phase' = "skip" /\ UNCHANGED <<oss, rows, snap>> /\ p \in job.skipped
    BY <1>23 DEF SkipFails
  <2>2. oss[job.hash[p]] # None /\ job.hash[p] \in Keys
    BY <2>1 DEF ObjectsThere, Jobs
  <2>3. \A m : RowOf(p, m).key = job.hash[p]
    BY DEF RowOf
  <2>4. \A r \in job'.batch : r \in job.batch \/ (r.key \in Keys /\ oss'[r.key] # None)
    BY <1>23, <2>1, <2>2, <2>3, SkipFailsLocals
  <2>5. job'.confirmed = job.confirmed /\ job'.hash = job.hash /\ job'.skipped \subseteq job.skipped
    BY <1>23, SkipFailsLocals
  <2> QED
    BY <2>1, <2>4, <2>5, ThereKept DEF ObjectsThere
<1> QED
  BY <1>1, <1>2, <1>3, <1>4, <1>5, <1>6, <1>7, <1>9, <1>10, <1>11, <1>12, <1>13, <1>14,
     <1>15, <1>16, <1>18, <1>19, <1>20, <1>21, <1>22, <1>23
     DEF Next, SessionStep, Environment, Exhausted, Refused, FailBeforeSealing, FailAfterSealing

\* As long as the store loses nothing, every row of the local database and of the
\* pushed one names an object that is there, whatever fails, is cancelled or crashes.
THEOREM RowsAreBacked ==
  ASSUME "loss" \notin Faults
  PROVE  Spec => []RowsBacked
<1>1. Init => TypeInv /\ ObjectsThere
  BY InitType DEF Init, ObjectsThere, RowsBacked, NoJob
<1>2. TypeInv /\ ObjectsThere /\ [Next]_vars => (TypeInv /\ ObjectsThere)'
  BY NextType, NextThere
<1>3. ObjectsThere => RowsBacked
  BY DEF ObjectsThere
<1> QED
  BY <1>1, <1>2, <1>3, PTL DEF Spec

\* An upload that could see what was there only adds an object.
LEMMA UploadOnlyAdds ==
  ASSUME {"loss", "preCheckError", "nonceUnreadable"} \cap Faults = {}, TypeInv, [Next]_vars
  PROVE  \A k \in Keys : oss[k] # None => oss'[k] = oss[k]
<1>1. CASE UploadObject
  <2>1. PutObject \/ ReuseNonce
    BY <1>1 DEF UploadObject, OverwriteFrozen, UploadUnsure, Fault
  <2>2. oss \in [Keys -> Objects \cup {None}]
    BY DEF TypeInv, TypeOK
  <2> QED
    BY <2>1, <2>2 DEF PutObject, ReuseNonce
<1>2. ASSUME NEW k \in Keys, Lose(k) PROVE FALSE
  BY <1>2 DEF Lose, Fault
<1>3. CASE oss' = oss
  BY <1>3
<1> QED
  BY <1>1, <1>2, <1>3
     DEF Next, SessionStep, Environment, Exhausted, vars, StartBackup, Scan, ComputeHashes,
         CheckObjects, DedupFile, DedupDone, SealFile, FailBeforeSealing, RecordUpload,
         FailAfterSealing, FileFails, UploadsDone, RecordSkipped, SkipsDone, AddBackupFiles,
         MarkDeleted, ReleaseFile, ReleasesDone, Complete, PushSnapshot, PushFails, NoticeCancel,
         HardError, Abort, Restart, Edit, Cancel, Crash, Refused, FailUnmarked, SkipFails,
         ReleaseFails, CompleteUnrecorded, AbortUnrecorded, EndUnrecorded

\* As long as the store can answer whether an object is there and what its nonce is,
\* and loses none, no session writes an object that another one may have recorded.
THEOREM NothingIsClobbered ==
  ASSUME {"loss", "preCheckError", "nonceUnreadable"} \cap Faults = {}
  PROVE  Spec => NoClobber
<1>1. TypeInv /\ [Next]_vars => [\A k \in Keys : oss[k] # None => oss'[k] = oss[k]]_vars
  BY UploadOnlyAdds
<1> QED
  BY <1>1, InitType, NextType, PTL DEF Spec, NoClobber
-----------------------------------------------------------------------------
(* What was backed up comes back. *)

\* The faults under which the latest row of a file stays good, however many there are.
Mild == Reuse = {} /\ Faults \subseteq {"batchCheckError", "nonceUnreadable", "fileError"}

HashOf(p) == IF files[p] = None THEN None ELSE files[p].hash
Known == {k \in Keys : index[k] # None}

\* Every session ends by pushing its database, which the next one pulls.
Uninterrupted ==
  /\ phase # "down"
  /\ phase \in Working => ~job.cancelled
  /\ phase = "idle" => job.batch = {} /\ job.item = None /\ snap \in {None, Database}

\* Without copies and reverted edits a content is one file's for good.
OneOwner ==
  /\ \A p \in Paths : disk[p] \in seen \cup {None} /\ HashOf(p) \in seen \cup {None}
  /\ \A k \in Hashes : oss[k] # None \/ k \in Known => k \in seen
  /\ \A p \in Paths : \A q \in Paths \ {p} :
       /\ disk[p] # None => disk[p] # disk[q]
       /\ HashOf(p) # None => HashOf(p) # disk[q] /\ HashOf(p) # HashOf(q)

\* A file waits in one place.
Apart ==
  /\ job.pending \cap (job.upload \cup job.skipped) = {}
  /\ job.upload \cap job.skipped = {}
  /\ InHand \cap Waiting = {}

Sorting ==
  /\ Apart
  /\ \A p \in job.pending : job.hash[p] \in Known /\ p \notin job.fresh
  /\ \A p \in job.skipped : job.hash[p] \in Known
  /\ \A p \in job.upload \cup InHand : p \in job.fresh <=> job.hash[p] \notin Known
  /\ \A r \in job.batch : r.path \in Present \ (Waiting \cup InHand) /\ r.key = disk[r.path]
  /\ \A k \in Keys : job.meta[k] # None => \E r \in job.batch : r.key = k

Queue ==
  /\ phase \in Sorted => Sorting
  /\ phase \notin Sorted => job.batch = {} /\ \A k \in Keys : job.meta[k] = None
  /\ phase \in Working => \A r \in rows : r.backup = job.cur => r \in job.batch

\* The object of a file is stored as its item says.
InStore ==
  /\ \A k \in Known : oss[k] # None
  /\ \A p \in Paths : disk[p] # None /\ oss[disk[p]] # None =>
                        oss[disk[p]].comp = (p \in Compressible)
  /\ job.item # None =>
       /\ job.item.comp = (job.item.path \in Compressible)
       /\ job.item.stored => /\ oss[ItemKey] # None /\ job.item.iv = oss[ItemKey].iv
                             /\ job.item.comp = oss[ItemKey].comp

\* The rows a file would be restored from: those of the session, else the latest.
SessionRows(p) == {r \in job.batch : r.path = p}
RowsNow(p) == IF SessionRows(p) # {} THEN SessionRows(p) ELSE LatestRows(p)
Good(r, h) ==
  /\ r.key = h /\ oss[h] # None /\ r.comp = oss[h].comp
  /\ r.iv = oss[h].iv \/ (r.iv # None /\ r.iv[1] < oss[h].iv[1])
Backed(p) == RowsNow(p) # {} /\ \A r \in RowsNow(p) : Good(r, HashOf(p))

\* The session an IV is from, and that no IV is from a later session than this one; an
\* item is encrypted under a fresh one, and until the session records its files no row
\* has an IV as fresh.
Age(iv) == IF iv = None THEN 0 ELSE iv[1]
Aged ==
  /\ \A k \in Keys : oss[k] # None => Age(oss[k].iv) <= runs
  /\ \A r \in rows \cup job.batch : Age(r.iv) <= runs
  /\ \A k \in Keys : job.meta[k] # None => Age(job.meta[k].iv) <= runs
  /\ job.item # None => /\ Age(job.item.iv) <= runs
                        /\ ~job.item.stored => job.item.iv # None /\ Age(job.item.iv) = runs
  /\ phase \in Early => \A r \in rows : Age(r.iv) < runs

Succeeded(p) == files[p] # None /\ files[p].last = "success"

\* A known content is its file's current one, and can be restored from its rows.
Remembered ==
  /\ \A p \in Paths : disk[p] \in Known => HashOf(p) = disk[p]
  /\ \A p \in Paths \ InHand : Succeeded(p) => HashOf(p) \in Known
  /\ \A p \in Paths : HashOf(p) \in Known => Backed(p)

Kept == Uninterrupted /\ OneOwner /\ Queue /\ InStore /\ Remembered

LEMMA Basics ==
  ASSUME TypeInv, DiskTaken
  PROVE  /\ TypeOK /\ job \in Jobs /\ Present \subseteq Paths
         /\ phase \in Sorted =>
              /\ Waiting \cup InHand \subseteq Present
              /\ \A p \in Present : /\ job.hash[p] = disk[p] /\ disk[p] \in Hashes
                                    /\ job.hash[p] \in Keys \ {NoHash}
         /\ \A p \in Paths : HashOf(p) \in Hashes \cup {None}
         /\ phase \in Working \ {"upload"} => job.item = None
         /\ InHand = {} <=> job.item = None
<1>1. TypeOK /\ job \in Jobs /\ Present \subseteq Paths
  BY DEF TypeInv, TypeOK, Present
<1>2. phase \in Sorted => /\ Waiting \cup InHand \subseteq Present
                          /\ \A p \in Present : job.hash[p] = disk[p] /\ disk[p] # None
  BY <1>1 DEF DiskTaken, ScanTrue, Progress, Sorted
<1>3. \A p \in Present : disk[p] # None => disk[p] \in Hashes /\ disk[p] \in Keys \ {NoHash}
  BY <1>1, NamesAssumption DEF TypeOK, Keys
<1>4. \A p \in Paths : HashOf(p) \in Hashes \cup {None}
  BY <1>1 DEF HashOf, DiskTaken, RowsHashed, TypeOK, FileRows, Keys
<1>5. InHand = {} <=> job.item = None
  BY DEF InHand
<1>6. phase \in Working \ {"upload"} => InHand = {}
  BY DEF DiskTaken, Progress, Working, Phases, Uploaded, Sorted, Hashed
<1> QED
  BY <1>1, <1>2, <1>3, <1>4, <1>5, <1>6

\* What the statements on hash_index do to the known contents.
LEMMA KnownSteps ==
  ASSUME TypeOK, NEW h \in Keys
  PROVE  /\ index' = UpsertHash(h) => Known' = Known \cup {h}
         /\ index' = IncrementRef(h) /\ h \in Known => Known' = Known
         /\ index' = DecrementRef(h) => Known' = Known
         /\ index' = index => Known' = Known
<1>1. UpsertHash(h)[h] # None /\ \A k \in Keys \ {h} : UpsertHash(h)[k] = index[k]
  <2>1. UpsertHash(h)[h] \in HashRows
    BY DEF UpsertHash, TypeOK, HashRows
  <2> QED
    BY <2>1, NoneAssumption DEF UpsertHash, TypeOK
<1>2. h \in Known => /\ IncrementRef(h)[h] # None
                     /\ \A k \in Keys \ {h} : IncrementRef(h)[k] = index[k]
  <2>1. h \in Known => IncrementRef(h)[h] \in HashRows
    BY DEF Known, IncrementRef, TypeOK, HashRows
  <2> QED
    BY <2>1, NoneAssumption DEF IncrementRef, TypeOK
<1>3. \A k \in Keys : DecrementRef(h)[k] # None <=> index[k] # None
  <2>1. index[h] # None /\ index[h].ref # 0 => DecrementRef(h)[h] \in HashRows
    BY DEF DecrementRef, TypeOK, HashRows
  <2> QED
    BY <2>1, NoneAssumption DEF DecrementRef, TypeOK
<1> QED
  BY <1>1, <1>2, <1>3 DEF Known

\* A file that fails for no other reason than a fault.
Failed(p) ==
  /\ phase = "upload" /\ FileFails(p) /\ Fault("fileError")
  /\ p \in job.upload \cup InHand /\ InHand \subseteq {p}

\* The upload of the item in hand.
Stored == UploadObject /\ (PutObject \/ ReuseNonce \/ OverwriteFrozen)

LEMMA MildSteps ==
  ASSUME Mild, TypeInv, DiskTaken, Kept, [Next]_vars
  PROVE  \/ StartBackup \/ Scan \/ ComputeHashes \/ CheckObjects \/ Fileless \/ Stored
         \/ RecordUpload \/ MarkDeleted \/ PushSnapshot
         \/ \E p \in Paths : \/ DedupFile(p) \/ SealFile(p) \/ RecordSkipped(p)
                             \/ ReleaseFile(p) \/ Failed(p)
         \/ \E p \in Paths, c \in Hashes \cup {None} : phase = "idle" /\ Edit(p, c)
         \/ UNCHANGED vars
<1>1. \A f \in {"hardError", "statusError", "rowError", "cancel", "crash", "pushError", "pullError",
               "loss", "preCheckError"} : ~Fault(f)
  BY DEF Mild, Fault
<1>2. /\ ~Cancel /\ ~Crash /\ ~HardError /\ ~PushFails /\ ~Restart /\ ~NoticeCancel
      /\ ~CompleteUnrecorded /\ ~AbortUnrecorded
      /\ \A p \in Paths : ~FailUnmarked(p) /\ ~SkipFails(p) /\ ~ReleaseFails(p)
  BY <1>1 DEF Cancel, Crash, HardError, PushFails, Restart, NoticeCancel, CancelNoticed,
              CompleteUnrecorded, AbortUnrecorded, EndUnrecorded, FailUnmarked, SkipFails,
              ReleaseFails, Kept, Uninterrupted, Working, Phases
<1>3. \A k \in Keys : ~Lose(k)
  BY <1>1 DEF Lose
<1>4. \A p \in Paths : FailBeforeSealing(p) => Failed(p)
  <2> SUFFICES ASSUME NEW p \in Paths, FailBeforeSealing(p) PROVE Failed(p)
    OBVIOUS
  <2>1. phase = "upload" /\ p \in job.upload /\ job.item = None /\ FileFails(p)
    BY DEF FailBeforeSealing
  <2>2. disk[p] # None
    BY <2>1 DEF DiskTaken, ScanTrue, Progress, Waiting, Hashed, Sorted
  <2> QED
    BY <2>1, <2>2 DEF FailBeforeSealing, Failed, InHand
<1>5. FailAfterSealing => \E p \in Paths : Failed(p)
  <2> SUFFICES ASSUME FailAfterSealing PROVE Failed(job.item.path) /\ job.item.path \in Paths
    OBVIOUS
  <2>1. phase = "upload" /\ job.item # None /\ FileFails(job.item.path)
    BY DEF FailAfterSealing
  <2>2. ~job.cancelled /\ (job.item.stored => oss[ItemKey] # None)
    BY <2>1 DEF Kept, Uninterrupted, InStore, Working, Phases
  <2>3. job.item.path \in Paths
    BY <2>1, ItemType DEF TypeInv
  <2> QED
    BY <2>1, <2>2, <2>3 DEF FailAfterSealing, Failed, InHand
<1>6. UploadObject => Stored
  BY <1>1 DEF UploadObject, UploadUnsure, Stored
<1>7. \A p \in Paths, c \in Hashes \cup {None} : Edit(p, c) => phase = "idle"
  BY DEF Edit, Kept, Uninterrupted, Mild
<1> QED
  BY <1>2, <1>3, <1>4, <1>5, <1>6, <1>7
     DEF Next, SessionStep, Environment, Exhausted, Refused, Fileless

\* A session gives no file another content than the disk has.
LEMMA StillOwned ==
  ASSUME OneOwner, UNCHANGED <<disk, seen>>,
         \A p \in Paths : HashOf(p)' \in {HashOf(p), disk[p]},
         \A k \in Hashes : oss'[k] # None => oss[k] # None \/ \E p \in Paths : k = disk[p],
         \A k \in Hashes : k \in Known' => k \in Known \/ \E p \in Paths : k = disk[p],
         None \notin Hashes
  PROVE  OneOwner'
<1>1. \A p \in Paths : disk'[p] \in seen' \cup {None} /\ HashOf(p)' \in seen' \cup {None}
  BY DEF OneOwner
<1>2. \A k \in Hashes : oss'[k] # None \/ k \in Known' => k \in seen'
  BY DEF OneOwner
<1>3. ASSUME NEW p \in Paths, NEW q \in Paths \ {p}
      PROVE  /\ disk'[p] # None => disk'[p] # disk'[q]
             /\ HashOf(p)' # None => HashOf(p)' # disk'[q] /\ HashOf(p)' # HashOf(q)'
  <2>1. /\ disk[p] # None => disk[p] # disk[q]
        /\ HashOf(p) # None => HashOf(p) # disk[q] /\ HashOf(p) # HashOf(q)
        /\ HashOf(q) # None => HashOf(q) # disk[p]
    BY DEF OneOwner
  <2>2. HashOf(p)' \in {HashOf(p), disk[p]} /\ HashOf(q)' \in {HashOf(q), disk[q]}
    OBVIOUS
  <2> QED
    BY <2>1, <2>2
<1> QED
  BY <1>1, <1>2, <1>3 DEF OneOwner

\* A step that stores no object, adds no row and processes no file.
LEMMA CalmRemembers ==
  ASSUME Remembered, UNCHANGED <<disk, oss, rows>>,
         job'.batch = job.batch, InHand' = InHand, Known' = Known,
         \A p \in Paths : HashOf(p)' = HashOf(p) /\ (Succeeded(p)' => Succeeded(p))
  PROVE  Remembered'
<1>1. \A p \in Paths : RowsNow(p)' = RowsNow(p)
  BY DEF RowsNow, SessionRows, LatestRows
<1>2. \A p \in Paths : Backed(p)' <=> Backed(p)
  BY <1>1 DEF Backed, Good
<1> QED
  BY <1>2 DEF Remembered

\* What is calm about such a step, for the rest.
LEMMA CalmKeeps ==
  ASSUME TypeInv, Kept, UNCHANGED <<disk, seen, oss, rows>>, Known' = Known,
         UNCHANGED <<job.cur, job.kind, job.hash, job.pending, job.confirmed, job.upload, job.fresh,
                     job.skipped, job.item, job.batch, job.meta, job.cancelled>>,
         phase \in Sorted, phase' \in Sorted,
         \A p \in Paths : HashOf(p)' = HashOf(p) /\ (Succeeded(p)' => Succeeded(p))
  PROVE  Kept'
<1>1. Uninterrupted'
  BY DEF Kept, Uninterrupted, Sorted, Hashed, Working, Phases
<1>2. OneOwner'
  BY StillOwned, NamesAssumption DEF Kept
<1>3. Queue'
  <2>1. Sorting'
    BY DEF Kept, Queue, Sorting, Apart, Present, Waiting, InHand, TypeInv, TypeOK
  <2> QED
    BY <2>1 DEF Kept, Queue, Sorted, Hashed, Working, Phases
<1>4. InStore'
  BY DEF Kept, InStore, ItemKey
<1>5. Remembered'
  BY CalmRemembers DEF Kept, InHand
<1> QED
  BY <1>1, <1>2, <1>3, <1>4, <1>5 DEF Kept

LEMMA StartKeeps ==
  ASSUME TypeInv, DiskTaken, Dated, Kept, StartBackup
  PROVE  Kept'
<1>1. /\ phase = "idle" /\ phase' = "scan" /\ UNCHANGED <<disk, seen, oss, snap, bounds>>
      /\ job.batch = {} /\ job.item = None
      /\ TypeOK
  BY DEF StartBackup, Kept, Uninterrupted, TypeInv, TypeOK
<1>2. Pulled(Database) = Database
  BY <1>1 DEF Kept, Uninterrupted, Pulled
<1>3. UNCHANGED <<files, index, rows>> /\ job'.cur = Len(backups) + 1
  BY <1>2, StartLocals DEF StartBackup, LoadDatabase, Database
<1>4. /\ job'.batch = {} /\ job'.item = None /\ InHand = {} /\ InHand' = {} /\ ~job'.cancelled
      /\ \A k \in Keys : job'.meta[k] = None
  BY <1>1, StartLocals DEF InHand
<1>5. \A p \in Paths : HashOf(p)' = HashOf(p) /\ (Succeeded(p)' => Succeeded(p))
  BY <1>3 DEF HashOf, Succeeded
<1>6. Known' = Known
  BY <1>3 DEF Known
<1>7. Uninterrupted'
  BY <1>1, <1>4 DEF Uninterrupted
<1>8. OneOwner'
  BY <1>1, <1>5, <1>6, StillOwned, NamesAssumption DEF Kept
<1>9. Queue'
  <2>1. \A r \in rows : r.backup # Len(backups) + 1
    <3>1. backups \in Seq(Statuses)
      BY <1>1 DEF TypeOK
    <3> QED
      BY <3>1, LenProperties DEF Dated
  <2> QED
    BY <1>1, <1>3, <1>4, <2>1 DEF Queue, Sorted, Hashed
<1>10. InStore'
  BY <1>1, <1>4, <1>6 DEF Kept, InStore
<1>11. Remembered'
  BY <1>1, <1>3, <1>4, <1>5, <1>6, CalmRemembers DEF Kept
<1> QED
  BY <1>7, <1>8, <1>9, <1>10, <1>11 DEF Kept

LEMMA PrepareKeeps ==
  ASSUME TypeInv, DiskTaken, Kept, Scan \/ ComputeHashes
  PROVE  Kept'
<1>1. /\ phase \in {"scan", "hash"} /\ phase' \in {"hash", "check"}
      /\ UNCHANGED <<disk, seen, oss, snap, files, index, rows>>
  BY DEF Scan, ComputeHashes, tables
<1>2. UNCHANGED <<job.cur, job.item, job.batch, job.meta, job.cancelled>>
  BY ScanLocals, HashLocals
<1>3. job.item = None /\ InHand = {} /\ InHand' = {}
  BY <1>1, <1>2, Basics DEF Working, Phases, InHand
<1>4. /\ Known' = Known
      /\ \A p \in Paths : HashOf(p)' = HashOf(p) /\ (Succeeded(p)' => Succeeded(p))
  BY <1>1 DEF Known, HashOf, Succeeded
<1>5. Uninterrupted'
  BY <1>1, <1>2 DEF Kept, Uninterrupted, Working, Phases
<1>6. OneOwner'
  BY <1>1, <1>4, StillOwned, NamesAssumption DEF Kept
<1>7. Queue'
  BY <1>1, <1>2 DEF Kept, Queue, Sorted, Hashed, Working, Phases
<1>8. InStore'
  BY <1>1, <1>2, <1>3, <1>4 DEF Kept, InStore
<1>9. Remembered'
  BY <1>1, <1>2, <1>3, <1>4, CalmRemembers DEF Kept
<1> QED
  BY <1>5, <1>6, <1>7, <1>8, <1>9 DEF Kept

\* The sorting of the files.
LEMMA CheckKeeps ==
  ASSUME TypeInv, DiskTaken, Kept, CheckObjects
  PROVE  Kept'
<1>1. /\ phase = "check" /\ phase' = "dedup" /\ UNCHANGED <<disk, seen, oss, snap, files, index, rows>>
      /\ TypeOK /\ job \in Jobs
  BY DEF CheckObjects, tables, TypeInv, TypeOK
<1>2. /\ job'.upload = NewContents /\ job'.fresh = NewContents /\ job'.pending = Present \ NewContents
      /\ UNCHANGED <<job.cur, job.kind, job.hash, job.skipped, job.item, job.batch, job.meta, job.cancelled>>
  BY CheckLocals
<1>4. job.item = None /\ InHand = {} /\ InHand' = {} /\ job.skipped = {} /\ job.batch = {}
      /\ \A k \in Keys : job.meta[k] = None
  BY <1>1, <1>2, Basics DEF Working, Phases, InHand, DiskTaken, Progress, Kept, Queue, Sorted, Hashed
<1>5. /\ Known' = Known
      /\ \A p \in Paths : HashOf(p)' = HashOf(p) /\ (Succeeded(p)' => Succeeded(p))
  BY <1>1 DEF Known, HashOf, Succeeded
<1>6. Uninterrupted'
  BY <1>1, <1>2 DEF Kept, Uninterrupted, Working, Phases
<1>7. OneOwner'
  BY <1>1, <1>5, StillOwned, NamesAssumption DEF Kept
<1>8. Sorting'
  <2>1. ASSUME NEW p \in Present \ NewContents PROVE job.hash[p] \in Known
    BY <1>1 DEF NewContents, Present, Known, Jobs
  <2>2. ASSUME NEW p \in NewContents PROVE job.hash[p] \notin Known
    <3>1. job.hash[p] = disk[p] /\ disk[p] # None
      BY <1>1 DEF NewContents, Present, DiskTaken, ScanTrue, Hashed
    <3>2. job.hash[p] # NoHash
      BY <1>1, <3>1, NamesAssumption DEF TypeOK, NewContents, Present
    <3> QED
      BY <3>2 DEF NewContents, Known
  <2>3. Apart'
    BY <1>2, <1>4 DEF Apart, Waiting
  <2> QED
    BY <1>2, <1>4, <1>5, <2>1, <2>2, <2>3 DEF Sorting
<1>9. Queue'
  BY <1>1, <1>2, <1>8 DEF Kept, Queue, Sorted, Hashed, Working, Phases
<1>10. InStore'
  BY <1>1, <1>2, <1>4, <1>5 DEF Kept, InStore
<1>11. Remembered'
  BY <1>1, <1>2, <1>4, <1>5, CalmRemembers DEF Kept
<1> QED
  BY <1>6, <1>7, <1>9, <1>10, <1>11 DEF Kept

LEMMA DedupKeeps ==
  ASSUME TypeInv, DiskTaken, Kept, NEW p \in Paths, DedupFile(p)
  PROVE  Kept'
<1>1. /\ phase = "dedup" /\ phase' = phase /\ UNCHANGED <<disk, seen, oss, snap, files, rows>>
      /\ TypeOK /\ job \in Jobs /\ p \in job.pending
  BY DEF DedupFile, TypeInv, TypeOK
<1>2. Sorting
  BY <1>1 DEF Kept, Queue, Sorted, Hashed
<1>3. job.hash[p] \in Known /\ p \notin job.fresh /\ Known' = Known
  <2>1. index' = IncrementRef(job.hash[p]) \/ index' = index
    BY DEF DedupFile
  <2>2. job.hash[p] \in Keys
    BY <1>1 DEF Jobs
  <2>3. job.hash[p] \in Known /\ p \notin job.fresh
    BY <1>1, <1>2 DEF Sorting
  <2> QED
    BY <1>1, <2>1, <2>2, <2>3, KnownSteps
<1>4. /\ UNCHANGED <<job.cur, job.kind, job.hash, job.confirmed, job.fresh, job.item, job.batch,
                     job.meta, job.cancelled>>
      /\ job'.pending = job.pending \ {p}
      /\ IF job.hash[p] \in job.confirmed
         THEN job'.upload = job.upload /\ job'.skipped = job.skipped \cup {p}
         ELSE job'.upload = job.upload \cup {p} /\ job'.skipped = job.skipped
  BY DedupLocals
<1>5. job.item = None /\ InHand = {} /\ InHand' = {} /\ Waiting' = Waiting /\ Present' = Present
  BY <1>1, <1>4, Basics DEF Working, Phases, InHand, Waiting, Present
<1>6. \A q \in Paths : HashOf(q)' = HashOf(q) /\ (Succeeded(q)' => Succeeded(q))
  BY <1>1 DEF HashOf, Succeeded
<1>7. Uninterrupted'
  BY <1>1, <1>4 DEF Kept, Uninterrupted, Working, Phases
<1>8. OneOwner'
  BY <1>1, <1>3, <1>6, StillOwned, NamesAssumption DEF Kept
<1>9. Sorting'
  <2>1. \A q \in job'.pending : job'.hash[q] \in Known' /\ q \notin job'.fresh
    BY <1>2, <1>3, <1>4 DEF Sorting
  <2>2. \A q \in job'.skipped : job'.hash[q] \in Known'
    BY <1>2, <1>3, <1>4 DEF Sorting
  <2>3. \A q \in job'.upload \cup InHand' : q \in job'.fresh <=> job'.hash[q] \notin Known'
    BY <1>1, <1>2, <1>3, <1>4, <1>5 DEF Sorting
  <2>4. /\ \A r \in job'.batch : r.path \in Present' \ (Waiting' \cup InHand') /\ r.key = disk'[r.path]
        /\ \A k \in Keys : job'.meta[k] # None => \E r \in job'.batch : r.key = k
    BY <1>1, <1>2, <1>4, <1>5 DEF Sorting
  <2>5. Apart'
    BY <1>1, <1>2, <1>4, <1>5 DEF Sorting, Apart, Waiting
  <2> QED
    BY <2>1, <2>2, <2>3, <2>4, <2>5 DEF Sorting
<1>10. Queue'
  BY <1>1, <1>4, <1>9 DEF Kept, Queue, Sorted, Hashed, Working, Phases
<1>11. InStore'
  BY <1>1, <1>3, <1>4, <1>5 DEF Kept, InStore
<1>12. Remembered'
  BY <1>1, <1>3, <1>4, <1>5, <1>6, CalmRemembers DEF Kept
<1> QED
  BY <1>7, <1>8, <1>10, <1>11, <1>12 DEF Kept

\* The steps between the files, and those of the deleted ones.
LEMMA QuietKeeps ==
  ASSUME TypeInv, Kept,
         \/ DedupDone \/ UploadsDone \/ SkipsDone \/ MarkDeleted \/ ReleasesDone \/ Complete
         \/ \E p \in Paths : ReleaseFile(p)
  PROVE  Kept'
<1>1. TypeOK /\ job \in Jobs
  BY DEF TypeInv, TypeOK
<1>2. /\ UNCHANGED <<disk, seen, oss, rows>> /\ phase \in Sorted /\ phase' \in Sorted
      /\ files' = files \/ MarkDeleted
      /\ index' = index \/ \E p \in Paths : ReleaseFile(p)
  BY DEF DedupDone, UploadsDone, SkipsDone, MarkDeleted, ReleasesDone, Complete, ReleaseFile, Sorted,
         Hashed, tables
<1>3. UNCHANGED <<job.cur, job.kind, job.hash, job.pending, job.confirmed, job.upload, job.fresh,
                  job.skipped, job.item, job.batch, job.meta, job.cancelled>>
  BY ReleaseLocals DEF DedupDone, UploadsDone, SkipsDone, MarkDeleted, ReleasesDone, Complete
<1>4. Known' = Known
  <2>1. ASSUME NEW p \in Paths, ReleaseFile(p) PROVE Known' = Known
    <3>1. index' = index \/ (files[p] # None /\ index' = DecrementRef(files[p].hash))
      BY <2>1 DEF ReleaseFile
    <3>2. files[p] # None => files[p].hash \in Keys
      BY <1>1 DEF TypeOK, FileRows
    <3> QED
      BY <1>1, <3>1, <3>2, KnownSteps DEF Known
  <2> QED
    BY <1>2, <2>1 DEF Known
<1>5. ASSUME NEW p \in Paths
      PROVE  HashOf(p)' = HashOf(p) /\ (Succeeded(p)' => Succeeded(p))
  <2>1. CASE files' = files
    BY <2>1 DEF HashOf, Succeeded
  <2>2. CASE MarkDeleted /\ files[p] # None
    <3>1. files'[p] \in {files[p], [files[p] EXCEPT !.status = "deleted"]} /\ files[p] \in FileRows
      BY <1>1, <2>2 DEF MarkDeleted, TypeOK
    <3>2. files'[p] \in FileRows /\ files'[p].hash = files[p].hash /\ files'[p].last = files[p].last
      BY <3>1 DEF FileRows
    <3> QED
      BY <2>2, <3>2, NoneAssumption DEF HashOf, Succeeded
  <2>3. CASE MarkDeleted /\ files[p] = None
    BY <2>3 DEF MarkDeleted, HashOf, Succeeded
  <2> QED
    BY <1>2, <2>1, <2>2, <2>3
<1> QED
  BY <1>2, <1>3, <1>4, <1>5, CalmKeeps

\* The rows of the session join those of earlier ones.
LEMMA AddKeeps ==
  ASSUME TypeInv, DiskTaken, Kept, AddBackupFiles
  PROVE  Kept'
<1>1. /\ phase = "index" /\ phase' = "delete" /\ rows' = rows \cup job.batch
      /\ UNCHANGED <<disk, seen, oss, snap, files, index, job>>
  BY DEF AddBackupFiles
<1>2. Uninterrupted'
  BY <1>1 DEF Kept, Uninterrupted, Working, Phases
<1>3. OneOwner'
  BY <1>1 DEF Kept, OneOwner, HashOf, Known
<1>4. Queue'
  <2>1. Sorting'
    BY <1>1 DEF Kept, Queue, Sorted, Hashed, Sorting, Apart, Present, Waiting, InHand, Known
  <2> QED
    BY <1>1, <2>1 DEF Kept, Queue, Sorted, Hashed, Working, Phases
<1>5. InStore'
  BY <1>1 DEF Kept, InStore, Known, ItemKey
<1>6. \A p \in Paths : RowsNow(p)' = RowsNow(p)
  BY <1>1 DEF RowsNow, SessionRows, LatestRows
<1>7. Remembered'
  BY <1>1, <1>6 DEF Kept, Remembered, HashOf, Known, Succeeded, InHand, Backed, Good
<1> QED
  BY <1>2, <1>3, <1>4, <1>5, <1>7 DEF Kept

\* Another file's rows and their objects, as long as nobody writes its object.
LEMMA StillBacked ==
  ASSUME NEW q \in Paths, Backed(q), HashOf(q)' = HashOf(q), RowsNow(q)' = RowsNow(q),
         oss'[HashOf(q)] = oss[HashOf(q)]
  PROVE  Backed(q)'
BY DEF Backed, Good

LEMMA SealKeeps ==
  ASSUME TypeInv, DiskTaken, Kept, NEW p \in Paths, SealFile(p)
  PROVE  Kept'
<1>1. /\ phase = "upload" /\ phase' = phase /\ job.item = None /\ p \in job.upload
      /\ files' = UpsertFile(p, job.hash[p])
      /\ UNCHANGED <<disk, seen, oss, snap, index, rows>>
      /\ TypeOK /\ job \in Jobs
  BY DEF SealFile, TypeInv, TypeOK
<1> DEFINE item == [path |-> p, content |-> disk[p], iv |-> <<runs, p>>, comp |-> p \in Compressible,
                    stored |-> FALSE]
<1>2. item # None /\ item.path = p /\ ~item.stored /\ item.comp = (p \in Compressible)
  BY SealItem, NoneAssumption
<1>3. /\ UNCHANGED <<job.cur, job.kind, job.hash, job.pending, job.confirmed, job.fresh, job.skipped,
                     job.batch, job.meta, job.cancelled>>
      /\ job'.upload = job.upload \ {p} /\ job'.item = item
  BY SealLocals
<1> HIDE DEF item
<1>4. /\ InHand = {} /\ InHand' = {p} /\ Present' = Present
      /\ Waiting' \cup InHand' = Waiting \cup InHand
  BY <1>1, <1>2, <1>3 DEF InHand, Waiting, Present
<1>5. p \in Present /\ job.hash[p] = disk[p] /\ job.hash[p] \in Keys /\ disk[p] # None
  BY <1>1, Basics, NamesAssumption DEF Sorted, Hashed, Waiting
<1>6. HashOf(p)' = disk[p] /\ \A q \in Paths \ {p} : files'[q] = files[q]
  BY <1>1, <1>5, UpsertedRow DEF HashOf
<1>7. Known' = Known /\ \A q \in Paths \ {p} : HashOf(q)' = HashOf(q) /\ Succeeded(q)' = Succeeded(q)
  BY <1>1, <1>6 DEF Known, HashOf, Succeeded
<1>8. Uninterrupted'
  BY <1>1, <1>3 DEF Kept, Uninterrupted, Working, Phases
<1>9. OneOwner'
  <2>1. \A q \in Paths : HashOf(q)' \in {HashOf(q), disk[q]}
    BY <1>6, <1>7
  <2> QED
    BY <1>1, <1>7, <2>1, StillOwned, NamesAssumption DEF Kept
<1>10. Sorting
  BY <1>1 DEF Kept, Queue, Sorted, Hashed
<1>11. Sorting'
  <2>1. Apart'
    BY <1>1, <1>3, <1>4, <1>10 DEF Sorting, Apart, Waiting
  <2>2. \A q \in job'.upload \cup InHand' : q \in job.upload \cup InHand
    BY <1>1, <1>3, <1>4
  <2> QED
    BY <1>1, <1>3, <1>4, <1>7, <1>10, <2>1, <2>2 DEF Sorting
<1>12. Queue'
  BY <1>1, <1>3, <1>11 DEF Kept, Queue, Sorted, Hashed, Working, Phases
<1>13. InStore'
  BY <1>1, <1>2, <1>3, <1>7 DEF Kept, InStore
<1>14. ASSUME NEW q \in Paths, HashOf(q)' \in Known PROVE Backed(q)'
  <2>1. HashOf(q)' = HashOf(q)
    BY <1>5, <1>6, <1>7, <1>14 DEF Kept, Remembered
  <2>2. Backed(q)
    BY <1>14, <2>1 DEF Kept, Remembered
  <2>3. RowsNow(q)' = RowsNow(q)
    BY <1>1, <1>3 DEF RowsNow, SessionRows, LatestRows
  <2> QED
    BY <1>1, <2>1, <2>2, <2>3, StillBacked
<1>15. Remembered'
  BY <1>1, <1>4, <1>6, <1>7, <1>14 DEF Kept, Remembered
<1> QED
  BY <1>8, <1>9, <1>12, <1>13, <1>15 DEF Kept

\* An object that is encrypted anew is newer than the IV of every row of its file.
LEMMA StoreKeeps ==
  ASSUME TypeInv, DiskTaken, Aged, Kept, Stored
  PROVE  Kept'
<1> DEFINE p == job.item.path
<1>1. /\ phase = "upload" /\ phase' = phase /\ job.item # None /\ ~job.item.stored
      /\ UNCHANGED <<disk, seen, snap, files, index, rows>>
      /\ TypeOK /\ job \in Jobs
  BY DEF Stored, UploadObject, tables, TypeInv, TypeOK
<1>2. p \in Paths /\ ItemObject \in Objects /\ ItemObject # None
  BY <1>1, ItemType, NoneAssumption
<1>3. /\ UNCHANGED <<job.cur, job.kind, job.hash, job.pending, job.confirmed, job.upload, job.fresh,
                     job.skipped, job.batch, job.meta, job.cancelled>>
      /\ UNCHANGED <<job.item.path, job.item.comp>> /\ job'.item.stored /\ job'.item # None
      /\ IF ReuseNonce THEN job'.item.iv = oss[ItemKey].iv ELSE job'.item.iv = job.item.iv
  BY UploadLocals DEF Stored
<1>4. InHand = {p} /\ InHand' = {p} /\ Present' = Present /\ Waiting' = Waiting /\ ItemKey' = ItemKey
  BY <1>1, <1>3 DEF InHand, Waiting, Present, ItemKey
<1>5. ItemKey = disk[p] /\ disk[p] \in Hashes /\ disk[p] \in Keys /\ disk[p] # None
  BY <1>1, <1>4, Basics, NamesAssumption DEF Sorted, Hashed, ItemKey
<1>6. \/ oss' = [oss EXCEPT ![ItemKey] = ItemObject] /\ ~ReuseNonce
      \/ oss[ItemKey] # None /\ oss' = oss /\ ReuseNonce
  BY <1>1 DEF Stored, PutObject, ReuseNonce, OverwriteFrozen, bounds, Fault
<1>7. /\ \A k \in Keys \ {ItemKey} : oss'[k] = oss[k]
      /\ oss'[ItemKey] # None
      /\ oss'[ItemKey] = ItemObject \/ oss'[ItemKey] = oss[ItemKey]
  BY <1>1, <1>2, <1>5, <1>6 DEF TypeOK
<1>8. Known' = Known /\ \A q \in Paths : HashOf(q)' = HashOf(q) /\ Succeeded(q)' = Succeeded(q)
  BY <1>1 DEF Known, HashOf, Succeeded
<1>9. Uninterrupted'
  BY <1>1, <1>3 DEF Kept, Uninterrupted, Working, Phases
<1>10. OneOwner'
  <2>1. \A k \in Hashes : oss'[k] # None => oss[k] # None \/ \E q \in Paths : k = disk[q]
    BY <1>2, <1>5, <1>7 DEF Keys
  <2> QED
    BY <1>1, <1>8, <2>1, StillOwned, NamesAssumption DEF Kept
<1>11. Sorting
  BY <1>1 DEF Kept, Queue, Sorted, Hashed
<1>13. Queue'
  <2>1. Sorting'
    BY <1>1, <1>3, <1>4, <1>8, <1>11 DEF Sorting, Apart
  <2> QED
    BY <1>1, <1>3, <2>1 DEF Kept, Queue, Sorted, Hashed, Working, Phases
<1>14. job.item.comp = (p \in Compressible) /\ (oss[ItemKey] # None => oss[ItemKey].comp = (p \in Compressible))
  BY <1>1, <1>2, <1>5 DEF Kept, InStore
<1>15. oss'[ItemKey].comp = (p \in Compressible) /\ oss'[ItemKey].iv = job'.item.iv
  <2>1. CASE ReuseNonce
    BY <1>3, <1>6, <1>14, <2>1
  <2>2. CASE ~ReuseNonce
    <3>1. oss'[ItemKey] = ItemObject
      BY <1>1, <1>5, <1>6, <2>2 DEF TypeOK
    <3> QED
      BY <1>3, <1>14, <2>2, <3>1 DEF ItemObject
  <2> QED
    BY <2>1, <2>2
<1>16. InStore'
  <2>1. \A k \in Known' : oss'[k] # None
    BY <1>7, <1>8 DEF Kept, InStore, Known
  <2>2. ASSUME NEW q \in Paths, disk[q] # None, oss'[disk[q]] # None
        PROVE  oss'[disk[q]].comp = (q \in Compressible)
    <3>1. CASE q = p
      BY <1>5, <1>15, <3>1
    <3>2. CASE q # p
      <4>1. disk[q] # ItemKey /\ disk[q] \in Keys
        BY <1>1, <1>2, <1>5, <2>2, <3>2 DEF Kept, OneOwner, TypeOK, Keys
      <4> QED
        BY <1>7, <2>2, <4>1 DEF Kept, InStore
    <3> QED
      BY <3>1, <3>2
  <2>3. /\ job'.item.comp = (job'.item.path \in Compressible)
        /\ oss'[ItemKey'] # None /\ job'.item.iv = oss'[ItemKey'].iv /\ job'.item.comp = oss'[ItemKey'].comp
    BY <1>3, <1>4, <1>7, <1>14, <1>15
  <2> QED
    BY <1>1, <2>1, <2>2, <2>3 DEF InStore
<1>17. ASSUME NEW q \in Paths, HashOf(q) \in Known PROVE Backed(q)'
  <2>1. Backed(q)
    BY <1>17 DEF Kept, Remembered
  <2>2. RowsNow(q)' = RowsNow(q)
    BY <1>1, <1>3 DEF RowsNow, SessionRows, LatestRows
  <2>3. CASE oss'[HashOf(q)] = oss[HashOf(q)]
    BY <1>8, <2>1, <2>2, <2>3, StillBacked
  <2>4. CASE oss'[HashOf(q)] # oss[HashOf(q)]
    <3>1. HashOf(q) = ItemKey /\ oss'[ItemKey] = ItemObject
      BY <1>7, <1>17, <2>4 DEF Known
    <3>2. q = p
      BY <1>2, <1>5, <3>1 DEF Kept, OneOwner
    <3>3. RowsNow(q) \subseteq rows
      BY <1>4, <1>11, <3>2 DEF Sorting, RowsNow, SessionRows, LatestRows
    <3>4. ItemObject.iv # None /\ ItemObject.iv[1] = runs
      BY <1>1 DEF ItemObject, Aged, Age
    <3>5. ASSUME NEW r \in RowsNow(q) PROVE Good(r, ItemKey)'
      <4>1. r.key = ItemKey /\ oss[ItemKey] # None /\ r.comp = oss[ItemKey].comp /\ r.iv # None
        <5>1. Good(r, ItemKey)
          BY <2>1, <3>1 DEF Backed
        <5>2. oss[ItemKey] # None => oss[ItemKey].iv # None
          BY <1>1, <1>5, NoneAssumption DEF TypeOK, Objects
        <5> QED
          BY <5>1, <5>2 DEF Good
      <4>2. r.iv[1] < runs
        BY <1>1, <3>3, <4>1 DEF Aged, Age, Early
      <4> QED
        BY <1>4, <1>14, <1>15, <3>1, <3>4, <4>1, <4>2, <1>7 DEF Good
    <3> QED
      BY <1>4, <1>8, <2>1, <2>2, <3>1, <3>5 DEF Backed, Good
  <2> QED
    BY <2>3, <2>4
<1>18. Remembered'
  BY <1>1, <1>4, <1>8, <1>17 DEF Kept, Remembered
<1> QED
  BY <1>9, <1>10, <1>13, <1>16, <1>18 DEF Kept

LEMMA RecordKeeps ==
  ASSUME Mild, TypeInv, DiskTaken, Kept, RecordUpload
  PROVE  Kept'
<1>0. PICK p \in Paths : p = job.item.path
  BY ItemType DEF RecordUpload, TypeInv
<1> DEFINE row == RowOf(p, [iv |-> job.item.iv, comp |-> job.item.comp])
<1>1. /\ phase = "upload" /\ phase' = phase /\ job.item # None
      /\ job.item.stored /\ oss[ItemKey] # None
      /\ index' = IF p \in job.fresh THEN UpsertHash(ItemKey) ELSE index
      /\ files' = UpsertMarked(p, ItemKey, "success")
      /\ UNCHANGED <<disk, seen, oss, snap, rows>>
      /\ TypeOK /\ job \in Jobs
  BY <1>0 DEF RecordUpload, Verified, Mild, Fault, TypeInv, TypeOK
<1>2. ItemKey \in Keys
  BY <1>1, ItemType
<1>3. /\ UNCHANGED <<job.cur, job.kind, job.hash, job.pending, job.confirmed, job.upload, job.fresh,
                     job.skipped, job.cancelled>>
      /\ job'.item = None /\ job'.batch = job.batch \cup {row}
      /\ \A k \in Keys \ {ItemKey} : job'.meta[k] = job.meta[k]
  BY <1>0, <1>1, RecordLocals DEF Jobs
<1>4. InHand = {p} /\ InHand' = {} /\ Present' = Present /\ Waiting' = Waiting
  BY <1>0, <1>1, <1>3 DEF InHand, Waiting, Present
<1>5. ItemKey = disk[p] /\ disk[p] \in Hashes /\ disk[p] # None /\ p \in Present
  BY <1>0, <1>1, <1>4, Basics, NamesAssumption DEF Sorted, Hashed, ItemKey
<1>6. row.path = p /\ row.key = ItemKey /\ row.backup = job.cur /\ row.iv = job.item.iv /\ row.comp = job.item.comp
  BY <1>0 DEF RowOf, ItemKey
<1> HIDE DEF row
<1>7. Sorting
  BY <1>1 DEF Kept, Queue, Sorted, Hashed
<1>8. Known' = Known \cup {ItemKey}
  <2>1. p \in job.fresh \/ ItemKey \in Known
    BY <1>0, <1>4, <1>7 DEF Sorting, ItemKey
  <2> QED
    BY <1>1, <1>2, <2>1, KnownSteps
<1>9. /\ HashOf(p)' = disk[p]
      /\ \A q \in Paths \ {p} : HashOf(q)' = HashOf(q) /\ Succeeded(q)' = Succeeded(q)
  <2>1. files'[p] # None /\ files'[p].hash = ItemKey /\ \A q \in Paths \ {p} : files'[q] = files[q]
    BY <1>1, <1>2, UpsertedRow
  <2> QED
    BY <1>5, <2>1 DEF HashOf, Succeeded
<1>10. ASSUME NEW q \in Paths \ {p}
       PROVE  disk[q] # ItemKey /\ HashOf(q) # ItemKey /\ SessionRows(q)' = SessionRows(q)
  <2>1. disk[q] # ItemKey /\ HashOf(q) # ItemKey
    BY <1>2, <1>5 DEF Kept, OneOwner
  <2>2. SessionRows(q)' = SessionRows(q)
    BY <1>3, <1>6 DEF SessionRows
  <2> QED
    BY <2>1, <2>2
<1>11. Uninterrupted'
  BY <1>1, <1>3 DEF Kept, Uninterrupted, Working, Phases
<1>12. OneOwner'
  <2>1. \A q \in Paths : HashOf(q)' \in {HashOf(q), disk[q]}
    BY <1>9
  <2>2. \A k \in Hashes : k \in Known' => k \in Known \/ \E q \in Paths : k = disk[q]
    BY <1>2, <1>5, <1>8
  <2> QED
    BY <1>1, <2>1, <2>2, StillOwned, NamesAssumption DEF Kept
<1>13. Sorting'
  <2>1. Apart'
    BY <1>3, <1>4, <1>7 DEF Sorting, Apart
  <2>2. job.pending = {}
    BY <1>1 DEF DiskTaken, Progress, Sorted, Hashed
  <2>3. \A q \in job'.skipped : job'.hash[q] \in Known'
    BY <1>3, <1>7, <1>8 DEF Sorting
  <2>4. ASSUME NEW q \in job'.upload \cup InHand'
        PROVE  q \in job'.fresh <=> job'.hash[q] \notin Known'
    <3>1. q \in job.upload /\ q # p
      BY <1>3, <1>4, <1>7, <2>4 DEF Sorting, Apart, Waiting
    <3>2. q \in Paths /\ job.hash[q] = disk[q]
      BY <1>1, <3>1, Basics DEF Waiting, Sorted, Hashed
    <3>3. job.hash[q] # ItemKey
      BY <1>10, <3>1, <3>2
    <3> QED
      BY <1>1, <1>3, <1>7, <1>8, <3>1, <3>3 DEF Sorting
  <2>5. ASSUME NEW r \in job'.batch
        PROVE  r.path \in Present' \ (Waiting' \cup InHand') /\ r.key = disk'[r.path]
    <3>1. CASE r = row
      BY <1>1, <1>4, <1>5, <1>6, <1>7, <3>1 DEF Sorting, Apart
    <3>2. CASE r \in job.batch
      BY <1>1, <1>4, <1>7, <3>2 DEF Sorting
    <3> QED
      BY <1>3, <3>1, <3>2
  <2>6. ASSUME NEW k \in Keys, job'.meta[k] # None PROVE \E r \in job'.batch : r.key = k
    BY <1>3, <1>6, <1>7, <2>6 DEF Sorting
  <2> QED
    BY <1>3, <2>1, <2>2, <2>3, <2>4, <2>5, <2>6 DEF Sorting
<1>14. Queue'
  BY <1>1, <1>3, <1>13 DEF Kept, Queue, Sorted, Hashed, Working, Phases
<1>15. InStore'
  BY <1>1, <1>3, <1>8 DEF Kept, InStore
<1>16. Backed(p)'
  <2>1. \A r \in job.batch : r.path # p
    BY <1>4, <1>7 DEF Sorting
  <2>2. SessionRows(p)' = {row}
    BY <1>3, <1>6, <2>1 DEF SessionRows
  <2>3. RowsNow(p)' = {row}
    BY <2>2 DEF RowsNow
  <2>4. Good(row, ItemKey)
    BY <1>1, <1>6 DEF Good, Kept, InStore
  <2> QED
    BY <1>1, <1>5, <1>9, <2>3, <2>4 DEF Backed, Good
<1>17. ASSUME NEW q \in Paths \ {p}, HashOf(q)' \in Known' PROVE Backed(q)'
  <2>1. HashOf(q)' = HashOf(q) /\ HashOf(q) \in Known
    BY <1>8, <1>9, <1>10, <1>17
  <2>2. Backed(q)
    BY <2>1 DEF Kept, Remembered
  <2>3. RowsNow(q)' = RowsNow(q)
    BY <1>1, <1>10 DEF RowsNow, LatestRows
  <2> QED
    BY <1>1, <2>1, <2>2, <2>3, StillBacked
<1>18. Remembered'
  <2>1. ASSUME NEW q \in Paths, disk[q] \in Known' PROVE HashOf(q)' = disk[q]
    BY <1>8, <1>9, <1>10, <2>1 DEF Kept, Remembered
  <2>2. ASSUME NEW q \in Paths, Succeeded(q)' PROVE HashOf(q)' \in Known'
    BY <1>4, <1>5, <1>8, <1>9, <2>2 DEF Kept, Remembered
  <2> QED
    BY <1>1, <1>16, <1>17, <2>1, <2>2 DEF Remembered
<1> QED
  BY <1>11, <1>12, <1>14, <1>15, <1>18 DEF Kept

\* A file that fails, before or after its content was stored.
LEMMA FailKeeps ==
  ASSUME TypeInv, DiskTaken, Kept, NEW p \in Paths, Failed(p)
  PROVE  Kept'
<1>1. /\ phase = "upload" /\ phase' = phase /\ p \in job.upload \cup InHand /\ InHand \subseteq {p}
      /\ files' = UpsertMarked(p, job.hash[p], "failed")
      /\ UNCHANGED <<disk, seen, oss, snap, index, rows>>
      /\ TypeOK /\ job \in Jobs
  BY DEF Failed, FileFails, TypeInv, TypeOK
<1>3. /\ UNCHANGED <<job.cur, job.kind, job.hash, job.pending, job.confirmed, job.fresh, job.skipped,
                     job.batch, job.meta, job.cancelled>>
      /\ job'.upload = job.upload \ {p} /\ job'.item = None
  BY FailLocals DEF Failed
<1>4. InHand' = {} /\ Present' = Present /\ Waiting' \subseteq Waiting
  BY <1>3 DEF InHand, Present, Waiting
<1>5. job.hash[p] = disk[p] /\ disk[p] \in Hashes /\ disk[p] # None /\ disk[p] \in Keys
  BY <1>1, Basics, NamesAssumption DEF Sorted, Hashed, Waiting
<1>6. /\ HashOf(p)' = disk[p] /\ ~Succeeded(p)'
      /\ \A q \in Paths \ {p} : HashOf(q)' = HashOf(q) /\ Succeeded(q)' = Succeeded(q)
  <2>1. /\ files'[p] # None /\ files'[p].hash = disk[p] /\ files'[p].last = "failed"
        /\ \A q \in Paths \ {p} : files'[q] = files[q]
    BY <1>1, <1>5, UpsertedRow
  <2> QED
    BY <2>1 DEF HashOf, Succeeded
<1>7. Known' = Known
  BY <1>1 DEF Known
<1>8. Uninterrupted'
  BY <1>1, <1>3 DEF Kept, Uninterrupted, Working, Phases
<1>9. OneOwner'
  <2>1. \A q \in Paths : HashOf(q)' \in {HashOf(q), disk[q]}
    BY <1>6
  <2> QED
    BY <1>1, <1>7, <2>1, StillOwned, NamesAssumption DEF Kept
<1>10. Sorting
  BY <1>1 DEF Kept, Queue, Sorted, Hashed
<1>11. Sorting'
  <2>1. Apart'
    BY <1>3, <1>4, <1>10 DEF Sorting, Apart
  <2>2. \A q \in job'.upload \cup InHand' : q \in job.upload \cup InHand
    BY <1>3, <1>4
  <2> QED
    BY <1>1, <1>3, <1>4, <1>7, <1>10, <2>1, <2>2 DEF Sorting
<1>12. Queue'
  BY <1>1, <1>3, <1>11 DEF Kept, Queue, Sorted, Hashed, Working, Phases
<1>13. InStore'
  BY <1>1, <1>3, <1>7 DEF Kept, InStore
<1>14. ASSUME NEW q \in Paths, HashOf(q)' \in Known PROVE Backed(q)'
  <2>1. HashOf(q)' = HashOf(q)
    BY <1>6, <1>14 DEF Kept, Remembered
  <2>3. Backed(q)
    BY <1>14, <2>1 DEF Kept, Remembered
  <2>4. RowsNow(q)' = RowsNow(q)
    BY <1>1, <1>3 DEF RowsNow, SessionRows, LatestRows
  <2> QED
    BY <1>1, <2>1, <2>3, <2>4, StillBacked
<1>15. Remembered'
  <2>1. ASSUME NEW q \in Paths, disk[q] \in Known PROVE HashOf(q)' = disk[q]
    BY <1>6, <2>1 DEF Kept, Remembered
  <2>2. ASSUME NEW q \in Paths, Succeeded(q)' PROVE HashOf(q)' \in Known
    BY <1>1, <1>6, <2>2 DEF Kept, Remembered
  <2> QED
    BY <1>1, <1>7, <1>14, <2>1, <2>2 DEF Remembered
<1> QED
  BY <1>8, <1>9, <1>12, <1>13, <1>15 DEF Kept

\* A skipped file is recorded as its latest row has it.
LEMMA SkipKeeps ==
  ASSUME TypeInv, DiskTaken, Kept, NEW p \in Paths, RecordSkipped(p)
  PROVE  Kept'
<1> DEFINE fs == UpsertMarked(p, job.hash[p], "success")
<1>1. /\ phase = "skip" /\ phase' = phase /\ p \in job.skipped /\ files' = fs
      /\ UNCHANGED <<disk, seen, oss, snap, index, rows>>
      /\ TypeOK /\ job \in Jobs
  BY DEF RecordSkipped, TypeInv, TypeOK
<1>2. PICK m \in SkippedMeta(fs, p) : job'.batch = job.batch \cup {RowOf(p, m)}
  BY SkipLocals
<1>3. /\ UNCHANGED <<job.cur, job.kind, job.hash, job.pending, job.confirmed, job.upload, job.fresh,
                     job.item, job.meta, job.cancelled>>
      /\ job'.skipped = job.skipped \ {p}
  BY SkipLocals
<1>4. /\ InHand = {} /\ InHand' = {} /\ job.item = None /\ Present' = Present
      /\ job.pending = {} /\ job.upload = {} /\ Waiting' = Waiting \ {p}
  BY <1>1, <1>3, Basics
     DEF InHand, Waiting, Present, Working, Phases, DiskTaken, Progress, Sorted, Hashed, Uploaded
<1>5. p \in Present /\ job.hash[p] = disk[p] /\ disk[p] \in Hashes /\ disk[p] # None /\ disk[p] \in Keys
  BY <1>1, Basics, NamesAssumption DEF Sorted, Hashed, Waiting
<1>6. Sorting
  BY <1>1 DEF Kept, Queue, Sorted, Hashed
<1>7. HashOf(p) = disk[p] /\ Backed(p)
  <2>1. disk[p] \in Known
    BY <1>1, <1>5, <1>6 DEF Sorting
  <2> QED
    BY <2>1 DEF Kept, Remembered
<1>8. /\ fs[p] # None /\ fs[p].hash = disk[p]
      /\ \A q \in Paths \ {p} : fs[q] = files[q]
  BY <1>1, <1>5, UpsertedRow
<1> HIDE DEF fs
<1>9. /\ HashOf(p)' = HashOf(p)
      /\ \A q \in Paths \ {p} : HashOf(q)' = HashOf(q) /\ Succeeded(q)' = Succeeded(q)
  BY <1>1, <1>7, <1>8 DEF HashOf, Succeeded
<1>10. Known' = Known
  BY <1>1 DEF Known
<1>11. LatestRows(p) # {} /\ \A r \in LatestRows(p) : Good(r, disk[p])
  <2>1. SessionRows(p) = {}
    BY <1>1, <1>6 DEF Sorting, SessionRows, Waiting
  <2> QED
    BY <1>7, <2>1 DEF Backed, RowsNow
<1>12. Good(RowOf(p, m), disk[p]) /\ RowOf(p, m).path = p
  <2>1. job.meta[disk[p]] = None
    <3> SUFFICES ASSUME job.meta[disk[p]] # None PROVE FALSE
      OBVIOUS
    <3>1. PICK r \in job.batch : r.key = disk[p]
      BY <1>5, <1>6 DEF Sorting
    <3>2. r.path \in Present \ Waiting /\ disk[r.path] = disk[p]
      BY <1>6, <3>1 DEF Sorting
    <3> QED
      BY <1>1, <1>5, <3>2 DEF Waiting, Present, Kept, OneOwner
  <2>2. ActiveWith(fs, disk[p]) \subseteq {p}
    <3> SUFFICES ASSUME NEW q \in Paths \ {p}, fs[q] # None, fs[q].hash = disk[p] PROVE FALSE
      BY DEF ActiveWith
    <3>1. HashOf(q) = disk[p]
      BY <1>8 DEF HashOf
    <3> QED
      BY <1>5, <3>1 DEF Kept, OneOwner
  <2>3. m \in {[iv |-> r.iv, comp |-> r.comp] : r \in LatestRows(p)}
    BY <1>5, <1>11, <2>1, <2>2 DEF SkippedMeta
  <2> QED
    BY <1>5, <1>11, <2>3 DEF Good, RowOf
<1>13. Uninterrupted'
  BY <1>1, <1>3 DEF Kept, Uninterrupted, Working, Phases
<1>14. OneOwner'
  <2>1. \A q \in Paths : HashOf(q)' = HashOf(q)
    BY <1>9
  <2> QED
    BY <1>1, <1>10, <2>1, StillOwned, NamesAssumption DEF Kept
<1>15. Sorting'
  <2>1. Apart'
    BY <1>3, <1>4 DEF Apart
  <2>2. \A q \in job'.skipped : job'.hash[q] \in Known'
    BY <1>3, <1>6, <1>10 DEF Sorting
  <2>3. ASSUME NEW r \in job'.batch
        PROVE  r.path \in Present' \ (Waiting' \cup InHand') /\ r.key = disk'[r.path]
    <3>1. CASE r = RowOf(p, m)
      BY <1>1, <1>4, <1>5, <1>12, <3>1 DEF RowOf
    <3>2. CASE r \in job.batch
      BY <1>1, <1>4, <1>6, <3>2 DEF Sorting
    <3> QED
      BY <1>2, <3>1, <3>2
  <2>4. \A k \in Keys : job'.meta[k] # None => \E r \in job'.batch : r.key = k
    BY <1>2, <1>3, <1>6 DEF Sorting
  <2> QED
    BY <1>3, <1>4, <2>1, <2>2, <2>3, <2>4 DEF Sorting
<1>16. Queue'
  BY <1>1, <1>2, <1>3, <1>15 DEF Kept, Queue, Sorted, Hashed, Working, Phases
<1>17. InStore'
  BY <1>1, <1>3, <1>4, <1>10 DEF Kept, InStore
<1>18. Backed(p)'
  <2>1. RowsNow(p)' = {RowOf(p, m)}
    <3>1. \A r \in job.batch : r.path # p
      BY <1>1, <1>6 DEF Sorting, Waiting
    <3>2. SessionRows(p)' = {RowOf(p, m)}
      BY <1>2, <1>12, <3>1 DEF SessionRows
    <3> QED
      BY <3>2 DEF RowsNow
  <2> QED
    BY <1>1, <1>7, <1>9, <1>12, <2>1 DEF Backed, Good
<1>19. ASSUME NEW q \in Paths \ {p}, HashOf(q) \in Known PROVE Backed(q)'
  <2>1. Backed(q)
    BY <1>19 DEF Kept, Remembered
  <2>2. SessionRows(q)' = SessionRows(q)
    BY <1>2, <1>12 DEF SessionRows
  <2>3. RowsNow(q)' = RowsNow(q)
    BY <1>1, <2>2 DEF RowsNow, LatestRows
  <2> QED
    BY <1>1, <1>9, <2>1, <2>3, StillBacked
<1>20. Remembered'
  <2>1. ASSUME NEW q \in Paths, disk[q] \in Known PROVE HashOf(q)' = disk[q]
    BY <1>7, <1>9, <2>1 DEF Kept, Remembered
  <2>2. ASSUME NEW q \in Paths, Succeeded(q)' PROVE HashOf(q)' \in Known
    BY <1>1, <1>4, <1>5, <1>6, <1>7, <1>9, <2>2 DEF Kept, Remembered, Sorting
  <2> QED
    BY <1>1, <1>9, <1>10, <1>18, <1>19, <2>1, <2>2 DEF Remembered
<1> QED
  BY <1>13, <1>14, <1>16, <1>17, <1>20 DEF Kept

\* The session ends: its rows are in the table, and are the latest of their files.
LEMMA PushKeeps ==
  ASSUME TypeInv, DiskTaken, Dated, Kept, PushSnapshot
  PROVE  Kept'
<1>1. /\ phase = "push" /\ phase' = "idle" /\ snap' = Database /\ job' = NoJob
      /\ UNCHANGED <<disk, seen, oss, files, index, synthetic, rows, backups>>
      /\ TypeOK /\ job \in Jobs
  BY DEF PushSnapshot, EndSession, tables, TypeInv, TypeOK
<1>2. job'.batch = {} /\ job'.item = None /\ \A k \in Keys : job'.meta[k] = None
  BY <1>1 DEF NoJob
<1>3. InHand = {} /\ InHand' = {}
  BY <1>1, <1>2, Basics DEF InHand, Working, Phases
<1>4. Known' = Known /\ \A p \in Paths : HashOf(p)' = HashOf(p) /\ Succeeded(p)' = Succeeded(p)
  BY <1>1 DEF Known, HashOf, Succeeded
<1>5. Uninterrupted'
  BY <1>1, <1>2 DEF Uninterrupted, Database, Working
<1>6. OneOwner'
  BY <1>1, <1>4, StillOwned, NamesAssumption DEF Kept
<1>7. Queue'
  BY <1>1, <1>2 DEF Queue, Sorted, Hashed, Working
<1>8. InStore'
  BY <1>1, <1>2, <1>4 DEF Kept, InStore
<1>9. ASSUME NEW p \in Paths PROVE RowsNow(p)' = RowsNow(p)
  <2>1. RowsNow(p)' = LatestRows(p)
    BY <1>1, <1>2 DEF RowsNow, SessionRows, LatestRows
  <2>2. ASSUME SessionRows(p) # {} PROVE LatestRows(p) = SessionRows(p)
    <3>1. job.batch \subseteq rows
      BY <1>1 DEF DiskTaken, Progress, Written
    <3>2. \A r \in rows : r.backup = job.cur <=> r \in job.batch
      BY <1>1, <3>1 DEF Dated, Kept, Queue, Working, Phases
    <3>3. \A r \in rows : r.backup \in Nat /\ r.backup <= job.cur
      <4>1. job.cur = Len(backups) /\ backups \in Seq(Statuses)
        BY <1>1 DEF TypeInv, TypeOK, Started, Working, Phases
      <4> QED
        BY <4>1, LenProperties DEF Dated
    <3>4. job.cur \in Nat
      BY <1>1 DEF Jobs
    <3>5. ASSUME NEW r \in SessionRows(p) PROVE r \in LatestRows(p)
      BY <3>1, <3>2, <3>3 DEF SessionRows, LatestRows
    <3>6. ASSUME NEW r \in LatestRows(p) PROVE r \in SessionRows(p)
      <4>1. PICK s \in SessionRows(p) : TRUE
        BY <2>2
      <4>2. s \in rows /\ s.path = p /\ s.backup = job.cur
        BY <3>1, <3>2 DEF SessionRows
      <4>3. r \in rows /\ r.path = p /\ job.cur <= r.backup
        BY <4>2 DEF LatestRows
      <4>4. r.backup = job.cur
        BY <3>3, <3>4, <4>3
      <4> QED
        BY <3>2, <4>3, <4>4 DEF SessionRows
    <3> QED
      BY <3>5, <3>6
  <2> QED
    BY <2>1, <2>2 DEF RowsNow
<1>10. Remembered'
  BY <1>1, <1>3, <1>4, <1>9 DEF Kept, Remembered, Backed, Good
<1> QED
  BY <1>5, <1>6, <1>7, <1>8, <1>10 DEF Kept

\* A file changes between sessions, to a content that was never there.
LEMMA EditKeeps ==
  ASSUME Mild, TypeInv, Kept, phase = "idle", NEW p \in Paths, NEW c \in Hashes \cup {None}, Edit(p, c)
  PROVE  Kept'
<1>1. /\ disk' = [disk EXCEPT ![p] = c] /\ seen' = seen \cup ({c} \ {None}) /\ c \notin seen
      /\ UNCHANGED <<oss, snap, files, index, synthetic, rows, backups, phase, job>>
      /\ TypeOK
  BY DEF Edit, Mild, tables, TypeInv, TypeOK
<1>2. disk'[p] = c /\ \A q \in Paths \ {p} : disk'[q] = disk[q]
  BY <1>1 DEF TypeOK
<1>3. Known' = Known /\ \A q \in Paths : HashOf(q)' = HashOf(q)
  BY <1>1 DEF Known, HashOf
<1>4. c # None => c \in Hashes /\ c \notin Known /\ oss[c] = None
  BY <1>1 DEF Kept, OneOwner
<1>5. Uninterrupted'
  BY <1>1 DEF Kept, Uninterrupted, Database
<1>6. OneOwner'
  <2>1. \A q \in Paths : disk'[q] \in seen' \cup {None} /\ HashOf(q)' \in seen' \cup {None}
    BY <1>1, <1>2, <1>3 DEF Kept, OneOwner
  <2>2. \A k \in Hashes : oss'[k] # None \/ k \in Known' => k \in seen'
    BY <1>1, <1>3 DEF Kept, OneOwner
  <2>3. ASSUME NEW q \in Paths, NEW r \in Paths \ {q}
        PROVE  /\ disk'[q] # None => disk'[q] # disk'[r]
               /\ HashOf(q)' # None => HashOf(q)' # disk'[r] /\ HashOf(q)' # HashOf(r)'
    <3>1. /\ disk[q] # None => disk[q] # disk[r]
          /\ HashOf(q) # None => HashOf(q) # disk[r] /\ HashOf(q) # HashOf(r)
      BY DEF Kept, OneOwner
    <3>2. /\ disk[q] \in seen \cup {None} /\ disk[r] \in seen \cup {None}
          /\ HashOf(q) \in seen \cup {None} /\ HashOf(r) \in seen \cup {None}
      BY DEF Kept, OneOwner
    <3>3. /\ disk'[q] \in {disk[q], c} /\ disk'[r] \in {disk[r], c}
          /\ ~(disk'[q] # disk[q] /\ disk'[r] # disk[r])
      BY <1>2
    <3> QED
      BY <1>1, <1>3, <3>1, <3>2, <3>3
  <2> QED
    BY <2>1, <2>2, <2>3 DEF OneOwner
<1>7. Queue'
  BY <1>1 DEF Kept, Queue, Sorted, Hashed, Working
<1>8. InStore'
  BY <1>1, <1>2, <1>3, <1>4 DEF Kept, InStore, Uninterrupted
<1>9. Remembered'
  <2>1. ASSUME NEW q \in Paths, disk'[q] \in Known PROVE HashOf(q) = disk'[q]
    <3>1. None \notin Known
      BY NamesAssumption DEF Known, Keys
    <3> QED
      BY <1>2, <1>4, <2>1, <3>1 DEF Kept, Remembered
  <2> QED
    BY <1>1, <1>3, <2>1
       DEF Kept, Remembered, Succeeded, InHand, Backed, Good, RowsNow, SessionRows, LatestRows
<1> QED
  BY <1>5, <1>6, <1>7, <1>8, <1>9 DEF Kept

\* IVs grow older with the sessions.
LEMMA NextAged ==
  ASSUME Mild, TypeInv, DiskTaken, Aged, Kept, [Next]_vars
  PROVE  Aged'
<1>1. TypeOK /\ job \in Jobs /\ runs \in Nat
  BY DEF TypeInv, TypeOK
<1>2. /\ \A r \in rows \cup job.batch : Age(r.iv) \in Nat
      /\ \A k \in Keys : oss[k] # None => oss[k].iv # None /\ Age(oss[k].iv) \in Nat
  <2>1. \A iv \in IVs \cup {None} : Age(iv) \in Nat
    BY DEF Age, IVs
  <2> QED
    BY <1>1, <2>1, NoneAssumption DEF TypeOK, Jobs, BackupRows, Objects
<1>3. ASSUME UNCHANGED <<oss, runs, job.meta, job.batch, job.item>>,
             rows' = rows, phase' \in Early => phase \in Early
      PROVE  Aged'
  BY <1>3 DEF Aged
<1>4. CASE StartBackup
  <2>1. Pulled(Database) = Database
    BY <1>4 DEF StartBackup, Kept, Uninterrupted, Pulled
  <2>2. rows' = rows /\ oss' = oss /\ runs' = runs + 1
    BY <1>4, <2>1 DEF StartBackup, LoadDatabase, Database
  <2>3. job'.batch = {} /\ job'.item = None /\ \A k \in Keys : job'.meta[k] = None
    BY <1>4, StartLocals
  <2> QED
    BY <1>1, <1>2, <2>2, <2>3 DEF Aged
<1>5. CASE Scan \/ ComputeHashes \/ CheckObjects \/ Fileless \/ MarkDeleted
  <2>1. CASE AddBackupFiles
    BY <2>1, <1>1 DEF AddBackupFiles, Aged, Early
  <2>2. CASE ~AddBackupFiles
    <3>1. UNCHANGED <<oss, runs, rows>> /\ (phase' \in Early => phase \in Early)
      BY <1>5, <2>2 DEF Scan, ComputeHashes, CheckObjects, Fileless, DedupDone, UploadsDone, SkipsDone,
                 ReleasesDone, Complete, MarkDeleted, tables, Early
    <3>2. UNCHANGED <<job.meta, job.batch, job.item>>
      BY <1>5, <2>2, ScanLocals, HashLocals, CheckLocals
         DEF Fileless, DedupDone, UploadsDone, SkipsDone, ReleasesDone, Complete, MarkDeleted
    <3> QED
      BY <1>3, <3>1, <3>2
  <2> QED
    BY <2>1, <2>2
<1>6. CASE Stored
  <2>1. /\ phase = "upload" /\ phase' = phase /\ job.item # None /\ ~job.item.stored
        /\ UNCHANGED <<rows, runs>> /\ ItemKey \in Keys
    <3>1. UploadObject
      BY <1>6 DEF Stored
    <3>2. phase = "upload" /\ job.item # None /\ ~job.item.stored
      BY <3>1 DEF UploadObject
    <3>3. ItemKey \in Keys
      BY <1>1, <3>2, ItemType
    <3> QED
      BY <3>1, <3>2, <3>3 DEF UploadObject, tables
  <2>2. /\ UNCHANGED <<job.batch, job.meta>> /\ job'.item.stored /\ job'.item # None
        /\ IF ReuseNonce THEN job'.item.iv = oss[ItemKey].iv ELSE job'.item.iv = job.item.iv
    BY <1>6, UploadLocals DEF Stored
  <2>3. \/ oss' = [oss EXCEPT ![ItemKey] = ItemObject] /\ ~ReuseNonce
        \/ oss[ItemKey] # None /\ oss' = oss /\ ReuseNonce
    BY <1>6 DEF Stored, UploadObject, PutObject, ReuseNonce, OverwriteFrozen, bounds, Fault
  <2>4. ASSUME NEW k \in Keys, oss'[k] # None PROVE Age(oss'[k].iv) <= runs
    BY <1>1, <2>1, <2>3, <2>4 DEF Aged, ItemObject, TypeOK
  <2>5. Age(job'.item.iv) <= runs
    BY <2>1, <2>2, <2>3 DEF Aged
  <2> QED
    BY <2>1, <2>2, <2>4, <2>5 DEF Aged
<1>7. CASE RecordUpload
  <2> DEFINE p == job.item.path
             m == [iv |-> job.item.iv, comp |-> job.item.comp]
  <2>1. phase' = "upload" /\ phase = "upload" /\ UNCHANGED <<oss, rows, runs>> /\ job.item # None
    BY <1>7 DEF RecordUpload
  <2>2. job'.item = None /\ job'.batch = job.batch \cup {RowOf(p, m)}
    BY <1>7, RecordLocals
  <2>3. \A k \in Keys : job'.meta[k] \in {job.meta[k], m}
    BY <1>1, <1>7 DEF RecordUpload, Jobs
  <2>4. RowOf(p, m).iv = job.item.iv /\ m.iv = job.item.iv
    BY DEF RowOf
  <2> HIDE DEF m, p
  <2> QED
    BY <2>1, <2>2, <2>3, <2>4 DEF Aged
<1>8. CASE PushSnapshot
  <2>1. phase' = "idle" /\ job' = NoJob /\ UNCHANGED <<oss, rows, runs>>
    BY <1>8 DEF PushSnapshot, EndSession, tables
  <2> QED
    BY <2>1 DEF Aged, NoJob, Early
<1>9. ASSUME NEW p \in Paths, DedupFile(p) \/ ReleaseFile(p) \/ Failed(p) PROVE Aged'
  <2>1. UNCHANGED <<oss, rows, runs, phase>>
    BY <1>9 DEF DedupFile, ReleaseFile, Failed, FileFails
  <2>2. UNCHANGED <<job.meta, job.batch>> /\ job'.item \in {None, job.item}
    BY <1>9, DedupLocals, ReleaseLocals, FailLocals DEF Failed
  <2> QED
    BY <2>1, <2>2 DEF Aged
<1>10. ASSUME NEW p \in Paths, SealFile(p) PROVE Aged'
  <2>1. UNCHANGED <<oss, rows, runs, phase>> /\ phase = "upload"
    BY <1>10 DEF SealFile
  <2>2. UNCHANGED <<job.meta, job.batch>> /\ job'.item.iv = <<runs, p>>
    BY <1>1, <1>10 DEF SealFile, Jobs
  <2>3. <<runs, p>> \in IVs
    <3>1. runs >= 1
      BY <1>10 DEF SealFile, TypeInv, Started, Working, Phases
    <3> QED
      BY <1>1, <3>1 DEF TypeOK, IVs
  <2>4. Age(job'.item.iv) = runs /\ job'.item.iv # None
    BY <2>2, <2>3, NoneAssumption DEF Age
  <2> QED
    BY <1>1, <2>1, <2>2, <2>4 DEF Aged
<1>11. ASSUME NEW p \in Paths, RecordSkipped(p) PROVE Aged'
  <2>1. UNCHANGED <<oss, rows, runs, phase>>
    BY <1>11 DEF RecordSkipped
  <2>2. PICK m \in SkippedMeta(UpsertMarked(p, job.hash[p], "success"), p) :
          job'.batch = job.batch \cup {RowOf(p, m)}
    BY <1>11, SkipLocals
  <2>3. UNCHANGED <<job.meta, job.item>>
    BY <1>11, SkipLocals
  <2>4. RowOf(p, m).iv = m.iv
    BY DEF RowOf
  <2>5. Age(m.iv) <= runs
    <3>1. Age(None) <= runs
      BY <1>1 DEF Age
    <3>2. job.hash[p] \in Keys
      BY <1>1 DEF Jobs
    <3>3. CASE job.meta[job.hash[p]] # None
      BY <2>2, <3>2, <3>3 DEF SkippedMeta, Aged
    <3>4. CASE job.meta[job.hash[p]] = None
      <4>1. m = NoMeta \/ \E r \in rows : m.iv = r.iv
        BY <2>2, <3>4 DEF SkippedMeta, LatestRows
      <4> QED
        BY <3>1, <4>1 DEF Aged, NoMeta
    <3> QED
      BY <3>3, <3>4
  <2> QED
    BY <2>1, <2>2, <2>3, <2>4, <2>5 DEF Aged
<1>12. ASSUME NEW p \in Paths, NEW c \in Hashes \cup {None}, Edit(p, c) PROVE Aged'
  BY <1>3, <1>12 DEF Edit, tables
<1>13. CASE UNCHANGED vars
  BY <1>3, <1>13 DEF vars, tables
<1> QED
  BY <1>4, <1>5, <1>6, <1>7, <1>8, <1>9, <1>10, <1>11, <1>12, <1>13, MildSteps

LEMMA InitKept == Mild /\ Init => Kept
<1> SUFFICES ASSUME Mild, Init PROVE Kept
  OBVIOUS
<1>1. /\ phase = "idle" /\ job.batch = {} /\ job.item = None /\ snap = None
      /\ \A k \in Keys : job.meta[k] = None /\ index[k] = None /\ oss[k] = None
      /\ \A p \in Paths : files[p] = None
      /\ \A p, q \in Paths : disk[p] = disk[q] /\ disk[p] # None => p = q
      /\ \A p \in Paths : disk[p] \in seen \cup {None}
      /\ disk \in [Paths -> Hashes \cup {None}]
  BY DEF Init, NoJob, Mild
<1>2. Known = {} /\ \A p \in Paths : HashOf(p) = None /\ ~Succeeded(p)
  BY <1>1 DEF Known, HashOf, Succeeded
<1>3. OneOwner
  BY <1>1, <1>2, NamesAssumption DEF OneOwner, Keys
<1>4. Uninterrupted /\ Queue
  BY <1>1 DEF Uninterrupted, Queue, Sorted, Hashed, Working
<1>5. InStore
  BY <1>1, <1>2 DEF InStore, Keys
<1>6. Remembered
  BY <1>2 DEF Remembered
<1> QED
  BY <1>3, <1>4, <1>5, <1>6 DEF Kept

LEMMA NextKept ==
  ASSUME Mild, TypeInv, DiskTaken, Dated, Aged, Kept, [Next]_vars
  PROVE  Kept'
<1>2. CASE UNCHANGED vars
  <2>1. UNCHANGED <<disk, seen, files, index, synthetic, rows, backups, oss, snap, phase, job>>
    BY <1>2 DEF vars, tables
  <2>2. UNCHANGED <<Known, InHand, Waiting>> /\ \A p \in Paths : UNCHANGED HashOf(p)
    BY <2>1 DEF Known, InHand, Waiting, HashOf, Present
  <2>3. UNCHANGED Uninterrupted /\ UNCHANGED OneOwner
    BY <2>1, <2>2 DEF Uninterrupted, OneOwner, Database
  <2>4. UNCHANGED Queue /\ UNCHANGED InStore
    BY <2>1, <2>2 DEF Queue, Sorting, Apart, Present, InStore, ItemKey
  <2>5. \A p \in Paths : UNCHANGED RowsNow(p)
    BY <2>1 DEF RowsNow, SessionRows, LatestRows
  <2>6. \A p \in Paths : UNCHANGED Succeeded(p) /\ UNCHANGED Backed(p)
    BY <2>1, <2>2, <2>5 DEF Succeeded, Backed, Good
  <2>7. UNCHANGED Remembered
    BY <2>1, <2>2, <2>6 DEF Remembered
  <2> QED
    BY <2>3, <2>4, <2>7 DEF Kept
<1>3. ASSUME NEW p \in Paths, DedupFile(p) \/ SealFile(p) \/ RecordSkipped(p) \/ Failed(p) PROVE Kept'
  BY <1>3, DedupKeeps, SealKeeps, SkipKeeps, FailKeeps
<1>4. ASSUME NEW p \in Paths, NEW c \in Hashes \cup {None}, phase = "idle", Edit(p, c) PROVE Kept'
  BY <1>4, EditKeeps
<1> QED
  BY <1>2, <1>3, <1>4, MildSteps, StartKeeps, PrepareKeeps, CheckKeeps, QuietKeeps, AddKeeps,
     StoreKeeps, RecordKeeps, PushKeeps DEF Fileless

\* Where no two files ever have the same content, nothing is cancelled or crashes, and
\* nothing fails but the batch check, the reading of a nonce (an archived object) and the
\* processing of a file, each any number of times: every active file whose last backup
\* succeeded comes back between sessions, from its latest row, with the content its row
\* records, unless its object was encrypted anew by a later session that then failed
\* for it.  The IV and the compression a skipped file inherits, or an upload takes from
\* the object, are those the object was stored with.
THEOREM SuccessfulFilesRestore ==
  ASSUME Mild
  PROVE  Spec => []LatestRestorable
<1> DEFINE Inv == TypeInv /\ Dated /\ NotYet /\ DiskTaken /\ HashesTrue /\ Aged /\ Kept
<1>1. "liveDisk" \notin Faults /\ Clean /\ Clean'
  BY DEF Mild, Clean
<1>2. Init => Inv
  <2>1. Init => DiskTaken
    BY DEF Init, DiskTaken, RowsHashed, ScanTrue, Progress, Hashed, Sorted, Uploaded, Written, Marked
  <2>2. Init => Dated /\ NotYet
    BY DEF Init, Dated, NotYet, Working
  <2>3. Init => Aged
    BY DEF Init, Aged, NoJob, Early
  <2> QED
    BY <2>1, <2>2, <2>3, InitType, InitTrue, InitKept
<1>3. Inv /\ [Next]_vars => Inv'
  BY <1>1, NextType, NextDated, NextNotYet, NextTaken, NextTrue, NextAged, NextKept
<1>4. Inv => LatestRestorable
  <2> SUFFICES ASSUME Inv, phase = "idle", NEW p \in Paths, IsActive(p), files[p].last = "success"
               PROVE  Restorable(p) \/ \E r \in LatestRows(p) : EncryptedAnew(r)
    BY DEF LatestRestorable
  <2>1. job.item = None /\ job.batch = {} /\ InHand = {}
    BY DEF Kept, Uninterrupted, InHand
  <2>2. HashOf(p) = files[p].hash /\ HashOf(p) \in Hashes
    <3>1. files[p] # None /\ files[p] \in FileRows
      BY DEF IsActive, TypeInv, TypeOK
    <3>2. files[p].hash # None
      BY <3>1, NamesAssumption DEF FileRows, Keys
    <3> QED
      BY <3>1, <3>2, Basics DEF HashOf
  <2>3. Backed(p)
    BY <2>1 DEF Kept, Remembered, Succeeded, IsActive
  <2>4. PICK r \in LatestRows(p) : Good(r, files[p].hash)
    BY <2>1, <2>2, <2>3 DEF Backed, RowsNow, SessionRows
  <2>5. oss[files[p].hash].content = files[p].hash
    BY <2>2, <2>4 DEF HashesTrue, ContentAddressed, Good
  <2>6. r.iv = oss[files[p].hash].iv => Delivers(files[p], r, files[p].hash)
    BY <2>4, <2>5 DEF Delivers, Good
  <2>7. r.iv # oss[files[p].hash].iv => EncryptedAnew(r)
    BY <2>4 DEF EncryptedAnew, Good
  <2> QED
    BY <2>6, <2>7 DEF Restorable
<1> QED
  BY <1>2, <1>3, <1>4, PTL DEF Spec
=============================================================================
