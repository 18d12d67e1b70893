-------------------------- MODULE MaintenanceProofs --------------------------
(***************************************************************************)
(* Theorems about garbage collection and reconciliation beside the backup  *)
(* pipeline, for any paths, contents and bounds, and any overlap of        *)
(* collections, reconciliations and sessions unless a theorem excludes it. *)
(***************************************************************************)
EXTENDS Maintenance, ContentProofs, FiniteSetTheorems

-----------------------------------------------------------------------------
(* Counting: the tables of rows stay finite. *)

CountableRows ==
  /\ IsFiniteSet(rows) /\ IsFiniteSet(job.batch)
  /\ snap # None => IsFiniteSet(snap.rows)

LEMMA RowCountType ==
  ASSUME CountableRows, NEW k
  PROVE  RowCount(k) \in Nat
<1>1. IsFiniteSet({r \in rows : r.key = k})
  BY FS_Subset DEF CountableRows
<1> QED
  BY <1>1, FS_CardinalityType DEF RowCount

LEMMA NextCountable ==
  ASSUME TypeOK, CountableRows, [Next]_vars
  PROVE  CountableRows'
<1>0. job \in Jobs
  BY DEF TypeOK
<1>1. NoJob.batch = {} /\ IsFiniteSet({}) /\ IsFiniteSet(NoJob.batch)
  BY FS_EmptySet DEF NoJob
<1>2. Database.rows = rows /\ Cleaned.rows = rows
  BY DEF Database, Cleaned
<1>3. \A d \in {Database, Cleaned} : IsFiniteSet(Pulled(d).rows)
  BY <1>2 DEF Pulled, CountableRows
<1>4. CASE StartBackup
  <2>1. rows' = Pulled(Database).rows /\ UNCHANGED snap
    BY <1>4 DEF StartBackup, LoadDatabase
  <2>2. job'.batch = {}
    BY <1>1, <1>4 DEF StartBackup, NoJob
  <2> QED
    BY <1>1, <1>3, <2>1, <2>2 DEF CountableRows
<1>5. CASE Restart
  <2>1. PICK d \in {Cleaned, Pulled(Cleaned)} : rows' = d.rows /\ UNCHANGED <<job, snap>>
    BY <1>5 DEF Restart, LoadDatabase
  <2> QED
    BY <1>2, <1>3, <2>1 DEF CountableRows
<1>6. CASE RecordUpload
  <2>1. PICK r : job'.batch = job.batch \cup {r}
    BY <1>0, <1>6 DEF RecordUpload, Jobs
  <2>2. IsFiniteSet(job'.batch)
    BY <2>1, FS_AddElement DEF CountableRows
  <2> QED
    BY <1>6, <2>2 DEF RecordUpload, CountableRows
<1>7. ASSUME NEW p \in Paths, RecordSkipped(p) PROVE CountableRows'
  <2>1. PICK r : job'.batch = job.batch \cup {r}
    BY <1>0, <1>7 DEF RecordSkipped, Jobs
  <2>2. IsFiniteSet(job'.batch)
    BY <2>1, FS_AddElement DEF CountableRows
  <2> QED
    BY <1>7, <2>2 DEF RecordSkipped, CountableRows
<1>17. ASSUME NEW p \in Paths, SkipFails(p) PROVE CountableRows'
  <2>1. job'.batch = job.batch \/ \E r : job'.batch = job.batch \cup {r}
    BY <1>0, <1>17 DEF SkipFails, Jobs
  <2>2. IsFiniteSet(job'.batch)
    BY <2>1, FS_AddElement DEF CountableRows
  <2> QED
    BY <1>17, <2>2 DEF SkipFails, CountableRows
<1>8. CASE AddBackupFiles
  BY <1>8, FS_Union DEF AddBackupFiles, CountableRows
<1>9. CASE PushSnapshot \/ PushFails
  BY <1>1, <1>2, <1>9 DEF PushSnapshot, PushFails, PushFailed, Tear, EndSession, tables, CountableRows
<1>10. CASE Scan
  <2>1. PICK kind : job' = [job EXCEPT !.kind = kind]
    BY <1>10 DEF Scan
  <2> QED
    BY <1>0, <1>10, <2>1 DEF Scan, Jobs, CountableRows
<1>11. CASE ComputeHashes \/ CheckObjects
  <2>1. job'.batch = job.batch
    BY <1>0, <1>11 DEF ComputeHashes, CheckObjects, Jobs
  <2> QED
    BY <1>11, <2>1 DEF ComputeHashes, CheckObjects, tables, CountableRows
<1>12. CASE \E p \in Paths : \/ DedupFile(p) \/ SealFile(p) \/ FailBeforeSealing(p) \/ FailUnmarked(p)
                              \/ ReleaseFile(p) \/ ReleaseFails(p)
  <2>1. job'.batch = job.batch
    BY <1>0, <1>12 DEF DedupFile, SealFile, FailBeforeSealing, FileFails, FailUnmarked, ReleaseFile,
                       ReleaseFails, Jobs
  <2> QED
    BY <1>12, <2>1 DEF DedupFile, SealFile, FailBeforeSealing, FileFails, FailUnmarked, ReleaseFile,
                       ReleaseFails, tables, CountableRows
<1>13. CASE UploadObject \/ FailAfterSealing \/ Cancel
  <2>1. job'.batch = job.batch
    BY <1>0, <1>13 DEF UploadObject, PutObject, ReuseNonce, OverwriteFrozen, UploadUnsure,
                       FailAfterSealing, FileFails, Cancel, Jobs
  <2> QED
    BY <1>13, <2>1 DEF UploadObject, FailAfterSealing, FileFails, Cancel, tables, CountableRows
<1>14. CASE \/ DedupDone \/ UploadsDone \/ SkipsDone \/ MarkDeleted \/ ReleasesDone \/ Complete
            \/ CompleteUnrecorded
  BY <1>14 DEF DedupDone, UploadsDone, SkipsDone, MarkDeleted, ReleasesDone, Complete,
               CompleteUnrecorded, tables, CountableRows
<1>15. CASE NoticeCancel \/ HardError \/ AbortUnrecorded \/ Crash
  BY <1>1, <1>15 DEF NoticeCancel, HardError, Abort, AbortUnrecorded, EndUnrecorded, EndSession, Crash,
                     Tear, tables, CountableRows
<1>16. CASE \/ \E p \in Paths, c \in Hashes \cup {None} : Edit(p, c)
            \/ \E k \in Keys : Lose(k)
            \/ UNCHANGED vars
  BY <1>16 DEF Edit, Lose, tables, vars, CountableRows
<1> QED
  BY <1>4, <1>5, <1>6, <1>7, <1>8, <1>9, <1>10, <1>11, <1>12, <1>13, <1>14, <1>15, <1>16, <1>17
     DEF Next, SessionStep, Environment, Exhausted, Refused

-----------------------------------------------------------------------------
(* Types.  The parts of a step: one of the pipeline, one of a collection, one *)
(* of a reconciliation, or a session whose hash row a collection took away.   *)

MInv == MaintenanceTypeOK /\ Started /\ Compared /\ CountableRows

PipelineStep == StartBackup \/ SessionStep \/ Restart \/ Environment \/ UNCHANGED vars

LEMMA StepParts ==
  [MNext]_mvars =>
    \/ PipelineStep
    \/ Collection \/ Reconciliation
    \/ \E p \in Paths : DedupFails(p)
BY DEF MNext, PipelineStep, Exhausted, Refused, mvars

LEMMA PipelineNext == PipelineStep => [Next]_vars
BY DEF PipelineStep, Next

LEMMA PipelineTypes ==
  ASSUME MInv, PipelineStep
  PROVE  TypeOK' /\ Started' /\ Compared' /\ CountableRows'
BY PipelineNext, NextType, NextCountable DEF MInv, MaintenanceTypeOK, TypeInv

\* What a step beside the pipeline leaves of it.
LEMMA BesideTypes ==
  ASSUME MInv, UNCHANGED <<disk, seen, phase, job, runs, files>>, DOMAIN backups' = DOMAIN backups,
         backups' \in Seq(Statuses), IsFiniteSet(rows'), snap' = None \/ snap' = snap \/ snap' = Database,
         torn' \in BOOLEAN,
         oss' \in [Keys -> Objects \cup {None}], index' \in [Keys -> HashRows \cup {None}],
         synthetic' \subseteq Keys, rows' \subseteq BackupRows,
         edits' \in 0..MaxEdits, faults' \in 0..MaxFaults
  PROVE  TypeOK' /\ Started' /\ Compared' /\ CountableRows'
<1>1. TypeOK
  BY DEF MInv, MaintenanceTypeOK
<1>2. snap' \in Snapshots \cup {None}
  BY <1>1, DatabaseType DEF TypeOK
<1>3. Len(backups') = Len(backups) /\ (backups # << >> => backups' # << >>)
  <2>1. backups \in Seq(Statuses)
    BY <1>1 DEF TypeOK
  <2>2. Len(backups') = Len(backups)
    BY <2>1, LenProperties
  <2> QED
    BY <2>1, <2>2, EmptySeq
<1>4. TypeOK'
  BY <1>1, <1>2 DEF TypeOK
<1>5. Started' /\ Compared'
  BY <1>3 DEF MInv, Started, Compared
<1>6. snap' # None => IsFiniteSet(snap'.rows)
  BY DEF MInv, CountableRows, Database
<1>7. CountableRows'
  BY <1>6 DEF MInv, CountableRows
<1> QED
  BY <1>4, <1>5, <1>7

LEMMA OwnTypes ==
  ASSUME MInv
  PROVE  /\ gc \in GCs /\ rec \in Recs /\ passes \in Nat /\ overlaps \in Nat
         /\ passes \in 0..MaxPasses /\ overlaps \in 0..MaxOverlaps
         /\ MaxPasses \in Nat /\ MaxOverlaps \in Nat
BY MaintenanceAssumption DEF MInv, MaintenanceTypeOK

LEMMA NothingTypes == NoGC \in GCs /\ NoRec \in Recs
BY DEF NoGC, GCs, NoRec, Recs, Keys

LEMMA MeetsType ==
  ASSUME MInv, NEW another, Meets(another)
  PROVE  overlaps' \in 0..MaxOverlaps
BY OwnTypes DEF Meets

\* The collector and the reconciler's own variables.
OwnTyped == gc \in GCs /\ rec \in Recs /\ passes \in 0..MaxPasses /\ overlaps \in 0..MaxOverlaps

LEMMA PipelineOwn ==
  ASSUME MInv, [MNext]_mvars, ~Collection, ~Reconciliation
  PROVE  OwnTyped'
<1>1. CASE StartBackup /\ Meets(Busy) /\ Beside
  BY <1>1, MeetsType, OwnTypes, NothingTypes DEF Beside, OwnTyped
<1>2. CASE Beside /\ UNCHANGED overlaps
  BY <1>2, OwnTypes, NothingTypes DEF Beside, OwnTyped
<1>3. CASE UNCHANGED <<gc, rec, counts>>
  BY <1>3, OwnTypes DEF counts, OwnTyped
<1>4. CASE UNCHANGED mvars
  BY <1>4, OwnTypes DEF mvars, counts, OwnTyped
<1>5. CASE \E p \in Paths : DedupFails(p)
  BY <1>3, <1>5 DEF DedupFails
<1> QED
  BY <1>1, <1>2, <1>3, <1>4, <1>5 DEF MNext

LEMMA FaultBounds ==
  ASSUME MInv
  PROVE  /\ UNCHANGED bounds => edits' \in 0..MaxEdits /\ faults' \in 0..MaxFaults
         /\ \A f : Fault(f) => edits' \in 0..MaxEdits /\ faults' \in 0..MaxFaults
BY FaultType, BoundsType DEF MInv, MaintenanceTypeOK

LEMMA PipelineParts ==
  ASSUME MInv
  PROVE  /\ oss \in [Keys -> Objects \cup {None}] /\ index \in [Keys -> HashRows \cup {None}]
         /\ synthetic \subseteq Keys /\ rows \subseteq BackupRows /\ backups \in Seq(Statuses)
         /\ IsFiniteSet(rows) /\ torn \in BOOLEAN
BY DEF MInv, MaintenanceTypeOK, TypeOK, CountableRows

LEMMA CollectionType ==
  ASSUME MInv, Collection
  PROVE  MInv'
<1> USE OwnTypes, PipelineParts, FaultBounds
<1>1. CASE StartGC
  <2>1. gc' \in GCs
    BY <1>1 DEF StartGC, GCs, Collectable
  <2>2. OwnTyped'
    BY <1>1, <2>1, MeetsType DEF StartGC, StartPass, OwnTyped
  <2>3. PipelineStep
    BY <1>1 DEF StartGC, PipelineStep
  <2> QED
    BY <2>2, <2>3, PipelineTypes DEF MInv, MaintenanceTypeOK, OwnTyped
<1>2. ASSUME NEW k \in Keys, CollectObject(k) PROVE MInv'
  <2>0. /\ gc.todo \ {k} \in SUBSET Keys /\ gc.done \cup {k} \in SUBSET Keys
        /\ \/ gc' = [gc EXCEPT !.todo = gc.todo \ {k}, !.done = gc.done \cup {k}]
           \/ gc' = [gc EXCEPT !.todo = gc.todo \ {k}]
    BY <1>2 DEF CollectObject, GCs
  <2>1. gc' \in GCs
    BY <2>0 DEF GCs
  <2>2. OwnTyped'
    BY <1>2, <2>1 DEF CollectObject, counts, OwnTyped
  <2>3. oss' \in [Keys -> Objects \cup {None}] /\ edits' \in 0..MaxEdits /\ faults' \in 0..MaxFaults
    BY <1>2 DEF CollectObject
  <2>4. TypeOK' /\ Started' /\ Compared' /\ CountableRows'
    BY <1>2, <2>3, BesideTypes DEF CollectObject, tables
  <2> QED
    BY <2>2, <2>4 DEF MInv, MaintenanceTypeOK, OwnTyped
<1>3. CASE FinishGC
  <2>1. OwnTyped'
    BY <1>3, NothingTypes DEF FinishGC, counts, OwnTyped
  <2>2. index' \in [Keys -> HashRows \cup {None}]
    BY <1>3 DEF FinishGC
  <2>3. TypeOK' /\ Started' /\ Compared' /\ CountableRows'
    BY <1>3, <2>2, BesideTypes DEF FinishGC
  <2> QED
    BY <2>1, <2>3 DEF MInv, MaintenanceTypeOK, OwnTyped
<1>4. CASE TimeOutGC
  <2>1. OwnTyped'
    BY <1>4, NothingTypes DEF TimeOutGC, counts, OwnTyped
  <2>2. TypeOK' /\ Started' /\ Compared' /\ CountableRows'
    BY <1>4, BesideTypes DEF TimeOutGC, tables
  <2> QED
    BY <2>1, <2>2 DEF MInv, MaintenanceTypeOK, OwnTyped
<1> QED
  BY <1>1, <1>2, <1>3, <1>4 DEF Collection

LEMMA FixedRowType ==
  ASSUME MInv, NEW k \in Keys, NEW r \in Recs
  PROVE  FixedRow(r, k) \in HashRows \cup {None}
<1>1. index[k] # None => index[k] \in HashRows
  BY PipelineParts
<1>2. r.refs[k] # None => r.refs[k] \in Nat
  BY DEF Recs
<1>3. index[k] # None /\ r.refs[k] # None => [index[k] EXCEPT !.ref = r.refs[k]] \in HashRows
  BY <1>1, <1>2 DEF HashRows
<1>4. \/ FixedRow(r, k) = None
      \/ index[k] # None /\ r.refs[k] # None /\ FixedRow(r, k) = [index[k] EXCEPT !.ref = r.refs[k]]
      \/ index[k] # None /\ FixedRow(r, k) = index[k]
  BY DEF FixedRow
<1> QED
  BY <1>1, <1>3, <1>4

\* A report with some fixes left out is one.
LEMMA CarriedOutType ==
  ASSUME MInv, NEW r \in CarriedOut
  PROVE  /\ r \in Recs
         /\ r.orphans = rec.orphans /\ r.listed = rec.listed /\ r.kept = rec.kept
         /\ r.dangling \subseteq rec.dangling /\ r.orphanRows \subseteq rec.orphanRows
         /\ r.missing \subseteq rec.missing /\ r.fail \subseteq rec.fail
         /\ \A k \in Keys : r.refs[k] \in {rec.refs[k], None}
<1>1. rec \in Recs
  BY OwnTypes
<1>2. PICK D \in SUBSET rec.dangling, O \in SUBSET rec.orphanRows, M \in SUBSET rec.missing,
           C \in SUBSET rec.complete, F \in SUBSET rec.fail,
           R \in SUBSET {k \in Keys : rec.refs[k] # None} :
        r = Only(D, O, M, C, F, R)
  BY DEF CarriedOut
<1>3. [k \in Keys |-> IF k \in R THEN rec.refs[k] ELSE None] \in [Keys -> Nat \cup {None}]
  BY <1>1 DEF Recs
<1> QED
  BY <1>1, <1>2, <1>3 DEF Only, Recs

LEMMA ApplyType ==
  ASSUME MInv, ApplyFixes
  PROVE  MInv'
<1> USE OwnTypes, PipelineParts, FaultBounds
<1>1. CASE rec' = NoRec /\ UNCHANGED tables
  <2>1. OwnTyped'
    BY <1>1, NothingTypes DEF ApplyFixes, counts, OwnTyped
  <2>2. edits' \in 0..MaxEdits /\ faults' \in 0..MaxFaults
    BY DEF ApplyFixes
  <2>3. TypeOK' /\ Started' /\ Compared' /\ CountableRows'
    BY <1>1, <2>2, BesideTypes DEF ApplyFixes, tables
  <2> QED
    BY <2>1, <2>3 DEF MInv, MaintenanceTypeOK, OwnTyped
<1>2. ASSUME NEW r \in CarriedOut, FixTables(r), UNCHANGED files,
             rec' = [rec EXCEPT !.step = "sweep", !.partial = (r # rec), !.applied = FixesDue(r)]
      PROVE  MInv'
  <2>0. r \in Recs
    BY CarriedOutType
  <2>1. FixesDue(r) \in BOOLEAN
    BY DEF FixesDue
  <2>2. rec' \in Recs
    BY <1>2, <2>1 DEF Recs
  <2>3. OwnTyped'
    BY <2>2 DEF ApplyFixes, counts, OwnTyped
  <2>4. index' \in [Keys -> HashRows \cup {None}]
    BY <1>2, <2>0, FixedRowType DEF FixTables
  <2>5. synthetic' \subseteq Keys
    BY <1>2, <2>0 DEF Recs, FixTables
  <2>6. rows' \subseteq BackupRows /\ IsFiniteSet(rows')
    BY <1>2, FS_Subset DEF FixTables
  <2>7. backups' \in Seq(Statuses) /\ DOMAIN backups' = DOMAIN backups
    <3>1. Len(backups) \in Nat /\ DOMAIN backups = 1..Len(backups)
          /\ \A i \in 1..Len(backups) : backups[i] \in Statuses
      BY LenProperties, ElementOfSeq
    <3>2. \A i \in 1..Len(backups) : backups'[i] \in Statuses
      BY <1>2, <3>1 DEF Statuses, FixTables
    <3>3. backups' = [i \in 1..Len(backups) |-> backups'[i]]
      BY <1>2, <3>1 DEF FixTables
    <3>4. backups' \in [1..Len(backups) -> Statuses]
      BY <3>2, <3>3
    <3> QED
      BY <3>1, <3>4, SeqDef
  <2>8. edits' \in 0..MaxEdits /\ faults' \in 0..MaxFaults
    BY DEF ApplyFixes
  <2>9. TypeOK' /\ Started' /\ Compared' /\ CountableRows'
    BY <1>2, <2>4, <2>5, <2>6, <2>7, <2>8, BesideTypes DEF ApplyFixes
  <2> QED
    BY <2>3, <2>9 DEF MInv, MaintenanceTypeOK, OwnTyped
<1> QED
  BY <1>1, <1>2 DEF ApplyFixes, tables

LEMMA ReconciliationType ==
  ASSUME MInv, Reconciliation
  PROVE  MInv'
<1> USE OwnTypes, PipelineParts, FaultBounds
<1>1. CASE StartReconcile
  <2>1. rec' \in Recs
    BY <1>1, NothingTypes DEF StartReconcile, Recs, Gathering
  <2>2. OwnTyped'
    BY <1>1, <2>1, MeetsType DEF StartReconcile, StartPass, OwnTyped
  <2>3. PipelineStep
    BY <1>1 DEF StartReconcile, PipelineStep
  <2> QED
    BY <2>2, <2>3, PipelineTypes DEF MInv, MaintenanceTypeOK, OwnTyped
<1>2. CASE Compare \/ CompareCounts \/ ListFailed
  <2>1. RowKeys \subseteq Keys /\ RowsOfFailed \subseteq BackupRows
    BY DEF RowKeys, RowsOfFailed, BackupRows
  <2>2. \A k \in Keys : RowCount(k) \in Nat
    BY RowCountType DEF MInv
  <2>3. Compare => rec' \in Recs
    <3> DEFINE dangling == {k \in Keys \ rec.listed : index[k] # None /\ index[k].ref = 0}
               Found(a, b, c, d) == [rec EXCEPT !.step = "matched", !.orphans = a, !.dangling = b,
                                                !.orphanRows = c, !.missing = d]
    <3>1. /\ rec.listed \ Indexed \in SUBSET Keys /\ dangling \in SUBSET Keys
          /\ RowKeys \ (Indexed \cup rec.listed) \in SUBSET Keys
          /\ (RowKeys \ Indexed) \cap rec.listed \in SUBSET Keys
      BY <2>1 DEF Recs
    <3>2. Compare => rec' = Found(rec.listed \ Indexed, dangling, RowKeys \ (Indexed \cup rec.listed),
                                  (RowKeys \ Indexed) \cap rec.listed)
      BY DEF Compare
    <3>3. \A a, b, c, d \in SUBSET Keys : Found(a, b, c, d) \in Recs
      BY DEF Recs, Gathering
    <3> HIDE DEF dangling, Found
    <3> QED
      BY <3>1, <3>2, <3>3
  <2>4. CompareCounts => rec' \in Recs
    <3>1. [k \in Keys |-> IF index[k] # None /\ index[k].ref # RowCount(k) THEN RowCount(k) ELSE None]
            \in [Keys -> Nat \cup {None}]
      BY <2>2
    <3> QED
      BY <3>1 DEF CompareCounts, Recs, Gathering
  <2>5. rec' \in Recs
    BY <1>2, <2>1, <2>3, <2>4 DEF ListFailed, Recs, Gathering
  <2>6. OwnTyped'
    BY <1>2, <2>5 DEF Compare, CompareCounts, ListFailed, counts, OwnTyped
  <2>7. PipelineStep
    BY <1>2 DEF Compare, CompareCounts, ListFailed, PipelineStep
  <2> QED
    BY <2>6, <2>7, PipelineTypes DEF MInv, MaintenanceTypeOK, OwnTyped
<1>6. CASE CheckFailed
  <2>1. DOMAIN backups \subseteq Nat
    BY LenProperties
  <2>2. AllThere \subseteq Nat /\ CompletedNoRows \subseteq Nat
    BY <2>1 DEF AllThere, CompletedNoRows, Recs, BackupRows
  <2>3. PICK C \in SUBSET AllThere :
          rec' = [rec EXCEPT !.step = "compared", !.suspect = {}, !.complete = C, !.fail = CompletedNoRows]
    BY <1>6 DEF CheckFailed
  <2>4. rec' \in Recs
    BY <2>2, <2>3 DEF Recs
  <2>5. OwnTyped'
    BY <1>6, <2>4 DEF CheckFailed, counts, OwnTyped
  <2>6. edits' \in 0..MaxEdits /\ faults' \in 0..MaxFaults
    BY <1>6 DEF CheckFailed
  <2>7. TypeOK' /\ Started' /\ Compared' /\ CountableRows'
    BY <1>6, <2>6, BesideTypes DEF CheckFailed, tables
  <2> QED
    BY <2>5, <2>7 DEF MInv, MaintenanceTypeOK, OwnTyped
<1>3. ASSUME NEW k \in Keys, SweepObject(k) PROVE MInv'
  <2>0. /\ rec.orphans \ {k} \in SUBSET Keys /\ rec.kept \cup {k} \in SUBSET Keys
        /\ \/ rec' = [rec EXCEPT !.orphans = rec.orphans \ {k}, !.applied = TRUE]
           \/ rec' = [rec EXCEPT !.orphans = rec.orphans \ {k}, !.kept = rec.kept \cup {k}]
    BY <1>3 DEF SweepObject, Recs
  <2>1. rec' \in Recs
    BY <2>0 DEF Recs
  <2>2. OwnTyped'
    BY <1>3, <2>1 DEF SweepObject, counts, OwnTyped
  <2>3. oss' \in [Keys -> Objects \cup {None}] /\ edits' \in 0..MaxEdits /\ faults' \in 0..MaxFaults
    BY <1>3 DEF SweepObject
  <2>4. TypeOK' /\ Started' /\ Compared' /\ CountableRows'
    BY <1>3, <2>3, BesideTypes DEF SweepObject, tables
  <2> QED
    BY <2>2, <2>4 DEF MInv, MaintenanceTypeOK, OwnTyped
<1>4. CASE TimeOutReconcile
  <2>1. FixesDue(rec) \in BOOLEAN
    BY DEF FixesDue
  <2>2. rec' \in Recs
    BY <1>4, <2>1, NothingTypes DEF TimeOutReconcile, Recs
  <2>3. OwnTyped'
    BY <1>4, <2>2 DEF TimeOutReconcile, counts, OwnTyped
  <2>4. TypeOK' /\ Started' /\ Compared' /\ CountableRows'
    BY <1>4, BesideTypes DEF TimeOutReconcile, tables
  <2> QED
    BY <2>3, <2>4 DEF MInv, MaintenanceTypeOK, OwnTyped
<1>5. CASE PushRepaired
  <2>1. OwnTyped'
    BY <1>5, NothingTypes DEF PushRepaired, counts, OwnTyped
  <2>2. edits' \in 0..MaxEdits /\ faults' \in 0..MaxFaults
    BY <1>5 DEF PushRepaired
  <2>3. TypeOK' /\ Started' /\ Compared' /\ CountableRows'
    BY <1>5, <2>2, BesideTypes DEF PushRepaired, PushFailed, Tear, tables
  <2> QED
    BY <2>1, <2>3 DEF MInv, MaintenanceTypeOK, OwnTyped
<1> QED
  BY <1>1, <1>2, ApplyType, <1>3, <1>4, <1>5, <1>6 DEF Reconciliation

LEMMA DedupFailsType ==
  ASSUME MInv, NEW p \in Paths, DedupFails(p)
  PROVE  TypeOK' /\ Started' /\ Compared' /\ CountableRows'
<1>1. /\ TypeInv /\ phase \in Working
      /\ (Abort /\ UNCHANGED bounds) \/ EndUnrecorded
  BY DEF DedupFails, Phases, Working, MInv, MaintenanceTypeOK, TypeInv
<1>2. TypeInv'
  BY <1>1, AbortType, BoundsType, UnrecordedType DEF TypeInv
<1>3. CountableRows'
  BY <1>1, FS_EmptySet DEF Abort, EndUnrecorded, EndSession, NoJob, tables, MInv, CountableRows
<1> QED
  BY <1>2, <1>3 DEF TypeInv

LEMMA MNextInv == MInv /\ [MNext]_mvars => MInv'
<1> SUFFICES ASSUME MInv, [MNext]_mvars PROVE MInv'
  OBVIOUS
<1>1. CASE Collection
  BY <1>1, CollectionType
<1>2. CASE Reconciliation
  BY <1>2, ReconciliationType
<1>3. CASE ~Collection /\ ~Reconciliation
  <2>1. OwnTyped'
    BY <1>3, PipelineOwn
  <2>2. TypeOK' /\ Started' /\ Compared' /\ CountableRows'
    BY <1>3, StepParts, PipelineTypes, DedupFailsType
  <2> QED
    BY <2>1, <2>2 DEF MInv, MaintenanceTypeOK, OwnTyped
<1> QED
  BY <1>1, <1>2, <1>3

LEMMA MInitInv == MInit => MInv
<1> SUFFICES ASSUME MInit PROVE MInv
  OBVIOUS
<1>1. TypeInv
  BY InitType DEF MInit
<1>2. CountableRows
  BY FS_EmptySet DEF MInit, Init, NoJob, CountableRows
<1> QED
  BY <1>1, <1>2, NothingTypes, MaintenanceAssumption
     DEF MInit, MInv, MaintenanceTypeOK, TypeInv

LEMMA MaintenanceInvariant == MSpec => []MInv
BY MInitInv, MNextInv, PTL DEF MSpec

\* Types hold however collections, reconciliations and sessions overlap; with them,
\* that reference counts are set to numbers: the rows counted are finitely many.
THEOREM MaintenanceTypeCorrect == MSpec => []MaintenanceTypeOK
<1>1. MInv => MaintenanceTypeOK
  BY DEF MInv
<1> QED
  BY <1>1, MaintenanceInvariant, PTL

-----------------------------------------------------------------------------
(* Contents. *)

LEMMA MaintenanceTrue ==
  ASSUME "liveDisk" \notin Faults
  PROVE  MInv /\ HashesTrue /\ [MNext]_mvars => HashesTrue'
<1> SUFFICES ASSUME MInv, HashesTrue, [MNext]_mvars PROVE HashesTrue'
  OBVIOUS
<1>1. CASE PipelineStep
  BY <1>1, PipelineNext, NextTrue DEF MInv, MaintenanceTypeOK, TypeInv
<1>2. CASE Collection \/ Reconciliation
  <2>1. UNCHANGED <<disk, phase, job, files>>
    BY <1>2 DEF Collection, StartGC, CollectObject, FinishGC, TimeOutGC, Reconciliation,
                StartReconcile, Compare, CompareCounts, ListFailed, CheckFailed, ApplyFixes,
                SweepObject, TimeOutReconcile, PushRepaired, vars, tables
  <2>2. \A k \in Keys : oss'[k] \in {oss[k], None}
    <3>1. UNCHANGED oss \/ \E k \in Keys : oss' = [oss EXCEPT ![k] = None]
      BY <1>2 DEF Collection, StartGC, CollectObject, FinishGC, TimeOutGC, Reconciliation,
                  StartReconcile, Compare, CompareCounts, ListFailed, CheckFailed, ApplyFixes,
                  SweepObject, TimeOutReconcile, PushRepaired, vars
    <3> QED
      BY <3>1, PipelineParts
  <2> QED
    BY <2>1, <2>2 DEF HashesTrue, ContentAddressed, Keys
<1>3. CASE \E p \in Paths : DedupFails(p)
  <2>1. oss' = oss /\ phase' = "idle"
    BY <1>3 DEF DedupFails, Abort, EndUnrecorded, EndSession
  <2> QED
    BY <2>1, OtherStepsTrue
<1> QED
  BY <1>1, <1>2, <1>3, StepParts

\* An object has the content its key names also when collections and repairs delete
\* objects and rows under a session's feet: what is uploaded again is the same.
THEOREM MaintainedContents ==
  ASSUME "liveDisk" \notin Faults
  PROVE  MSpec => []ContentAddressed
<1>1. MInit => HashesTrue
  BY InitTrue DEF MInit
<1>2. HashesTrue => ContentAddressed
  BY DEF HashesTrue
<1> QED
  BY <1>1, <1>2, MaintenanceTrue, MaintenanceInvariant, PTL DEF MSpec

-----------------------------------------------------------------------------
(* What a pass that meets nobody leaves. *)

\* It is alone.
Undisturbed == rec.step # "idle" => phase = "idle" /\ ~gc.active

\* What it listed is what is there, and what its report says so far is true.
Listed ==
  rec.step \in Gathering \cup {"compared"} =>
    rec.listed = {k \in Keys : oss[k] # None} /\ rec.kept = {}

Matched ==
  rec.step \in (Gathering \ {"listed"}) \cup {"compared"} =>
    /\ rec.orphans = rec.listed \ Indexed
    /\ rec.dangling = {k \in Keys \ rec.listed : index[k] # None /\ index[k].ref = 0}
    /\ rec.orphanRows = RowKeys \ (Indexed \cup rec.listed)
    /\ rec.missing = (RowKeys \ Indexed) \cap rec.listed

Tallied ==
  rec.step \in {"counted", "checking", "compared"} =>
    rec.refs = [k \in Keys |-> IF index[k] # None /\ index[k].ref # RowCount(k)
                                THEN RowCount(k) ELSE None]

Reported == Listed /\ Matched /\ Tallied

\* What it has repaired stays so while it deletes what nothing refers to.
Repaired(k) ==
  /\ index[k] # None => /\ index[k].ref = RowCount(k)
                        /\ index[k].ref = 0 => oss[k] # None \/ rec.refs[k] = 0
  /\ oss[k] # None => index[k] # None \/ k \in synthetic \cup rec.orphans \cup rec.kept
  /\ k \in rec.listed \cap (Indexed \cup RowKeys) => oss[k] # None \/ k \in rec.missing
  /\ k \in rec.orphans \cap (Indexed \cup RowKeys) => k \in rec.missing

\* Whatever was carried out, what it still deletes has no hash row.
RepairedKeys ==
  rec.step = "sweep" => /\ \A k \in rec.orphans : index[k] = None
                        /\ ~rec.partial => \A k \in Keys : Repaired(k)

PassInv == overlaps = 0 => Undisturbed /\ Reported /\ RepairedKeys

LEMMA MeetsNobody ==
  ASSUME MInv, NEW another, Meets(another), overlaps' = 0
  PROVE  overlaps = 0 /\ ~another
BY OwnTypes DEF Meets

\* A step that touches neither the tables nor the objects, while a pass is alone.
LEMMA SameRepairs ==
  ASSUME PassInv, overlaps' = 0, overlaps = 0,
         UNCHANGED <<rec, oss, index, synthetic, rows>>, phase' = phase, gc'.active = gc.active
  PROVE  PassInv'
<1>1. Indexed' = Indexed /\ RowKeys' = RowKeys /\ \A k \in Keys : RowCount(k)' = RowCount(k)
  BY DEF Indexed, RowKeys, RowCount
<1> QED
  BY <1>1 DEF PassInv, Undisturbed, Reported, Listed, Matched, Tallied, Gathering, RepairedKeys, Repaired

\* The pipeline rests while a pass is alone: only the disk changes, or it crashes.
LEMMA PipelinePass ==
  ASSUME "loss" \notin Faults, MInv, PassInv, [MNext]_mvars, ~Collection, ~Reconciliation
  PROVE  PassInv'
<1> SUFFICES ASSUME overlaps' = 0 PROVE PassInv'
  BY DEF PassInv
<1>1. CASE StartBackup /\ Meets(Busy) /\ Beside
  <2>1. rec.step = "idle" /\ phase' # "down"
    BY <1>1, MeetsNobody DEF Busy, StartBackup
  <2>2. rec'.step = "idle"
    BY <1>1, <2>1 DEF Beside
  <2> QED
    BY <2>2 DEF PassInv, Undisturbed, Reported, Listed, Matched, Tallied, Gathering, RepairedKeys
<1>2. CASE (SessionStep \/ Restart \/ Environment) /\ Beside /\ UNCHANGED overlaps
  <2>1. CASE rec'.step = "idle"
    BY <2>1 DEF PassInv, Undisturbed, Reported, Listed, Matched, Tallied, Gathering, RepairedKeys
  <2>2. CASE rec'.step # "idle"
    <3>1. phase' # "down" /\ UNCHANGED <<gc, rec>> /\ overlaps = 0
      BY <1>2, <2>2 DEF Beside, NoRec
    <3>2. phase = "idle"
      BY <2>2, <3>1 DEF PassInv, Undisturbed
    <3>3. ~SessionStep /\ ~Restart /\ ~Cancel
      BY <3>2 DEF SessionStep, Scan, ComputeHashes, CheckObjects, DedupFile, DedupDone, SealFile,
           FailBeforeSealing, FailUnmarked, UploadObject, RecordUpload, FailAfterSealing,
           UploadsDone, RecordSkipped, SkipFails, SkipsDone, AddBackupFiles, MarkDeleted,
           ReleaseFile, ReleaseFails, ReleasesDone, Complete, CompleteUnrecorded, PushSnapshot,
           PushFails, CancelNoticed, NoticeCancel, HardPhases, HardError, AbortUnrecorded,
           Restart, Cancel, Working, Phases
    <3>4. ~Crash /\ \A k \in Keys : ~Lose(k)
      BY <3>1 DEF Crash, Lose, Fault
    <3>5. PICK p \in Paths, c \in Hashes \cup {None} : Edit(p, c)
      BY <1>2, <3>3, <3>4 DEF Environment
    <3> QED
      BY <3>1, <3>5, SameRepairs DEF Edit, tables
  <2> QED
    BY <2>1, <2>2
<1>3. CASE \E p \in Paths : DedupFails(p)
  <2>1. UNCHANGED <<rec, overlaps>> /\ phase # "idle"
    BY <1>3 DEF DedupFails, counts
  <2>2. rec'.step = "idle"
    BY <2>1 DEF PassInv, Undisturbed
  <2> QED
    BY <2>2 DEF PassInv, Undisturbed, Reported, Listed, Matched, Tallied, Gathering, RepairedKeys
<1>4. CASE \/ (Exhausted \/ Refused) /\ UNCHANGED <<gc, rec, counts>>
           \/ UNCHANGED mvars
  BY <1>4, SameRepairs DEF Exhausted, Refused, mvars, vars, tables, counts
<1> QED
  BY <1>1, <1>2, <1>3, <1>4 DEF MNext

LEMMA CollectionPass ==
  ASSUME MInv, PassInv, Collection
  PROVE  PassInv'
<1> SUFFICES ASSUME overlaps' = 0 PROVE PassInv'
  BY DEF PassInv
<1>1. rec.step = "idle"
  <2>1. CASE StartGC
    BY <2>1, MeetsNobody DEF StartGC, StartPass, Busy
  <2>2. CASE gc.active /\ UNCHANGED overlaps
    BY <2>2 DEF PassInv, Undisturbed
  <2> QED
    BY <2>1, <2>2 DEF Collection, CollectObject, FinishGC, TimeOutGC, counts
<1>2. rec'.step = "idle"
  BY <1>1 DEF Collection, StartGC, CollectObject, FinishGC, TimeOutGC
<1> QED
  BY <1>2 DEF PassInv, Undisturbed, Reported, Listed, Matched, Tallied, Gathering, RepairedKeys

\* No hash row is lost to a fix but that of a dangling key.
LEMMA FixedRowKept ==
  ASSUME MInv, NEW r \in Recs, NEW k \in Keys, index[k] # None, k \notin r.dangling
  PROVE  /\ FixedRow(r, k) # None
         /\ FixedRow(r, k).orphaned = index[k].orphaned
         /\ FixedRow(r, k).ref = IF r.refs[k] # None THEN r.refs[k] ELSE index[k].ref
<1>1. index[k] \in HashRows /\ (r.refs[k] # None => r.refs[k] \in Nat)
  BY PipelineParts DEF Recs
<1>2. FixedRow(r, k) = IF r.refs[k] # None THEN [index[k] EXCEPT !.ref = r.refs[k]] ELSE index[k]
  BY DEF FixedRow
<1>3. ASSUME r.refs[k] # None PROVE FixedRow(r, k) = [ref |-> r.refs[k], orphaned |-> index[k].orphaned]
  BY <1>1, <1>2, <1>3 DEF HashRows
<1>4. ASSUME r.refs[k] # None PROVE FixedRow(r, k) \in HashRows
  BY <1>1, <1>3, <1>4 DEF HashRows
<1> QED
  BY <1>1, <1>2, <1>3, <1>4, MaintenanceAssumption

\* The fixes of the database, all carried out, from a report that is still true.
LEMMA FixesRepair ==
  ASSUME MInv, Reported, rec.step = "compared", FixTables(rec), UNCHANGED oss,
         UNCHANGED <<rec.listed, rec.orphans, rec.kept, rec.missing, rec.refs>>,
         NEW k \in Keys
  PROVE  Repaired(k)'
<1>0. rec \in Recs /\ RowKeys' \subseteq RowKeys
  BY OwnTypes DEF FixTables, RowKeys
<1>1. /\ k \in rec.listed <=> oss[k] # None
      /\ rec.orphans = rec.listed \ Indexed
      /\ k \in rec.dangling <=> oss[k] = None /\ index[k] # None /\ index[k].ref = 0
      /\ rec.orphanRows \cap Indexed = {}
      /\ rec.missing = (RowKeys \ Indexed) \cap rec.listed
      /\ rec.refs[k] = IF index[k] # None /\ index[k].ref # RowCount(k) THEN RowCount(k) ELSE None
  BY DEF Reported, Listed, Matched, Tallied, Gathering
<1>2. index'[k] = FixedRow(rec, k) /\ synthetic' = (synthetic \ rec.dangling) \cup rec.missing
  BY DEF FixTables
<1>3. index'[k] # None <=> index[k] # None /\ k \notin rec.dangling
  BY <1>0, <1>2, FixedRowKept DEF FixedRow
<1>4. ASSUME index'[k] # None
      PROVE  /\ index'[k].ref = RowCount(k)
             /\ index'[k].ref = 0 => oss[k] # None \/ rec.refs[k] = 0
  <2>1. RowCount(k) \in Nat
    BY RowCountType DEF MInv
  <2>2. index'[k].ref = IF rec.refs[k] # None THEN rec.refs[k] ELSE index[k].ref
    BY <1>0, <1>2, <1>3, <1>4, FixedRowKept
  <2> QED
    BY <1>1, <1>3, <1>4, <2>1, <2>2, MaintenanceAssumption
<1>5. index[k] # None => RowCount(k)' = RowCount(k)
  <2>1. ASSUME index[k] # None PROVE {r \in rows' : r.key = k} = {r \in rows : r.key = k}
    BY <1>1, <2>1 DEF FixTables, Indexed
  <2> QED
    BY <2>1 DEF RowCount
<1>6. index'[k] # None => /\ index'[k].ref = RowCount(k)'
                          /\ index'[k].ref = 0 => oss'[k] # None \/ rec'.refs[k] = 0
  BY <1>3, <1>4, <1>5
<1>7. oss'[k] # None => index'[k] # None \/ k \in synthetic' \cup rec'.orphans \cup rec'.kept
  BY <1>1, <1>2, <1>3 DEF Indexed
<1>8. k \in rec'.listed => oss'[k] # None
  BY <1>1
<1>9. k \in (rec.orphans \cap (Indexed \cup RowKeys))' => k \in rec'.missing
  BY <1>0, <1>1, <1>2, <1>3 DEF Indexed
<1> QED
  BY <1>6, <1>7, <1>8, <1>9 DEF Repaired

\* A step that only reads the tables.
LEMMA SameTables ==
  ASSUME UNCHANGED <<vars, gc>>
  PROVE  /\ UNCHANGED <<oss, index, synthetic, rows, phase>>
         /\ Indexed' = Indexed /\ RowKeys' = RowKeys /\ \A k \in Keys : RowCount(k)' = RowCount(k)
BY DEF vars, tables, Indexed, RowKeys, RowCount

LEMMA ReconciliationPass ==
  ASSUME MInv, PassInv, Reconciliation
  PROVE  PassInv'
<1> SUFFICES ASSUME overlaps' = 0 PROVE PassInv'
  BY DEF PassInv
<1>0. rec \in Recs
  BY OwnTypes
<1>1. CASE StartReconcile
  <2>1. phase = "idle" /\ ~gc.active /\ UNCHANGED <<vars, gc>>
    BY <1>1, MeetsNobody DEF StartReconcile, StartPass, Busy
  <2>2. rec'.step = "listed" /\ rec'.listed = {k \in Keys : oss[k] # None} /\ rec'.kept = {}
    BY <1>1 DEF StartReconcile, NoRec
  <2> QED
    BY <2>1, <2>2, SameTables
       DEF PassInv, Undisturbed, Reported, Listed, Matched, Tallied, Gathering, RepairedKeys
<1>2. CASE Compare \/ CompareCounts \/ ListFailed
  <2>1. /\ rec.step \in {"listed", "matched", "counted"} /\ overlaps = 0 /\ UNCHANGED <<vars, gc>>
        /\ UNCHANGED <<rec.listed, rec.kept>>
    BY <1>0, <1>2 DEF Compare, CompareCounts, ListFailed, counts, Recs
  <2>2. Undisturbed /\ Reported
    BY <2>1 DEF PassInv
  <2>3. /\ rec'.step \in {"matched", "counted", "checking"}
        /\ Compare => rec'.step = "matched"
        /\ ~Compare => rec.step # "listed"
        /\ ~Compare => UNCHANGED <<rec.orphans, rec.dangling, rec.orphanRows, rec.missing>>
        /\ ListFailed => UNCHANGED rec.refs /\ rec.step = "counted"
    BY <1>0, <1>2 DEF Compare, CompareCounts, ListFailed, Recs
  <2>4. CompareCounts => rec'.refs = [k \in Keys |-> IF index[k] # None /\ index[k].ref # RowCount(k)
                                                     THEN RowCount(k) ELSE None]
    BY <1>0 DEF CompareCounts, Recs
  <2>5. Compare => /\ rec'.orphans = rec.listed \ Indexed
                   /\ rec'.dangling = {k \in Keys \ rec.listed : index[k] # None /\ index[k].ref = 0}
                   /\ rec'.orphanRows = RowKeys \ (Indexed \cup rec.listed)
                   /\ rec'.missing = (RowKeys \ Indexed) \cap rec.listed
    BY <1>0 DEF Compare, Recs
  <2>6. Listed' /\ Undisturbed'
    BY <2>1, <2>2, <2>3, SameTables DEF Reported, Listed, Gathering, Undisturbed
  <2>7. Matched'
    <3>1. CASE Compare
      BY <2>1, <2>5, <3>1, SameTables DEF Matched
    <3>2. CASE ~Compare
      BY <2>1, <2>2, <2>3, <3>2, SameTables DEF Reported, Matched, Gathering
    <3> QED
      BY <3>1, <3>2
  <2>8. Tallied'
    BY <1>2, <2>1, <2>2, <2>3, <2>4, SameTables DEF Reported, Tallied
  <2>9. RepairedKeys'
    BY <2>3 DEF RepairedKeys
  <2> QED
    BY <2>6, <2>7, <2>8, <2>9 DEF PassInv, Reported
<1>7. CASE CheckFailed
  <2>1. PICK C \in SUBSET AllThere :
          rec' = [rec EXCEPT !.step = "compared", !.suspect = {}, !.complete = C, !.fail = CompletedNoRows]
    BY <1>7 DEF CheckFailed
  <2>2. /\ rec'.step = "compared"
        /\ UNCHANGED <<rec.listed, rec.kept, rec.orphans, rec.dangling, rec.orphanRows, rec.missing,
                       rec.refs>>
    BY <1>0, <2>1 DEF Recs
  <2>3. rec.step = "checking" /\ overlaps = 0 /\ UNCHANGED <<oss, index, synthetic, rows, phase, gc>>
    BY <1>7 DEF CheckFailed, counts, tables
  <2>4. Indexed' = Indexed /\ RowKeys' = RowKeys /\ \A k \in Keys : RowCount(k)' = RowCount(k)
    BY <2>3 DEF Indexed, RowKeys, RowCount
  <2>5. Undisturbed' /\ Listed' /\ RepairedKeys'
    BY <2>2, <2>3 DEF PassInv, Undisturbed, Reported, Listed, Gathering, RepairedKeys
  <2>6. Matched' /\ Tallied'
    BY <2>2, <2>3, <2>4 DEF PassInv, Reported, Matched, Tallied, Gathering
  <2> QED
    BY <2>5, <2>6 DEF PassInv, Reported
<1>3. CASE ApplyFixes
  <2>1. rec.step = "compared" /\ overlaps = 0 /\ UNCHANGED <<phase, gc, oss>>
    BY <1>3 DEF ApplyFixes, counts
  <2>2. Undisturbed /\ Reported
    BY <2>1 DEF PassInv
  <2>3. CASE rec' = NoRec
    BY <2>3 DEF NoRec, PassInv, Undisturbed, Reported, Listed, Matched, Tallied, Gathering, RepairedKeys
  <2>4. ASSUME NEW r \in CarriedOut, FixTables(r),
               rec' = [rec EXCEPT !.step = "sweep", !.partial = (r # rec), !.applied = FixesDue(r)]
        PROVE  PassInv'
    <3>1. /\ rec'.step = "sweep" /\ rec'.partial = (r # rec)
          /\ UNCHANGED <<rec.listed, rec.orphans, rec.kept, rec.missing, rec.refs>>
      BY <1>0, <2>4 DEF Recs
    <3>2. ASSUME ~rec'.partial PROVE \A k \in Keys : Repaired(k)'
      BY <2>1, <2>2, <2>4, <3>1, <3>2, FixesRepair
    <3>3. ASSUME NEW k \in rec'.orphans PROVE index'[k] = None
      <4>1. k \in Keys /\ index[k] = None
        BY <1>0, <2>1, <2>2, <3>1, <3>3 DEF Recs, Reported, Matched, Indexed
      <4> QED
        BY <2>4, <4>1 DEF FixTables, FixedRow
    <3> QED
      BY <2>1, <2>2, <3>1, <3>2, <3>3
         DEF PassInv, Undisturbed, Reported, Listed, Matched, Tallied, Gathering, RepairedKeys
  <2> QED
    BY <1>3, <2>3, <2>4 DEF ApplyFixes
<1>4. ASSUME NEW k \in Keys, SweepObject(k) PROVE PassInv'
  <2>1. /\ rec.step = "sweep" /\ overlaps = 0 /\ k \in rec.orphans
        /\ UNCHANGED <<phase, gc, index, synthetic, rows>>
    BY <1>4 DEF SweepObject, counts, tables
  <2>2. Undisturbed /\ RepairedKeys /\ index[k] = None
    BY <2>1 DEF PassInv, RepairedKeys
  <2>3. /\ rec'.step = "sweep"
        /\ UNCHANGED <<rec.refs, rec.listed, rec.missing, rec.partial>>
        /\ rec'.orphans = rec.orphans \ {k}
        /\ \/ rec'.kept = rec.kept /\ oss' = [oss EXCEPT ![k] = None]
           \/ rec'.kept = rec.kept \cup {k} /\ UNCHANGED oss
    <3>1. \/ rec' = [rec EXCEPT !.orphans = @ \ {k}, !.applied = TRUE]
             /\ oss' = [oss EXCEPT ![k] = None]
          \/ rec' = [rec EXCEPT !.orphans = @ \ {k}, !.kept = @ \cup {k}] /\ UNCHANGED oss
      BY <1>4 DEF SweepObject
    <3> QED
      BY <1>0, <2>1, <3>1 DEF Recs
  <2>4. ASSUME ~rec'.partial, NEW j \in Keys PROVE Repaired(j)'
    <3>0. Repaired(j)
      BY <2>1, <2>2, <2>3, <2>4 DEF RepairedKeys
    <3>1. RowCount(j)' = RowCount(j) /\ Indexed' = Indexed /\ RowKeys' = RowKeys
      BY <2>1 DEF RowCount, Indexed, RowKeys
    <3>2. CASE j = k
      <4>1. oss'[k] = None \/ (k \in rec'.kept /\ oss'[k] = oss[k])
        BY <2>3, PipelineParts
      <4> QED
        BY <2>1, <2>2, <2>3, <3>0, <3>1, <3>2, <4>1 DEF Repaired
    <3>3. CASE j # k
      <4>1. oss'[j] = oss[j]
        BY <2>3, <3>3, PipelineParts
      <4> QED
        BY <2>1, <2>3, <3>0, <3>1, <3>3, <4>1 DEF Repaired
    <3> QED
      BY <3>2, <3>3
  <2>5. \A j \in rec'.orphans : index'[j] = None
    BY <2>1, <2>2, <2>3 DEF RepairedKeys
  <2> QED
    BY <2>1, <2>2, <2>3, <2>4, <2>5
       DEF PassInv, Undisturbed, Reported, Listed, Matched, Tallied, Gathering, RepairedKeys
<1>5. CASE TimeOutReconcile
  <2>1. rec'.step \in {"idle", "cut"}
    <3>1. \/ rec' = NoRec
          \/ \E a \in {FALSE, FixesDue(rec)} : rec' = [rec EXCEPT !.step = "cut", !.applied = a]
          \/ rec' = [rec EXCEPT !.step = "cut"]
      BY <1>5 DEF TimeOutReconcile
    <3>2. NoRec.step = "idle" /\ [rec EXCEPT !.step = "cut"].step = "cut"
      BY <1>0 DEF NoRec, Recs
    <3>3. ASSUME NEW a, rec' = [rec EXCEPT !.step = "cut", !.applied = a]
          PROVE  rec'.step = "cut"
      BY <1>0, <3>3 DEF Recs
    <3> QED
      BY <3>1, <3>2, <3>3
  <2>2. overlaps = 0 /\ UNCHANGED <<phase, gc>> /\ rec.step # "idle"
    BY <1>5 DEF TimeOutReconcile, counts, Gathering
  <2> QED
    BY <2>1, <2>2 DEF PassInv, Undisturbed, Reported, Listed, Matched, Tallied, Gathering, RepairedKeys
<1>6. CASE PushRepaired
  <2>1. rec'.step = "idle"
    BY <1>6 DEF PushRepaired, NoRec
  <2> QED
    BY <2>1 DEF PassInv, Undisturbed, Reported, Listed, Matched, Tallied, Gathering, RepairedKeys
<1> QED
  BY <1>1, <1>2, <1>3, <1>4, <1>5, <1>6, <1>7 DEF Reconciliation

\* A pass that met nobody, was not cut short and had no statement fail leaves counts,
\* rows and objects that agree, whatever they were before and whatever deletion failed:
\* its report stays true until the fixes, and no fix or deletion undoes another, but for
\* the keys of fix 3, whose objects the same report has deleted.
THEOREM PassRepairsCorrect ==
  ASSUME "loss" \notin Faults
  PROVE  MSpec => PassRepairs
<1>1. MInit => PassInv
  BY DEF MInit, NoRec, PassInv, Undisturbed, Reported, Listed, Matched, Tallied, Gathering, RepairedKeys
<1>2. MInv /\ PassInv /\ [MNext]_mvars => PassInv'
  BY CollectionPass, ReconciliationPass, PipelinePass
<1>3. MInv /\ PassInv =>
        (overlaps = 0 /\ ~rec.partial /\ rec.step = "sweep" /\ rec.orphans = {} /\ rec'.step = "idle" =>
           \A k \in Keys :
             /\ index[k] # None => /\ index[k].ref = Cardinality({r \in rows : r.key = k})
                                   /\ index[k].ref = 0 => oss[k] # None \/ rec.refs[k] = 0
             /\ oss[k] # None => index[k] # None \/ k \in synthetic \cup rec.kept
             /\ k \in rec.listed \cap (Indexed \cup RowKeys) => oss[k] # None \/ k \in rec.missing)
  BY DEF PassInv, RepairedKeys, Repaired, RowCount
<1> QED
  BY <1>1, <1>2, <1>3, MaintenanceInvariant, PTL DEF MSpec, PassRepairs


-----------------------------------------------------------------------------
(* Cancelled sessions, beside maintenance. *)

\* Collections and reconciliations remove rows and call sessions completed or failed,
\* never cancelled.
LEMMA BesideOwned ==
  ASSUME RowsOwned, UNCHANGED <<phase, job>>, rows' \subseteq rows,
         DOMAIN backups' = DOMAIN backups,
         \A i \in DOMAIN backups : backups'[i] = "cancelled" => backups[i] = "cancelled",
         MInv, snap' \in {snap, None} \/ (snap' = Database /\ UNCHANGED <<rows, backups>>)
  PROVE  RowsOwned'
<1>1. Owned(rows', backups')
  BY DEF RowsOwned, Owned
<1>2. snap' # None => Owned(snap'.rows, snap'.backups)
  <2>1. CASE snap' \in {snap, None}
    BY <2>1 DEF RowsOwned
  <2>2. CASE snap' = Database /\ UNCHANGED <<rows, backups>>
    BY <2>2 DEF RowsOwned, Database
  <2> QED
    BY <2>1, <2>2
<1>3. phase \in Working => job.cur \in DOMAIN backups
  <2> SUFFICES ASSUME phase \in Working PROVE job.cur \in DOMAIN backups
    OBVIOUS
  <2>1. backups \in Seq(Statuses) /\ job.cur = Len(backups) /\ backups # << >>
    BY DEF MInv, MaintenanceTypeOK, TypeOK, Started
  <2> QED
    BY <2>1, EmptySeq, LenProperties
<1> QED
  BY <1>1, <1>2, <1>3 DEF RowsOwned

LEMMA MaintenanceOwned ==
  ASSUME "hardError" \notin Faults
  PROVE  MInv /\ RowsOwned /\ [MNext]_mvars => RowsOwned'
<1> SUFFICES ASSUME MInv, RowsOwned, [MNext]_mvars PROVE RowsOwned'
  OBVIOUS
<1>0. TypeInv
  BY DEF MInv, MaintenanceTypeOK, TypeInv
<1>1. CASE PipelineStep
  BY <1>0, <1>1, PipelineNext, NextOwned
<1>2. CASE \E p \in Paths : DedupFails(p)
  <2>1. CASE Abort
    <3>1. phase \in Early
      BY <1>2 DEF DedupFails, Early
    <3> QED
      BY <1>0, <2>1, <3>1, AbortOwned
  <2>2. CASE EndUnrecorded
    BY <2>2 DEF EndUnrecorded, EndSession, tables, RowsOwned, Working, Early
  <2> QED
    BY <1>2, <2>1, <2>2 DEF DedupFails
<1>3. CASE Collection
  BY <1>3, BesideOwned DEF Collection, StartGC, CollectObject, FinishGC, TimeOutGC, vars, tables
<1>4. CASE ApplyFixes
  <2>1. CASE UNCHANGED tables
    BY <1>4, <2>1, BesideOwned DEF ApplyFixes, tables
  <2>2. ASSUME NEW r \in CarriedOut, FixTables(r) PROVE RowsOwned'
    <3>1. /\ DOMAIN backups' = DOMAIN backups /\ rows' \subseteq rows
          /\ \A i \in DOMAIN backups : backups'[i] \in {backups[i], "failed", "completed"}
      BY <2>2 DEF FixTables
    <3> QED
      BY <1>4, <3>1, BesideOwned DEF ApplyFixes
  <2> QED
    BY <1>4, <2>1, <2>2 DEF ApplyFixes, tables
<1>5. CASE PushRepaired
  BY <1>5, BesideOwned DEF PushRepaired, PushFailed, Tear, tables
<1>6. CASE \/ StartReconcile \/ Compare \/ CompareCounts \/ ListFailed \/ CheckFailed
           \/ TimeOutReconcile \/ \E k \in Keys : SweepObject(k)
  BY <1>6, BesideOwned DEF StartReconcile, Compare, CompareCounts, ListFailed, CheckFailed,
     TimeOutReconcile, SweepObject, vars, tables
<1> QED
  BY <1>1, <1>2, <1>3, <1>4, <1>5, <1>6, StepParts DEF Reconciliation

\* A cancelled session has no row beside collections and reconciliations either:
\* what they set right, call completed or push never gives it one.
THEOREM MaintainedCancellations ==
  ASSUME "hardError" \notin Faults
  PROVE  MSpec => []CancelledLeavesNoRows
<1>1. MInit => RowsOwned
  BY DEF MInit, Init, RowsOwned, Owned, Working, Early
<1>2. RowsOwned => CancelledLeavesNoRows
  BY DEF RowsOwned, Owned, CancelledLeavesNoRows
<1> QED
  BY <1>1, <1>2, MaintenanceOwned, MaintenanceInvariant, PTL DEF MSpec

-----------------------------------------------------------------------------
(* The contents on the disk keep their objects. *)

\* The contents on the disk that never appear twice, and those there ever were.
OnDisk == {disk[p] : p \in Paths} \ (Reuse \cup {None})
Past == seen \cup {NoHash}

\* Of the three tables of a database: a file has no other file's content; a hash row
\* of such a content is not orphaned and has its object; a row has its hash row.
OwnContent(p, h) == h \in Past /\ (h \in OnDisk => h = disk[p])
Counted(k, ix) == k \in Past /\ (k \in OnDisk => ix[k] # None)
KeptIn(fs, ix, R) ==
  /\ \A p \in Paths : fs[p] # None => OwnContent(p, fs[p].hash)
  /\ \A k \in Keys : ix[k] # None => k \in Past /\ (k \in OnDisk => ~ix[k].orphaned /\ oss[k] # None)
  /\ \A r \in R : Counted(r.key, ix)

DiskOwned ==
  \A p \in Paths : /\ disk[p] \in seen \cup {None}
                   /\ \A q \in Paths : disk[p] \in OnDisk /\ disk[q] = disk[p] => p = q

\* What the snapshot would bring back is not taken away meanwhile.
Databases ==
  /\ KeptIn(files, index, rows)
  /\ snap # None => /\ KeptIn(snap.files, snap.index, snap.rows)
                    /\ \A k \in OnDisk : snap.index[k] # None => index[k] # None

\* The files of the session whose content has a hash row.
Referenced == job.pending \cup job.skipped \cup ((job.upload \cup InHand) \ job.fresh)

\* The session gives up references only to contents that left the disk.
SessionKept ==
  /\ phase \in {"idle", "down"} => job = NoJob
  /\ \A p \in Paths : OwnContent(p, job.hash[p])
  /\ \A p \in Paths : job.kind[p] = "deleted" => HashOf(p) \notin OnDisk
  /\ \A p \in job.gone : job.kind[p] = "deleted"
  /\ \A p \in Waiting \cup InHand : job.kind[p] # "deleted"
  /\ phase \in {"scan", "hash", "check"} => Waiting \cup InHand = {}
  /\ phase \in {"scan", "hash"} => job.gone = {}
  /\ \A p \in Referenced : Counted(job.hash[p], index)
  /\ \A r \in job.batch : Counted(r.key, index)

Safe == DiskOwned /\ Databases /\ SessionKept

\* A collection has only contents that left the disk, for good.
Collecting == gc.todo \cup gc.done \subseteq Past \ OnDisk

KeepInv == overlaps = 0 => Safe /\ Collecting

LEMMA OnDiskType ==
  ASSUME TypeOK
  PROVE  OnDisk \subseteq Hashes /\ None \notin OnDisk /\ NoHash \notin OnDisk /\ Hashes \subseteq Keys
BY NamesAssumption DEF TypeOK, OnDisk, Keys

LEMMA TablesStay ==
  ASSUME TypeOK, Databases, UNCHANGED <<disk, seen>>,
         \A p \in Paths : files'[p] # None =>
              \/ files[p] # None /\ files'[p].hash = files[p].hash
              \/ OwnContent(p, files'[p].hash),
         \A k \in Keys : index'[k] # None =>
              \/ index[k] # None /\ (k \in OnDisk /\ index'[k].orphaned => index[k].orphaned)
              \/ k \in Past /\ (k \in OnDisk => ~index'[k].orphaned /\ oss'[k] # None),
         \A k \in OnDisk : index[k] # None => index'[k] # None /\ (oss[k] # None => oss'[k] # None),
         \A r \in rows' : r \in rows \/ Counted(r.key, index'),
         snap' \in {snap, None, Database}
  PROVE  Databases'
<1>0. OnDisk' = OnDisk /\ Past' = Past /\ OnDisk \subseteq Keys
  BY OnDiskType DEF OnDisk, Past
<1>1. \A p \in Paths : files'[p] # None => OwnContent(p, files[p].hash)'
  BY <1>0 DEF Databases, KeptIn, OwnContent
<1>2. ASSUME NEW k \in Keys, index'[k] # None
      PROVE  k \in Past /\ (k \in OnDisk => ~index'[k].orphaned /\ oss'[k] # None)
  BY <1>2 DEF Databases, KeptIn
<1>3. \A r \in rows' : Counted(r.key, index)'
  BY <1>0 DEF Databases, KeptIn, Counted
<1>4. KeptIn(files, index, rows)'
  BY <1>0, <1>1, <1>2, <1>3 DEF KeptIn
<1>5. CASE snap' = snap
  <2> SUFFICES ASSUME snap # None
               PROVE  /\ KeptIn(snap.files, snap.index, snap.rows)'
                      /\ \A k \in OnDisk' : snap'.index[k] # None => index'[k] # None
    BY <1>4, <1>5 DEF Databases
  <2>1. \A k \in OnDisk : snap.index[k] # None => index[k] # None
    BY DEF Databases
  <2>2. \A k \in OnDisk : snap.index[k] # None => oss'[k] # None
    BY <1>0, <2>1 DEF Databases, KeptIn
  <2> QED
    BY <1>0, <1>5, <2>1, <2>2 DEF Databases, KeptIn, OwnContent, Counted
<1>6. CASE snap' = None
  BY <1>4, <1>6 DEF Databases
<1>7. CASE snap' = Database
  <2>1. snap'.files = files /\ snap'.index = index /\ snap'.rows = rows
    BY <1>7 DEF Database
  <2>2. \A p \in Paths : files[p] # None => OwnContent(p, files[p].hash)
    BY DEF Databases, KeptIn
  <2>3. \A k \in Keys : index[k] # None =>
           k \in Past /\ (k \in OnDisk => ~index[k].orphaned /\ oss'[k] # None)
    BY DEF Databases, KeptIn
  <2>4. \A r \in rows : r.key \in Past /\ (r.key \in OnDisk => index[r.key] # None)
    BY DEF Databases, KeptIn, Counted
  <2>5. KeptIn(snap.files, snap.index, snap.rows)'
    BY <1>0, <2>1, <2>2, <2>3, <2>4 DEF KeptIn, OwnContent, Counted
  <2> QED
    BY <1>0, <1>4, <2>1, <2>5 DEF Databases
<1> QED
  BY <1>5, <1>6, <1>7

\* A pull: the tables of the snapshot, or those there were.
LEMMA LoadedKept ==
  ASSUME Databases, UNCHANGED <<disk, seen, oss, snap>>,
         \/ UNCHANGED <<files, index, rows>>
         \/ snap # None /\ files' = snap.files /\ index' = snap.index /\ rows' = snap.rows
  PROVE  Databases'
<1>0. OnDisk' = OnDisk /\ Past' = Past
  BY DEF OnDisk, Past
<1> QED
  BY <1>0 DEF Databases, KeptIn, OwnContent, Counted

\* Inside a session, once its files are sorted.
LEMMA SessionStays ==
  ASSUME TypeOK, SessionKept, UNCHANGED <<disk, seen, job.hash, job.kind>>,
         phase \in Sorted, phase' \in Sorted,
         job'.gone \subseteq job.gone, (Waiting \cup InHand)' \subseteq Waiting \cup InHand,
         Referenced' \subseteq Referenced,
         \A p \in Paths : job.kind[p] = "deleted" => HashOf(p)' = HashOf(p),
         \A k \in OnDisk : index[k] # None => index'[k] # None,
         \A r \in job'.batch : r \in job.batch \/ Counted(r.key, index')
  PROVE  SessionKept'
<1>0. OnDisk' = OnDisk /\ Past' = Past
  BY DEF OnDisk, Past
<1>1. phase' \notin {"idle", "down", "scan", "hash", "check"}
  BY DEF Sorted, Hashed
<1>2. \A p \in Paths : OwnContent(p, job.hash[p])' /\ (job'.kind[p] = "deleted" => HashOf(p)' \notin OnDisk')
  BY <1>0 DEF SessionKept, OwnContent
<1>3. \A p \in Referenced' : Counted(job.hash[p], index)'
  BY <1>0 DEF SessionKept, Counted
<1>4. \A r \in job'.batch : Counted(r.key, index)'
  BY <1>0 DEF SessionKept, Counted
<1> QED
  BY <1>0, <1>1, <1>2, <1>3, <1>4 DEF SessionKept

\* Without a session.
LEMMA NoSessionKept ==
  ASSUME TypeOK, job' = NoJob, UNCHANGED disk, phase' \in {"idle", "down"}
  PROVE  SessionKept'
<1>0. NoHash \notin OnDisk' /\ NoHash \in Past'
  BY OnDiskType DEF OnDisk, Past
<1>1. /\ job'.hash = [p \in Paths |-> NoHash] /\ job'.kind = [p \in Paths |-> "none"]
      /\ job'.gone = {} /\ job'.pending = {} /\ job'.upload = {} /\ job'.skipped = {}
      /\ job'.item = None /\ job'.batch = {}
  BY DEF NoJob
<1>2. (Waiting \cup InHand)' = {} /\ Referenced' = {}
  BY <1>1 DEF Waiting, InHand, Referenced
<1> QED
  BY <1>0, <1>1, <1>2 DEF SessionKept, OwnContent

LEMMA SafeAgain ==
  ASSUME Safe, UNCHANGED <<disk, seen>>, Databases', SessionKept'
  PROVE  Safe'
BY DEF Safe, DiskOwned, OnDisk

LEMMA StartSafe ==
  ASSUME TypeInv, Safe, StartBackup
  PROVE  Safe'
<1>0. TypeOK /\ UNCHANGED <<disk, seen, oss, snap>> /\ phase' = "scan"
  BY DEF StartBackup, TypeInv
<1>1. Databases'
  BY <1>0, LoadedKept DEF StartBackup, LoadDatabase, Pulled, Database, Safe
<1>2. /\ job'.hash = [p \in Paths |-> NoHash] /\ job'.kind = [p \in Paths |-> "none"]
      /\ job'.gone = {} /\ job'.batch = {}
      /\ (Waiting \cup InHand)' = {} /\ Referenced' = {}
  BY StartLocals DEF Waiting, InHand, Referenced
<1>3. NoHash \notin OnDisk' /\ NoHash \in Past'
  BY <1>0, OnDiskType DEF OnDisk, Past
<1>4. SessionKept'
  BY <1>0, <1>2, <1>3 DEF SessionKept, OwnContent
<1> QED
  BY <1>0, <1>1, <1>4, SafeAgain

LEMMA RestartSafe ==
  ASSUME TypeInv, Safe, Restart
  PROVE  Safe'
<1>0. TypeOK /\ UNCHANGED <<disk, seen, oss, snap, job>> /\ phase = "down" /\ phase' = "idle"
  BY DEF Restart, TypeInv
<1>1. Cleaned.files = files /\ Cleaned.index = index /\ Cleaned.rows = rows
  BY DEF Cleaned, Database
<1>2. Databases'
  BY <1>0, <1>1, LoadedKept DEF Restart, LoadDatabase, Pulled, Safe
<1>3. SessionKept'
  BY <1>0, NoSessionKept DEF Safe, SessionKept
<1> QED
  BY <1>0, <1>2, <1>3, SafeAgain

\* Until the files are sorted the tables stay as they are.
LEMMA ScanSafe ==
  ASSUME "walkError" \notin Faults, TypeInv, Safe, Scan
  PROVE  Safe'
<1>0. /\ TypeOK /\ UNCHANGED <<disk, seen, oss, snap, files, index, rows>>
      /\ phase = "scan" /\ phase' = "hash"
  BY DEF Scan, TypeInv
<1>1. Databases'
  BY <1>0, LoadedKept DEF Safe
<1>2. /\ UNCHANGED <<job.hash, job.pending, job.upload, job.fresh, job.skipped, job.gone, job.item,
                     job.batch>>
      /\ \A p \in Paths : job'.kind[p] \in KindsOf(p)
  BY ScanLocals DEF Fault
<1>3. ASSUME NEW p \in Paths, job'.kind[p] = "deleted" PROVE HashOf(p) \notin OnDisk
  <2>1. disk[p] = None /\ files[p] # None
    BY <1>2, <1>3 DEF KindsOf, IsActive
  <2> QED
    BY <2>1 DEF HashOf, OnDisk, Safe, Databases, KeptIn, OwnContent
<1>4. OnDisk' = OnDisk /\ Past' = Past /\ \A p \in Paths : HashOf(p)' = HashOf(p)
  BY <1>0 DEF OnDisk, Past, HashOf
<1>5. Waiting' = {} /\ InHand' = {} /\ Referenced' = {} /\ job'.gone = {}
  BY <1>0, <1>2 DEF Safe, SessionKept, Waiting, InHand, Referenced
<1>6. SessionKept'
  BY <1>0, <1>2, <1>3, <1>4, <1>5 DEF Safe, SessionKept, OwnContent, Counted
<1> QED
  BY <1>0, <1>1, <1>6, SafeAgain

LEMMA HashSafe ==
  ASSUME TypeInv, Safe, ComputeHashes
  PROVE  Safe'
<1>0. /\ TypeOK /\ UNCHANGED <<disk, seen, oss, snap, files, index, rows>>
      /\ phase = "hash" /\ phase' = "check"
  BY DEF ComputeHashes, TypeInv, tables
<1>1. Databases'
  BY <1>0, LoadedKept DEF Safe
<1>2. /\ UNCHANGED <<job.kind, job.pending, job.upload, job.fresh, job.skipped, job.item, job.batch>>
      /\ job'.gone = {p \in Paths : job.kind[p] = "deleted"}
  BY HashLocals
<1>3. PICK E : job'.hash = [p \in Paths |-> NewHash(p, E)]
  BY HashLocals
<1>4. ASSUME NEW p \in Paths PROVE OwnContent(p, job'.hash[p])
  <2>1. CASE job.kind[p] = "unchanged"
    <3>1. files[p] # None /\ job'.hash[p] = files[p].hash
      BY <1>0, <1>3, <2>1 DEF NewHash, TypeInv, Compared
    <3> QED
      BY <3>1 DEF Safe, Databases, KeptIn
  <2>2. CASE job'.hash[p] = disk[p] /\ disk[p] # None
    BY <2>2 DEF Safe, DiskOwned, Past, OwnContent
  <2>3. CASE job'.hash[p] = NoHash
    BY <1>0, <2>3, OnDiskType DEF Past, OwnContent
  <2> QED
    BY <1>3, <2>1, <2>2, <2>3 DEF NewHash
<1>5. OnDisk' = OnDisk /\ Past' = Past /\ \A p \in Paths : HashOf(p)' = HashOf(p)
  BY <1>0 DEF OnDisk, Past, HashOf
<1>6. Waiting' = {} /\ InHand' = {} /\ Referenced' = {}
  BY <1>0, <1>2 DEF Safe, SessionKept, Waiting, InHand, Referenced
<1>7. \A p \in Paths : OwnContent(p, job.hash[p])'
  BY <1>0, <1>4, <1>5 DEF OwnContent
<1>8. SessionKept'
  BY <1>0, <1>2, <1>5, <1>6, <1>7 DEF Safe, SessionKept, Counted
<1> QED
  BY <1>0, <1>1, <1>8, SafeAgain

LEMMA CheckSafe ==
  ASSUME TypeInv, Safe, CheckObjects
  PROVE  Safe'
<1>0. /\ TypeOK /\ UNCHANGED <<disk, seen, oss, snap, files, index, rows>>
      /\ phase = "check" /\ phase' = "dedup"
  BY DEF CheckObjects, TypeInv, tables
<1>1. Databases'
  BY <1>0, LoadedKept DEF Safe
<1>2. /\ UNCHANGED <<job.kind, job.hash, job.gone, job.skipped, job.item, job.batch>>
      /\ job'.upload = NewContents /\ job'.fresh = NewContents
      /\ job'.pending = Present \ NewContents
  BY CheckLocals
<1>3. OnDisk' = OnDisk /\ Past' = Past /\ \A p \in Paths : HashOf(p)' = HashOf(p)
  BY <1>0 DEF OnDisk, Past, HashOf
<1>4. job.skipped = {} /\ InHand = {} /\ InHand' = {}
  BY <1>0, <1>2 DEF Safe, SessionKept, Waiting, InHand
<1>5. Waiting' \subseteq Present /\ Referenced' = Present \ NewContents
  BY <1>2, <1>4 DEF Waiting, Referenced, NewContents
<1>6. \A p \in Present : p \in Paths /\ job'.kind[p] # "deleted"
  BY <1>2 DEF Present
<1>7. \A p \in Referenced' : Counted(job.hash[p], index)'
  BY <1>0, <1>2, <1>3, <1>5, <1>6 DEF NewContents, Safe, SessionKept, OwnContent, Counted
<1>8. SessionKept'
  BY <1>0, <1>2, <1>3, <1>4, <1>5, <1>6, <1>7 DEF Safe, SessionKept, OwnContent, Counted
<1> QED
  BY <1>0, <1>1, <1>8, SafeAgain

\* A file of the session gets its own content, and is not one that was deleted.
LEMMA UpsertSafe ==
  ASSUME TypeOK, Safe, NEW p \in Paths, p \in Waiting \cup InHand, UNCHANGED <<disk, seen>>,
         files' \in {files, UpsertFile(p, job.hash[p]), UpsertMarked(p, job.hash[p], "success"),
                    UpsertMarked(p, job.hash[p], "failed")}
  PROVE  /\ \A q \in Paths : files'[q] # None =>
              \/ files[q] # None /\ files'[q].hash = files[q].hash
              \/ OwnContent(q, files'[q].hash)
         /\ \A q \in Paths : job.kind[q] = "deleted" => HashOf(q)' = HashOf(q)
<1>0. job.hash[p] \in Keys
  BY DEF TypeOK, Jobs
<1>1. CASE files' = files
  BY <1>1 DEF HashOf
<1>2. CASE files' # files
  <2>1. files'[p].hash = job.hash[p] /\ \A q \in Paths \ {p} : files'[q] = files[q]
    BY <1>0, <1>2, UpsertedRow
  <2>2. OwnContent(p, job.hash[p]) /\ job.kind[p] # "deleted"
    BY DEF Safe, SessionKept
  <2> QED
    BY <2>1, <2>2 DEF HashOf
<1> QED
  BY <1>1, <1>2

\* A step inside a session, once its files are sorted, that leaves the hash rows alone.
LEMMA QuietSafe ==
  ASSUME TypeInv, Safe, UNCHANGED <<disk, seen, index, snap, job.hash, job.kind>>,
         phase \in Sorted, phase' \in Sorted,
         job'.gone \subseteq job.gone, (Waiting \cup InHand)' \subseteq Waiting \cup InHand,
         Referenced' \subseteq Referenced,
         \A p \in Paths : files'[p] # None =>
              \/ files[p] # None /\ files'[p].hash = files[p].hash
              \/ OwnContent(p, files'[p].hash),
         \A p \in Paths : job.kind[p] = "deleted" => HashOf(p)' = HashOf(p),
         \A k \in OnDisk : oss[k] # None => oss'[k] # None,
         \A r \in job'.batch : r \in job.batch \/ Counted(r.key, index),
         rows' \subseteq rows \cup job.batch
  PROVE  Safe'
<1>0. TypeOK
  BY DEF TypeInv
<1>1. \A r \in rows' : r \in rows \/ Counted(r.key, index)
  BY DEF Safe, SessionKept
<1>2. \A k \in Keys : index'[k] # None => index[k] # None /\ (index'[k].orphaned => index[k].orphaned)
  OBVIOUS
<1>3. \A k \in OnDisk : index[k] # None => index'[k] # None /\ (oss[k] # None => oss'[k] # None)
  OBVIOUS
<1>4. \A r \in rows' : r \in rows \/ Counted(r.key, index')
  BY <1>1 DEF Counted
<1>5. Databases'
  BY <1>0, <1>2, <1>3, <1>4, TablesStay DEF Safe
<1>6. \A r \in job'.batch : r \in job.batch \/ Counted(r.key, index')
  BY DEF Counted
<1>7. SessionKept'
  BY <1>0, <1>3, <1>6, SessionStays DEF Safe
<1> QED
  BY <1>5, <1>7, SafeAgain

LEMMA SealSafe ==
  ASSUME TypeInv, Safe, NEW p \in Paths, SealFile(p)
  PROVE  Safe'
<1>0. /\ TypeOK /\ UNCHANGED <<disk, seen, oss, snap, index, rows, phase>> /\ phase = "upload"
      /\ job.item = None /\ p \in job.upload /\ files' = UpsertFile(p, job.hash[p])
  BY DEF SealFile, TypeInv
<1>1. /\ UNCHANGED <<job.kind, job.hash, job.pending, job.fresh, job.skipped, job.gone, job.batch>>
      /\ job'.upload = job.upload \ {p}
      /\ job'.item.path = p /\ job'.item # None
  <2>1. job'.item = [path |-> p, content |-> disk[p], iv |-> <<runs, p>>,
                     comp |-> p \in Compressible, stored |-> FALSE]
    BY SealLocals
  <2>2. job'.item \in Items
    BY <2>1, SealItem
  <2>3. job'.item # None
    BY <2>2, NoneAssumption
  <2>4. job'.item.path = p
    BY <2>1
  <2> QED
    BY <2>3, <2>4, SealLocals
<1>2. InHand = {} /\ InHand' = {p}
  BY <1>0, <1>1 DEF InHand
<1>3. (Waiting \cup InHand)' \subseteq Waiting \cup InHand /\ Referenced' \subseteq Referenced
  BY <1>0, <1>1, <1>2 DEF Waiting, Referenced
<1> QED
  BY <1>0, <1>1, <1>3, UpsertSafe, QuietSafe DEF Waiting, Sorted, Hashed

LEMMA FailSafe ==
  ASSUME TypeInv, Safe, NEW p \in Paths, phase = "upload", FileFails(p) \/ FailUnmarked(p),
         p \in job.upload \cup InHand
  PROVE  Safe'
<1>0. /\ TypeOK /\ UNCHANGED <<disk, seen, oss, snap, index, rows, phase>>
      /\ files' \in {files, UpsertFile(p, job.hash[p]), UpsertMarked(p, job.hash[p], "failed")}
  BY DEF FileFails, FailUnmarked, TypeInv
<1>1. /\ UNCHANGED <<job.kind, job.hash, job.pending, job.fresh, job.skipped, job.gone, job.batch>>
      /\ job'.upload = job.upload \ {p} /\ job'.item = None
  BY FailLocals, UnmarkedLocals
<1>2. InHand' = {}
  BY <1>1 DEF InHand
<1>3. (Waiting \cup InHand)' \subseteq Waiting \cup InHand /\ Referenced' \subseteq Referenced
  BY <1>0, <1>1, <1>2 DEF Waiting, Referenced
<1> QED
  BY <1>0, <1>1, <1>3, UpsertSafe, QuietSafe DEF Waiting, Sorted, Hashed

LEMMA UploadSafe ==
  ASSUME TypeInv, Safe, UploadObject
  PROVE  Safe'
<1>0. /\ TypeOK /\ UNCHANGED <<disk, seen, snap, files, index, rows, phase>> /\ phase = "upload"
      /\ job.item # None
  BY DEF UploadObject, TypeInv, tables
<1>1. /\ UNCHANGED <<job.kind, job.hash, job.pending, job.upload, job.fresh, job.skipped, job.gone,
                     job.batch, job.item.path>>
      /\ job'.item # None
  BY UploadLocals
<1>2. InHand' = InHand
  BY <1>0, <1>1 DEF InHand
<1>3. (Waiting \cup InHand)' = Waiting \cup InHand /\ Referenced' = Referenced
  BY <1>1, <1>2 DEF Waiting, Referenced
<1>4. \A k \in Keys : oss[k] # None => oss'[k] # None
  <2>1. ItemKey \in Keys /\ ItemObject # None
    BY <1>0, ItemType, NoneAssumption
  <2>2. oss' \in {oss, [oss EXCEPT ![ItemKey] = ItemObject]}
    BY DEF UploadObject, PutObject, ReuseNonce, OverwriteFrozen, UploadUnsure
  <2> QED
    BY <1>0, <2>1, <2>2 DEF TypeOK
<1>5. \A p \in Paths : HashOf(p)' = HashOf(p)
  BY <1>0 DEF HashOf
<1> QED
  BY <1>0, <1>1, <1>3, <1>4, <1>5, OnDiskType, QuietSafe DEF Sorted, Hashed

LEMMA SkipSafe ==
  ASSUME TypeInv, Safe, NEW p \in Paths, RecordSkipped(p) \/ SkipFails(p)
  PROVE  Safe'
<1>0. /\ TypeOK /\ UNCHANGED <<disk, seen, oss, snap, index, rows, phase>> /\ phase = "skip"
      /\ p \in job.skipped
      /\ files' \in {files, UpsertFile(p, job.hash[p]), UpsertMarked(p, job.hash[p], "success")}
  BY DEF RecordSkipped, SkipFails, TypeInv
<1>1. /\ UNCHANGED <<job.kind, job.hash, job.pending, job.upload, job.fresh, job.gone, job.item>>
      /\ job'.skipped = job.skipped \ {p}
  BY SkipLocals, SkipFailsLocals
<1>2. job'.batch = job.batch \/ \E m : job'.batch = job.batch \cup {RowOf(p, m)}
  BY SkipLocals, SkipFailsLocals
<1>3. (Waiting \cup InHand)' \subseteq Waiting \cup InHand /\ Referenced' \subseteq Referenced
  BY <1>1 DEF Waiting, InHand, Referenced
<1>4. \A r \in job'.batch : r \in job.batch \/ Counted(r.key, index)
  BY <1>0, <1>2 DEF RowOf, Safe, SessionKept, Referenced
<1> QED
  BY <1>0, <1>1, <1>3, <1>4, UpsertSafe, QuietSafe DEF Waiting, Sorted, Hashed

\* The steps that touch no object and no hash row, and no file of the session.
LEMMA CalmSafe ==
  ASSUME TypeInv, Safe,
         \/ DedupDone \/ UploadsDone \/ SkipsDone \/ AddBackupFiles \/ MarkDeleted \/ ReleasesDone
         \/ Complete \/ CompleteUnrecorded
  PROVE  Safe'
<1>0. /\ TypeOK /\ UNCHANGED <<disk, seen, oss, snap, index, job>>
      /\ phase \in Sorted /\ phase' \in Sorted
      /\ rows' \subseteq rows \cup job.batch
  BY DEF DedupDone, UploadsDone, SkipsDone, AddBackupFiles, MarkDeleted, ReleasesDone, Complete,
         CompleteUnrecorded, tables, TypeInv, Sorted, Hashed
<1>1. \A p \in Paths : HashOf(p)' = HashOf(p) /\ (files'[p] # None => files[p] # None)
  <2>1. CASE MarkDeleted
    <3> TAKE p \in Paths
    <3>1. files[p] # None => /\ files[p] \in FileRows
                             /\ [files[p] EXCEPT !.status = "deleted"] \in FileRows
                             /\ [files[p] EXCEPT !.status = "deleted"].hash = files[p].hash
      BY <1>0 DEF TypeOK, FileRows
    <3>2. files'[p] = IF p \in job.gone /\ files[p] # None
                      THEN [files[p] EXCEPT !.status = "deleted"] ELSE files[p]
      BY <2>1 DEF MarkDeleted
    <3> QED
      BY <3>1, <3>2, NoneAssumption DEF HashOf
  <2>2. CASE files' = files
    BY <2>2 DEF HashOf
  <2> QED
    BY <2>1, <2>2 DEF DedupDone, UploadsDone, SkipsDone, AddBackupFiles, ReleasesDone, Complete,
                          CompleteUnrecorded, tables
<1>2. \A p \in Paths : files'[p] # None => files[p] # None /\ files'[p].hash = files[p].hash
  BY <1>1 DEF HashOf
<1>3. (Waiting \cup InHand)' = Waiting \cup InHand /\ Referenced' = Referenced
  BY <1>0 DEF Waiting, InHand, Referenced
<1> QED
  BY <1>0, <1>1, <1>2, <1>3, QuietSafe

LEMMA DedupSafe ==
  ASSUME TypeInv, Safe, NEW p \in Paths, DedupFile(p)
  PROVE  Safe'
<1>0. /\ TypeOK /\ UNCHANGED <<disk, seen, oss, snap, files, rows, phase>> /\ phase = "dedup"
      /\ p \in job.pending /\ job.hash[p] \in Keys
  BY DEF DedupFile, TypeInv, TypeOK, Jobs
<1>1. /\ UNCHANGED <<job.kind, job.hash, job.fresh, job.gone, job.item, job.batch>>
      /\ job'.pending = job.pending \ {p}
      /\ job'.upload \subseteq job.upload \cup {p} /\ job'.skipped \subseteq job.skipped \cup {p}
  BY DedupLocals
<1>2. (Waiting \cup InHand)' \subseteq Waiting \cup InHand /\ Referenced' \subseteq Referenced
  BY <1>0, <1>1 DEF Waiting, InHand, Referenced
<1>3. ASSUME NEW k \in Keys
      PROVE  /\ index'[k] # None => index[k] # None /\ (index'[k].orphaned => index[k].orphaned)
             /\ index[k] # None => index'[k] # None
  <2>1. CASE index' = index
    BY <2>1
  <2>2. CASE index[job.hash[p]] # None /\ index' = IncrementRef(job.hash[p])
    <3>1. index[job.hash[p]] \in HashRows
      BY <1>0, <2>2 DEF TypeOK
    <3>2. k # job.hash[p] => index'[k] = index[k]
      BY <1>0, <2>2 DEF IncrementRef, TypeOK
    <3>3. index'[job.hash[p]] = [ref |-> index[job.hash[p]].ref + 1,
                                 orphaned |-> index[job.hash[p]].orphaned /\ index[job.hash[p]].ref # 0]
      BY <1>0, <2>2 DEF IncrementRef, TypeOK
    <3>4. index'[job.hash[p]].orphaned => index[job.hash[p]].orphaned
      BY <3>1, <3>3 DEF HashRows
    <3>5. Known' = Known
      BY <1>0, <2>2, KnownSteps DEF Known
    <3> QED
      BY <3>2, <3>4, <3>5 DEF Known
  <2> QED
    BY <2>1, <2>2 DEF DedupFile
<1>4. Databases'
  BY <1>0, <1>3, OnDiskType, TablesStay DEF Safe
<1>5. \A q \in Paths : HashOf(q)' = HashOf(q)
  BY <1>0 DEF HashOf
<1>6. SessionKept'
  BY <1>0, <1>1, <1>2, <1>3, <1>5, OnDiskType, SessionStays DEF Safe, Sorted, Hashed
<1> QED
  BY <1>0, <1>4, <1>6, SafeAgain

\* A new hash row comes after its object was verified.
LEMMA RecordSafe ==
  ASSUME TypeInv, Safe, RecordUpload
  PROVE  Safe'
<1>0. /\ TypeOK /\ UNCHANGED <<disk, seen, oss, snap, rows, phase>> /\ phase = "upload"
      /\ job.item # None /\ oss[ItemKey] # None
  BY DEF RecordUpload, Verified, TypeInv
<1>1. PICK p \in Paths : p = job.item.path
  BY <1>0, ItemType
<1>2. /\ ItemKey = job.hash[p] /\ ItemKey \in Keys /\ InHand = {p}
      /\ files' \in {files, UpsertMarked(p, job.hash[p], "success")}
      /\ index' = IF p \in job.fresh THEN UpsertHash(ItemKey) ELSE index
  BY <1>0, <1>1, ItemType DEF ItemKey, InHand, RecordUpload
<1>3. /\ UNCHANGED <<job.kind, job.hash, job.pending, job.upload, job.fresh, job.skipped, job.gone>>
      /\ job'.item = None
  BY RecordLocals
<1>4. PICK m : job'.batch = job.batch \cup {RowOf(p, m)}
  BY <1>1, RecordLocals
<1>5. (Waiting \cup InHand)' \subseteq Waiting \cup InHand /\ Referenced' \subseteq Referenced
  BY <1>3 DEF Waiting, InHand, Referenced
<1>6. ASSUME NEW k \in Keys
      PROVE  /\ index'[k] # None => \/ index[k] # None /\ index'[k] = index[k]
                                    \/ k = ItemKey /\ ~index'[k].orphaned
             /\ index[k] # None => index'[k] # None
             /\ k = ItemKey /\ p \in job.fresh => index'[k] # None
  <2>1. CASE index' = index /\ p \notin job.fresh
    BY <2>1
  <2>2. CASE index' = UpsertHash(ItemKey)
    <3>1. index'[ItemKey].orphaned = FALSE /\ (k # ItemKey => index'[k] = index[k])
      BY <1>0, <1>2, <2>2 DEF UpsertHash, TypeOK
    <3>2. index'[ItemKey] # None
      BY <1>0, <1>2, <2>2, KnownSteps DEF Known
    <3> QED
      BY <3>1, <3>2
  <2> QED
    BY <1>2, <2>1, <2>2
<1>7. p \in Waiting \cup InHand
  BY <1>2
<1>8. /\ \A q \in Paths : files'[q] # None =>
           \/ files[q] # None /\ files'[q].hash = files[q].hash
           \/ OwnContent(q, files'[q].hash)
      /\ \A q \in Paths : job.kind[q] = "deleted" => HashOf(q)' = HashOf(q)
  BY <1>0, <1>2, <1>7, UpsertSafe
<1>9. ItemKey \in Past
  BY <1>2 DEF Safe, SessionKept, OwnContent
<1>10. Counted(ItemKey, index')
  <2>1. p \notin job.fresh => Counted(ItemKey, index)
    BY <1>2 DEF Safe, SessionKept, Referenced
  <2> QED
    BY <1>2, <1>6, <1>9, <2>1 DEF Counted
<1>11. Databases'
  BY <1>0, <1>6, <1>8, <1>9, OnDiskType, TablesStay DEF Safe
<1>12. \A r \in job'.batch : r \in job.batch \/ Counted(r.key, index')
  BY <1>2, <1>4, <1>10 DEF RowOf
<1>13. SessionKept'
  BY <1>0, <1>3, <1>5, <1>6, <1>8, <1>12, OnDiskType, SessionStays DEF Safe, Sorted, Hashed
<1> QED
  BY <1>0, <1>11, <1>13, SafeAgain

\* The reference that is given up is to a content that left the disk.
LEMMA ReleaseSafe ==
  ASSUME TypeInv, Safe, NEW p \in Paths, ReleaseFile(p)
  PROVE  Safe'
<1>0. /\ TypeOK /\ UNCHANGED <<disk, seen, oss, snap, files, rows, phase>> /\ phase = "unref"
      /\ p \in job.gone
      /\ index' = IF files[p] # None /\ files[p].hash # NoHash THEN DecrementRef(files[p].hash) ELSE index
  BY DEF ReleaseFile, TypeInv
<1>1. /\ UNCHANGED <<job.kind, job.hash, job.pending, job.upload, job.fresh, job.skipped, job.item, job.batch>>
      /\ job'.gone = job.gone \ {p}
  BY ReleaseLocals
<1>2. (Waiting \cup InHand)' = Waiting \cup InHand /\ Referenced' = Referenced
  BY <1>1 DEF Waiting, InHand, Referenced
<1>3. ASSUME NEW k \in Keys
      PROVE  /\ index'[k] # None => index[k] # None /\ (k \in OnDisk => index'[k] = index[k])
             /\ index[k] # None => index'[k] # None
  <2>1. CASE index' = index
    BY <2>1
  <2>2. CASE files[p] # None /\ index' = DecrementRef(files[p].hash)
    <3>1. files[p].hash \in Keys /\ files[p].hash \notin OnDisk
      <4>1. HashOf(p) \notin OnDisk
        BY <1>0 DEF Safe, SessionKept
      <4> QED
        BY <1>0, <2>2, <4>1 DEF HashOf, TypeOK, FileRows
    <3>2. /\ k # files[p].hash => index'[k] = index[k]
          /\ index[k] = None => index'[k] = None
      BY <1>0, <2>2, <3>1 DEF DecrementRef, TypeOK
    <3>3. Known' = Known
      BY <1>0, <2>2, <3>1, KnownSteps
    <3> QED
      BY <3>1, <3>2, <3>3 DEF Known
  <2> QED
    BY <1>0, <2>1, <2>2
<1>4. Databases'
  BY <1>0, <1>3, OnDiskType, TablesStay DEF Safe
<1>5. \A q \in Paths : HashOf(q)' = HashOf(q)
  BY <1>0 DEF HashOf
<1>6. SessionKept'
  BY <1>0, <1>1, <1>2, <1>3, <1>5, OnDiskType, SessionStays DEF Safe, Sorted, Hashed
<1> QED
  BY <1>0, <1>4, <1>6, SafeAgain

LEMMA ReleaseFailsSafe ==
  ASSUME TypeInv, Safe, NEW p \in Paths, ReleaseFails(p)
  PROVE  Safe'
<1>0. /\ TypeOK /\ UNCHANGED <<disk, seen, oss, snap, files, index, rows, phase>> /\ phase = "unref"
  BY DEF ReleaseFails, tables, TypeInv
<1>1. /\ UNCHANGED <<job.kind, job.hash, job.pending, job.upload, job.fresh, job.skipped, job.item, job.batch>>
      /\ job'.gone = job.gone \ {p}
  BY ReleaseFailsLocals
<1>2. (Waiting \cup InHand)' = Waiting \cup InHand /\ Referenced' = Referenced
  BY <1>1 DEF Waiting, InHand, Referenced
<1>3. \A q \in Paths : HashOf(q)' = HashOf(q)
  BY <1>0 DEF HashOf
<1> QED
  BY <1>0, <1>1, <1>2, <1>3, QuietSafe DEF Sorted, Hashed

\* A session ends, or the process dies.
LEMMA EndSafe ==
  ASSUME TypeInv, Safe, PushSnapshot \/ PushFails \/ Abort \/ EndUnrecorded \/ Crash
  PROVE  Safe'
<1>0. /\ TypeOK /\ UNCHANGED <<disk, seen, oss, files, index, rows>>
      /\ phase' \in {"idle", "down"} /\ job' = NoJob
      /\ snap' \in {snap, None, Database}
  BY DEF PushSnapshot, PushFails, PushFailed, Tear, Abort, EndUnrecorded, Crash, EndSession, tables,
         TypeInv
<1>1. Databases'
  BY <1>0, TablesStay DEF Safe
<1>2. SessionKept'
  BY <1>0, NoSessionKept
<1> QED
  BY <1>0, <1>1, <1>2, SafeAgain

LEMMA CancelSafe ==
  ASSUME TypeInv, Safe, Cancel
  PROVE  Safe'
<1>0. /\ TypeOK /\ UNCHANGED <<disk, seen, oss, snap, files, index, rows, phase>>
      /\ phase \notin {"idle", "down"}
  BY DEF Cancel, tables, TypeInv, Working
<1>1. UNCHANGED <<job.kind, job.hash, job.pending, job.upload, job.fresh, job.skipped, job.gone,
                  job.item, job.batch>>
  BY CancelLocals
<1>2. Databases'
  BY <1>0, LoadedKept DEF Safe
<1>3. /\ OnDisk' = OnDisk /\ Past' = Past /\ \A p \in Paths : HashOf(p)' = HashOf(p)
      /\ (Waiting \cup InHand)' = Waiting \cup InHand /\ Referenced' = Referenced
  BY <1>0, <1>1 DEF OnDisk, Past, HashOf, Waiting, InHand, Referenced
<1>4. SessionKept'
  BY <1>0, <1>1, <1>3 DEF Safe, SessionKept, OwnContent, Counted
<1> QED
  BY <1>0, <1>2, <1>4, SafeAgain

\* What is new on the disk was never there before, unless it may appear twice.
LEMMA EditSafe ==
  ASSUME TypeInv, Safe, NEW p \in Paths, NEW c \in Hashes \cup {None}, Edit(p, c)
  PROVE  Safe' /\ Past \ OnDisk \subseteq Past' \ OnDisk'
<1>0. /\ TypeOK /\ UNCHANGED <<oss, snap, files, index, rows, phase, job>>
      /\ c \notin seen \ Reuse
      /\ disk' = [disk EXCEPT ![p] = c] /\ seen' = seen \cup ({c} \ {None})
  BY DEF Edit, TypeInv, tables
<1>1. disk'[p] = c /\ \A q \in Paths \ {p} : disk'[q] = disk[q]
  BY <1>0 DEF TypeOK
<1>2. c \in Reuse \cup {None} \/ c \notin Past
  BY <1>0, NamesAssumption DEF Past
<1>3. ASSUME NEW k \in Past, k \in OnDisk'
      PROVE  k \in OnDisk /\ \A q \in Paths : disk[q] = k => disk'[q] = k
  <2>1. PICK q \in Paths : disk'[q] = k /\ k \notin Reuse \cup {None}
    BY <1>3 DEF OnDisk
  <2>2. q # p
    BY <1>1, <1>2, <2>1
  <2>3. disk[q] = k /\ k \in OnDisk
    BY <1>1, <2>1, <2>2 DEF OnDisk
  <2> QED
    BY <1>1, <2>2, <2>3 DEF Safe, DiskOwned
<1>4. Past \subseteq Past'
  BY <1>0 DEF Past
<1>5. DiskOwned'
  <2>1. \A q \in Paths : disk'[q] \in seen' \cup {None} /\ disk[q] \in seen \cup {None}
    BY <1>0, <1>1 DEF Safe, DiskOwned
  <2>2. ASSUME NEW q \in Paths, NEW r \in Paths, disk'[q] \in OnDisk', disk'[r] = disk'[q] PROVE q = r
    <3>1. disk'[q] \notin Reuse \cup {None}
      BY <2>2 DEF OnDisk
    <3>2. CASE q = p /\ r # p
      BY <1>1, <1>2, <2>1, <2>2, <3>1, <3>2 DEF Past
    <3>3. CASE q # p /\ r = p
      BY <1>1, <1>2, <2>1, <2>2, <3>1, <3>3 DEF Past
    <3>4. CASE q # p /\ r # p
      <4>1. disk[q] \in OnDisk /\ disk[r] = disk[q]
        BY <1>1, <2>2, <3>1, <3>4 DEF OnDisk
      <4> QED
        BY <4>1 DEF Safe, DiskOwned
    <3> QED
      BY <3>2, <3>3, <3>4
  <2> QED
    BY <2>1, <2>2 DEF DiskOwned
<1>6. /\ \A q \in Paths : \A h : OwnContent(q, h) => h \in Past' /\ (h \in OnDisk' => h = disk'[q])
      /\ \A k, ix : Counted(k, ix) => k \in Past' /\ (k \in OnDisk' => ix[k] # None)
  BY <1>3, <1>4 DEF OwnContent, Counted
<1>7. Databases'
  <2> DEFINE Still(fs, ix, R) ==
        /\ \A q \in Paths : fs[q] # None =>
              fs[q].hash \in Past' /\ (fs[q].hash \in OnDisk' => fs[q].hash = disk'[q])
        /\ \A k \in Keys : ix[k] # None =>
              k \in Past' /\ (k \in OnDisk' => ~ix[k].orphaned /\ oss[k] # None)
        /\ \A r \in R : r.key \in Past' /\ (r.key \in OnDisk' => ix[r.key] # None)
  <2>1. ASSUME NEW fs, NEW ix, NEW R, KeptIn(fs, ix, R) PROVE Still(fs, ix, R)
    <3>1. \A k \in Keys : ix[k] # None => k \in Past /\ (k \in OnDisk => ~ix[k].orphaned /\ oss[k] # None)
      BY <2>1 DEF KeptIn
    <3>2. \A k \in Keys : ix[k] # None => k \in Past' /\ (k \in OnDisk' => ~ix[k].orphaned /\ oss[k] # None)
      BY <1>3, <1>4, <3>1
    <3>3. \A q \in Paths : fs[q] # None => OwnContent(q, fs[q].hash)
      BY <2>1 DEF KeptIn
    <3>4. \A r \in R : Counted(r.key, ix)
      BY <2>1 DEF KeptIn
    <3> QED
      BY <1>6, <3>2, <3>3, <3>4
  <2>2. KeptIn(files, index, rows)'
    <3>1. Still(files, index, rows)
      BY <2>1 DEF Safe, Databases
    <3> QED
      BY <1>0, <3>1 DEF KeptIn, OwnContent, Counted
  <2>3. snap' # None => KeptIn(snap.files, snap.index, snap.rows)'
    <3>1. snap # None => Still(snap.files, snap.index, snap.rows)
      BY <2>1 DEF Safe, Databases
    <3> QED
      BY <1>0, <3>1 DEF KeptIn, OwnContent, Counted
  <2>4. snap # None => \A k \in OnDisk' : snap.index[k] # None => index[k] # None
    <3> SUFFICES ASSUME snap # None, NEW k \in OnDisk', snap.index[k] # None PROVE index[k] # None
      OBVIOUS
    <3>1. OnDisk' \subseteq Keys
      BY <1>0, OnDiskType DEF OnDisk, TypeOK, Keys
    <3>2. k \in OnDisk
      BY <1>3, <3>1 DEF Safe, Databases, KeptIn
    <3> QED
      BY <3>2 DEF Safe, Databases
  <2> QED
    BY <1>0, <2>2, <2>3, <2>4 DEF Databases
<1>8. SessionKept'
  <2>1. \A q \in Paths : OwnContent(q, job.hash[q])'
    BY <1>0, <1>6 DEF Safe, SessionKept, OwnContent
  <2>2. \A q \in Paths : job.kind[q] = "deleted" => HashOf(q)' \notin OnDisk'
    <3> SUFFICES ASSUME NEW q \in Paths, job.kind[q] = "deleted" PROVE HashOf(q)' \notin OnDisk'
      OBVIOUS
    <3>1. HashOf(q)' = HashOf(q) /\ HashOf(q) \notin OnDisk
      BY <1>0 DEF HashOf, Safe, SessionKept
    <3>2. CASE files[q] = None
      BY <1>0, <3>2 DEF HashOf, OnDisk
    <3>3. CASE files[q] # None
      BY <1>3, <3>1, <3>3 DEF HashOf, Safe, Databases, KeptIn, OwnContent
    <3> QED
      BY <3>2, <3>3
  <2>3. (Waiting \cup InHand)' = Waiting \cup InHand /\ Referenced' = Referenced
    BY <1>0 DEF Waiting, InHand, Referenced
  <2>4. /\ \A q \in Referenced' : Counted(job.hash[q], index)'
        /\ \A r \in job'.batch : Counted(r.key, index)'
    BY <1>0, <1>6, <2>3 DEF Safe, SessionKept, Counted
  <2> QED
    BY <1>0, <2>1, <2>2, <2>3, <2>4 DEF Safe, SessionKept
<1> QED
  BY <1>3, <1>4, <1>5, <1>7, <1>8 DEF Safe

\* A step of maintenance, or none.
LEMMA BesideSafe ==
  ASSUME TypeOK, Safe, UNCHANGED <<disk, seen, files, phase, job>>, rows' \subseteq rows,
         \A k \in Keys : index'[k] # None => index[k] # None /\ (index'[k].orphaned => index[k].orphaned),
         \A k \in OnDisk : index[k] # None => index'[k] # None /\ (oss[k] # None => oss'[k] # None),
         snap' \in {snap, None, Database}
  PROVE  Safe'
<1>1. Databases'
  BY TablesStay DEF Safe
<1>2. /\ OnDisk' = OnDisk /\ Past' = Past /\ \A p \in Paths : HashOf(p)' = HashOf(p)
      /\ (Waiting \cup InHand)' = Waiting \cup InHand /\ Referenced' = Referenced
  BY DEF OnDisk, Past, HashOf, Waiting, InHand, Referenced
<1>3. \A k : Counted(k, index) => Counted(k, index)'
  BY <1>2 DEF Counted
<1>4. SessionKept'
  BY <1>2, <1>3 DEF Safe, SessionKept, OwnContent
<1> QED
  BY <1>1, <1>4, SafeAgain

LEMMA PipelineSafe ==
  ASSUME {"loss", "walkError"} \cap Faults = {}, TypeInv, Safe, [Next]_vars
  PROVE  Safe' /\ Past \ OnDisk \subseteq Past' \ OnDisk'
<1>1. CASE UNCHANGED vars
  BY <1>1, BesideSafe DEF vars, tables, Past, OnDisk, TypeInv
<1>2. ASSUME NEW p \in Paths, NEW c \in Hashes \cup {None}, Edit(p, c)
      PROVE  Safe' /\ Past \ OnDisk \subseteq Past' \ OnDisk'
  BY <1>2, EditSafe
<1>3. ASSUME NEW p \in Paths, FailBeforeSealing(p) PROVE Safe'
  BY <1>3, FailSafe DEF FailBeforeSealing
<1>8. ASSUME NEW p \in Paths, FailUnmarked(p) PROVE Safe'
  BY <1>8, FailSafe DEF FailUnmarked, InHand
<1>4. ASSUME FailAfterSealing PROVE Safe'
  <2>1. PICK p \in Paths : p = job.item.path
    BY <1>4, ItemType DEF FailAfterSealing, TypeInv
  <2>2. phase = "upload" /\ job.item # None /\ FileFails(p)
    BY <1>4, <2>1 DEF FailAfterSealing
  <2>3. p \in job.upload \cup InHand
    BY <2>1, <2>2 DEF InHand
  <2> QED
    BY <2>2, <2>3, FailSafe
<1>5. \A k \in Keys : ~Lose(k)
  BY DEF Lose, Fault
<1>6. ASSUME NoticeCancel \/ HardError \/ AbortUnrecorded PROVE Safe'
  <2>1. Abort \/ EndUnrecorded
    BY <1>6 DEF NoticeCancel, HardError, AbortUnrecorded
  <2> QED
    BY <2>1, EndSafe
<1>7. CASE SessionStep \/ StartBackup \/ Restart \/ Cancel \/ Crash
  <2>1. UNCHANGED <<disk, seen>>
    BY <1>7 DEF SessionStep, Scan, ComputeHashes, CheckObjects, DedupFile, DedupDone, SealFile,
           FailBeforeSealing, FileFails, FailUnmarked, UploadObject, RecordUpload, FailAfterSealing,
           UploadsDone, RecordSkipped, SkipFails, SkipsDone, AddBackupFiles, MarkDeleted,
           ReleaseFile, ReleaseFails, ReleasesDone, Complete, CompleteUnrecorded, PushSnapshot,
           PushFails, NoticeCancel, HardError, Abort, AbortUnrecorded, EndUnrecorded, Restart,
           Cancel, StartBackup, Crash
  <2>2. Safe'
    BY <1>3, <1>4, <1>6, <1>7, <1>8, StartSafe, RestartSafe, ScanSafe, HashSafe, CheckSafe,
       DedupSafe, SealSafe, UploadSafe, RecordSafe, SkipSafe, CalmSafe, ReleaseSafe,
       ReleaseFailsSafe, EndSafe, CancelSafe
       DEF SessionStep
  <2> QED
    BY <2>1, <2>2 DEF Past, OnDisk
<1> QED
  BY <1>1, <1>2, <1>5, <1>7 DEF Next, Environment, Exhausted, Refused

LEMMA InitKeeps == MInit => KeepInv
<1> SUFFICES ASSUME MInit PROVE Safe /\ Collecting
  BY DEF KeepInv
<1>1. /\ \A p, q \in Paths : disk[p] = disk[q] /\ disk[p] \notin Reuse \cup {None} => p = q
      /\ seen = {disk[p] : p \in Paths} \ {None} /\ disk \in [Paths -> Hashes \cup {None}]
      /\ snap = None /\ files = [p \in Paths |-> None] /\ index = [k \in Keys |-> None]
      /\ rows = {} /\ phase = "idle" /\ job = NoJob /\ gc = NoGC
  BY DEF MInit, Init
<1>2. DiskOwned
  BY <1>1 DEF DiskOwned, OnDisk
<1>3. Databases
  BY <1>1 DEF Databases, KeptIn
<1>4. SessionKept
  <2>1. NoHash \notin OnDisk /\ NoHash \in Past
    BY <1>1, NamesAssumption DEF OnDisk, Past
  <2>2. /\ job.hash = [p \in Paths |-> NoHash] /\ job.kind = [p \in Paths |-> "none"]
        /\ job.gone = {} /\ job.pending = {} /\ job.upload = {} /\ job.skipped = {}
        /\ job.item = None /\ job.batch = {}
    BY <1>1 DEF NoJob
  <2>3. Waiting \cup InHand = {} /\ Referenced = {}
    BY <2>2 DEF Waiting, InHand, Referenced
  <2> QED
    BY <1>1, <2>1, <2>2, <2>3 DEF SessionKept, OwnContent
<1>5. Collecting
  BY <1>1 DEF Collecting, NoGC
<1> QED
  BY <1>2, <1>3, <1>4, <1>5 DEF Safe

\* A step that takes no object of a content on the disk that has a hash row.
ObjectsStay == \A k \in OnDisk : index[k] # None => (oss[k] # None => oss'[k] # None)

LEMMA CollectionSafe ==
  ASSUME MInv, Safe, Collecting, Collection
  PROVE  Safe' /\ Collecting' /\ ObjectsStay
<1>0. /\ TypeOK /\ OnDisk \subseteq Keys /\ gc \in GCs
      /\ UNCHANGED <<disk, seen, files, phase, job, rows, snap>>
  BY OnDiskType, OwnTypes DEF MInv, MaintenanceTypeOK, Collection, StartGC, CollectObject, FinishGC,
     TimeOutGC, vars, tables
<1>1. OnDisk' = OnDisk /\ Past' = Past
  BY <1>0 DEF OnDisk, Past
<1>2. CASE StartGC
  <2>1. UNCHANGED <<oss, index>>
    BY <1>2 DEF StartGC, vars, tables
  <2>2. Collectable \subseteq Past \ OnDisk
    BY DEF Collectable, Safe, Databases, KeptIn
  <2>3. Collecting'
    BY <1>1, <1>2, <2>2 DEF StartGC, Collecting
  <2> QED
    BY <1>0, <2>1, <2>3, BesideSafe DEF ObjectsStay
<1>3. ASSUME NEW k \in Keys, CollectObject(k) PROVE Safe' /\ Collecting' /\ ObjectsStay
  <2>1. k \in gc.todo /\ k \notin OnDisk /\ index' = index
    BY <1>3 DEF CollectObject, Collecting, tables
  <2>2. oss' = oss \/ oss' = [oss EXCEPT ![k] = None]
    BY <1>3 DEF CollectObject
  <2>3. \A j \in OnDisk : oss'[j] = oss[j]
    BY <1>0, <2>1, <2>2 DEF TypeOK
  <2>4. gc'.todo \cup gc'.done \subseteq gc.todo \cup gc.done
    <3>1. \/ gc' = [gc EXCEPT !.todo = @ \ {k}, !.done = @ \cup {k}]
          \/ gc' = [gc EXCEPT !.todo = @ \ {k}]
      BY <1>3 DEF CollectObject
    <3> QED
      BY <1>0, <2>1, <3>1 DEF GCs
  <2>5. Collecting'
    BY <1>1, <2>4 DEF Collecting
  <2> QED
    BY <1>0, <2>1, <2>3, <2>5, BesideSafe DEF ObjectsStay
<1>4. CASE FinishGC
  <2>1. index' = [k \in Keys |-> IF k \in gc.done THEN None ELSE index[k]] /\ oss' = oss /\ gc' = NoGC
    BY <1>4 DEF FinishGC
  <2>2. \A k \in OnDisk : index'[k] = index[k]
    BY <1>0, <2>1 DEF Collecting
  <2>3. \A k \in Keys : index'[k] # None => index[k] # None /\ (index'[k].orphaned => index[k].orphaned)
    BY <2>1
  <2>4. Collecting'
    BY <2>1 DEF NoGC, Collecting
  <2> QED
    BY <1>0, <2>1, <2>2, <2>3, <2>4, BesideSafe DEF ObjectsStay
<1>5. CASE TimeOutGC
  <2>1. UNCHANGED <<oss, index>> /\ gc' = NoGC
    BY <1>5 DEF TimeOutGC, tables
  <2>2. Collecting'
    BY <2>1 DEF NoGC, Collecting
  <2> QED
    BY <1>0, <2>1, <2>2, BesideSafe DEF ObjectsStay
<1> QED
  BY <1>2, <1>3, <1>4, <1>5 DEF Collection

\* A fix removes the hash row of no object, and a sweep the object of no hash row.
LEMMA ReconciliationSafe ==
  ASSUME MInv, PassInv, overlaps = 0, Safe, Collecting, Reconciliation
  PROVE  Safe' /\ Collecting' /\ ObjectsStay
<1>0. /\ TypeOK /\ OnDisk \subseteq Keys
      /\ UNCHANGED <<disk, seen, files, phase, job, gc>> /\ rows' \subseteq rows
      /\ snap' \in {snap, None, Database}
  BY OnDiskType DEF MInv, MaintenanceTypeOK, Reconciliation, StartReconcile, Compare, CompareCounts,
     ListFailed, CheckFailed, ApplyFixes, FixTables, SweepObject, TimeOutReconcile, PushRepaired,
     PushFailed, Tear, vars, tables
<1>1. Collecting'
  BY <1>0 DEF OnDisk, Past, Collecting
<1>2. CASE UNCHANGED <<oss, index>>
  BY <1>0, <1>1, <1>2, BesideSafe DEF ObjectsStay
<1>3. ASSUME NEW r \in CarriedOut, ApplyFixes, FixTables(r)
      PROVE  Safe' /\ Collecting' /\ ObjectsStay
  <2>1. oss' = oss /\ Reported /\ rec.step = "compared"
    BY <1>3 DEF ApplyFixes, PassInv
  <2>2. r \in Recs /\ r.dangling \subseteq rec.dangling
    BY <1>3, CarriedOutType
  <2>3. ASSUME NEW k \in Keys, index'[k] # None
        PROVE  index[k] # None /\ (index'[k].orphaned => index[k].orphaned)
    <3>1. index'[k] = FixedRow(r, k)
      BY <1>3 DEF FixTables
    <3>2. index[k] # None /\ k \notin r.dangling
      BY <2>3, <3>1 DEF FixedRow
    <3> QED
      BY <2>2, <3>1, <3>2, FixedRowKept
  <2>4. ASSUME NEW k \in OnDisk, index[k] # None PROVE index'[k] # None
    <3>1. k \in Keys /\ oss[k] # None
      BY <1>0, <2>4 DEF Safe, Databases, KeptIn
    <3>2. k \notin rec.dangling
      BY <2>1, <3>1 DEF Reported, Listed, Matched, Gathering
    <3>3. index'[k] = FixedRow(r, k)
      BY <1>3, <3>1 DEF FixTables
    <3> QED
      BY <2>2, <2>4, <3>1, <3>2, <3>3, FixedRowKept
  <2> QED
    BY <1>0, <1>1, <2>1, <2>3, <2>4, BesideSafe DEF ObjectsStay
<1>4. ASSUME NEW k \in Keys, SweepObject(k) PROVE Safe' /\ Collecting' /\ ObjectsStay
  <2>1. index' = index /\ index[k] = None
    BY <1>4 DEF SweepObject, tables, PassInv, RepairedKeys
  <2>2. oss' = oss \/ oss' = [oss EXCEPT ![k] = None]
    BY <1>4 DEF SweepObject
  <2>3. \A j \in OnDisk : index[j] # None => oss'[j] = oss[j]
    BY <1>0, <2>1, <2>2 DEF TypeOK
  <2> QED
    BY <1>0, <1>1, <2>1, <2>3, BesideSafe DEF ObjectsStay
<1>5. ApplyFixes => UNCHANGED <<oss, index>> \/ \E r \in CarriedOut : FixTables(r)
  BY DEF ApplyFixes
<1> QED
  BY <1>2, <1>3, <1>4, <1>5
     DEF Reconciliation, StartReconcile, Compare, CompareCounts, ListFailed, CheckFailed,
         TimeOutReconcile, PushRepaired, vars, tables

LEMMA OverlapsStay ==
  ASSUME MInv, [MNext]_mvars, overlaps' = 0
  PROVE  overlaps = 0
BY MeetsNobody DEF MNext, Collection, StartGC, StartPass, CollectObject, FinishGC, TimeOutGC,
   Reconciliation, StartReconcile, Compare, CompareCounts, ListFailed, CheckFailed, ApplyFixes,
   SweepObject, TimeOutReconcile, PushRepaired, DedupFails, mvars, counts

LEMMA StepSafe ==
  ASSUME {"loss", "walkError"} \cap Faults = {}, MInv, PassInv, overlaps = 0, Safe, Collecting,
         [MNext]_mvars
  PROVE  Safe' /\ Collecting' /\ ObjectsStay
<1>0. TypeInv /\ OnDisk \subseteq Keys
  BY OnDiskType DEF MInv, MaintenanceTypeOK, TypeInv
<1>1. CASE Collection
  BY <1>1, CollectionSafe
<1>2. CASE Reconciliation
  BY <1>2, ReconciliationSafe
<1>3. CASE ~Collection /\ ~Reconciliation
  <2>1. gc' = NoGC \/ gc' = gc
    BY <1>3 DEF MNext, Beside, DedupFails, mvars
  <2>2. /\ Safe' /\ Past \ OnDisk \subseteq Past' \ OnDisk'
        /\ \A k \in Keys : oss[k] # None => oss'[k] # None
    <3>1. CASE PipelineStep
      BY <1>0, <3>1, PipelineNext, PipelineSafe, NextKeepsObjects DEF ObjectsKept
    <3>2. CASE \E p \in Paths : DedupFails(p)
      <4>1. (Abort \/ EndUnrecorded) /\ UNCHANGED <<disk, seen, oss>>
        BY <3>2 DEF DedupFails, Abort, EndUnrecorded
      <4>2. Safe'
        BY <1>0, <4>1, EndSafe
      <4> QED
        BY <4>1, <4>2 DEF Past, OnDisk
    <3> QED
      BY <1>3, <3>1, <3>2, StepParts
  <2>3. Collecting'
    BY <2>1, <2>2 DEF Collecting, NoGC
  <2> QED
    BY <1>0, <2>2, <2>3 DEF ObjectsStay
<1> QED
  BY <1>1, <1>2, <1>3

\* A content that is on the disk and never left it since it was backed up keeps its
\* object through collections and reconciliations that meet nobody, through sessions
\* that fail, are cancelled or crash, and through pulls of an older database: a
\* reference is given up, and a hash row removed, only for what left the disk.
THEOREM OnDiskContentsAreKept ==
  ASSUME {"loss", "walkError"} \cap Faults = {}
  PROVE  MSpec => OnDiskKept
<1> DEFINE All == MInv /\ PassInv /\ KeepInv
<1>1. MInit => PassInv /\ KeepInv
  BY InitKeeps DEF MInit, NoRec, PassInv, Undisturbed, Reported, Listed, Matched, Tallied, Gathering, RepairedKeys
<1>2. All /\ [MNext]_mvars => PassInv'
  BY CollectionPass, ReconciliationPass, PipelinePass
<1>3. All /\ [MNext]_mvars => KeepInv'
  BY OverlapsStay, StepSafe DEF KeepInv
<1>4. All /\ [MNext]_mvars =>
        \A p \in Paths :
          overlaps = 0 /\ IsActive(p) /\ files[p].hash = disk[p] /\ disk[p] \notin Reuse
          /\ (\E r \in rows : r.path = p /\ r.key = disk[p])
            => ~(oss[disk[p]] # None /\ oss'[disk[p]] = None)
  <2> SUFFICES ASSUME All, [MNext]_mvars, NEW p \in Paths, overlaps = 0, IsActive(p),
                      files[p].hash = disk[p], disk[p] \notin Reuse,
                      NEW r \in rows, r.key = disk[p], oss[disk[p]] # None
               PROVE  oss'[disk[p]] # None
    OBVIOUS
  <2>1. Safe /\ ObjectsStay
    BY StepSafe DEF KeepInv
  <2>2. disk[p] \in OnDisk
    <3>1. files[p].hash \in Keys
      BY DEF IsActive, MInv, MaintenanceTypeOK, TypeOK, FileRows
    <3> QED
      BY <3>1, NamesAssumption DEF OnDisk, Keys
  <2>3. index[disk[p]] # None
    BY <2>1, <2>2 DEF Safe, Databases, KeptIn, Counted
  <2> QED
    BY <2>1, <2>2, <2>3 DEF ObjectsStay
<1> QED
  BY <1>1, <1>2, <1>3, <1>4, MaintenanceInvariant, PTL DEF MSpec, OnDiskKept
=============================================================================
