---------------------------- MODULE BackupProofs ----------------------------
(***************************************************************************)
(* Theorems about the backup pipeline, for every set of paths and contents *)
(* and every bound.                                                        *)
(***************************************************************************)
EXTENDS BackupProperties, SequenceTheorems, TLAPS

-----------------------------------------------------------------------------
(* Types. *)

\* A working session was counted (the IVs it draws carry its number) and its
\* record is the last one of the table.
Started == phase \in Working => /\ runs \in 1..MaxRuns
                                /\ job.cur = Len(backups) /\ backups # << >>

\* Until the hashes are computed, what the scan found unchanged has a row.
Compared == phase = "hash" => \A p \in Paths : job.kind[p] = "unchanged" => files[p] # None

TypeInv == TypeOK /\ Started /\ Compared

\* The initial job is one.
LEMMA NoJobType == NoJob \in Jobs
BY DEF NoJob, Jobs, Keys, Kinds

LEMMA DatabaseType == TypeOK => Database \in Snapshots
BY DEF TypeOK, Database, Snapshots

\* A pulled database has the parts of one.
LEMMA PulledType ==
  ASSUME TypeOK, NEW local \in Snapshots
  PROVE  /\ Pulled(local).files \in [Paths -> FileRows \cup {None}]
         /\ Pulled(local).index \in [Keys -> HashRows \cup {None}]
         /\ Pulled(local).synthetic \subseteq Keys
         /\ Pulled(local).rows \subseteq BackupRows
         /\ Pulled(local).backups \in Seq(Statuses)
<1>1. Pulled(local) \in Snapshots
  BY DEF TypeOK, Pulled
<1> QED
  BY <1>1 DEF Snapshots

LEMMA FaultType ==
  ASSUME TypeOK, NEW f, Fault(f)
  PROVE  edits' \in 0..MaxEdits /\ faults' \in 0..MaxFaults
BY BoundsAssumption DEF TypeOK, Fault

LEMMA BoundsType ==
  ASSUME TypeOK, UNCHANGED bounds
  PROVE  edits' \in 0..MaxEdits /\ faults' \in 0..MaxFaults
BY DEF TypeOK, bounds

\* A working session's status can be set; the table keeps its length.
LEMMA StatusType ==
  ASSUME TypeInv, phase \in Working, NEW s \in Statuses, SetStatus(s)
  PROVE  /\ backups' \in Seq(Statuses) /\ backups' # << >>
         /\ Len(backups') = Len(backups)
         /\ job.cur \in 1..Len(backups)
         /\ backups'[job.cur] = s
         /\ \A i \in 1..Len(backups) \ {job.cur} : backups'[i] = backups[i]
<1>1. backups \in Seq(Statuses) /\ job.cur = Len(backups) /\ backups # << >>
  BY DEF TypeInv, TypeOK, Started
<1>2. job.cur \in 1..Len(backups)
  BY <1>1, EmptySeq
<1>3. backups' = [backups EXCEPT ![job.cur] = s]
  BY DEF SetStatus
<1>4. /\ backups' \in Seq(Statuses) /\ Len(backups') = Len(backups)
      /\ \A j \in 1..Len(backups) : backups'[j] = IF j = job.cur THEN s ELSE backups[j]
  BY <1>1, <1>2, <1>3, ExceptSeq
<1>5. backups' # << >>
  BY <1>1, <1>2, <1>4, EmptySeq
<1> QED
  BY <1>2, <1>4, <1>5

\* Status cleaning keeps the length of the table and settles it.
LEMMA CleanedType ==
  ASSUME TypeOK
  PROVE  Cleaned \in Snapshots /\ Settled(Cleaned.backups)
<1> DEFINE b == [i \in DOMAIN backups |-> IF backups[i] \in Unsettled THEN "failed" ELSE backups[i]]
<1>1. backups \in Seq(Statuses)
  BY DEF TypeOK
<1>2. DOMAIN backups = 1..Len(backups) /\ Len(backups) \in Nat
  BY <1>1, LenProperties
<1>3. \A i \in 1..Len(backups) : b[i] \in Statuses
  BY <1>1, <1>2, ElementOfSeq DEF Statuses
<1>4. b \in Seq(Statuses)
  BY <1>2, <1>3, SeqDef
<1>5. Cleaned = [Database EXCEPT !.backups = b]
  BY DEF Cleaned
<1>6. Cleaned \in Snapshots
  BY <1>4, <1>5, DatabaseType DEF Snapshots
<1>7. Cleaned.backups = b
  BY <1>5, DatabaseType DEF Snapshots
<1>8. \A i \in DOMAIN b : b[i] \notin Unsettled
  BY DEF Unsettled
<1> QED
  BY <1>6, <1>7, <1>8 DEF Settled

\* The key of the file being uploaded, and the object its encryption makes.
LEMMA ItemType ==
  ASSUME TypeOK, job.item # None
  PROVE  /\ job.item \in Items /\ job.item.path \in Paths
         /\ ItemKey \in Keys /\ ItemObject \in Objects
<1>1. job \in Jobs
  BY DEF TypeOK
<1>2. job.item \in Items /\ job.hash \in [Paths -> Keys]
  BY <1>1 DEF Jobs
<1>3. job.item.path \in Paths
  BY <1>2 DEF Items
<1>4. ItemKey \in Keys
  BY <1>2, <1>3 DEF ItemKey
<1>5. ItemObject \in Objects
  BY <1>2 DEF ItemObject, Items, Objects
<1> QED
  BY <1>2, <1>3, <1>4, <1>5

\* What Upsert with MarkBackupSuccess or MarkBackupFailed leaves.
LEMMA MarkedType ==
  ASSUME TypeOK, NEW p \in Paths, NEW h \in Keys, NEW o \in {"success", "failed"}
  PROVE  UpsertMarked(p, h, o) \in [Paths -> FileRows \cup {None}]
BY DEF TypeOK, UpsertMarked, FileRows

LEMMA UpsertType ==
  ASSUME TypeOK, NEW p \in Paths, NEW h \in Keys
  PROVE  UpsertFile(p, h) \in [Paths -> FileRows \cup {None}]
BY DEF TypeOK, UpsertFile, FileRows

\* A row that is upserted, with or without an outcome; every other row stays.
LEMMA UpsertedRow ==
  ASSUME TypeOK, NEW p \in Paths, NEW h \in Keys
  PROVE  /\ UpsertFile(p, h)[p].hash = h /\ UpsertFile(p, h)[p].status = "active"
         /\ UpsertFile(p, h)[p] # None
         /\ \A o \in {"success", "failed"} :
              /\ UpsertMarked(p, h, o)[p].hash = h /\ UpsertMarked(p, h, o)[p].status = "active"
              /\ UpsertMarked(p, h, o)[p].last = o /\ UpsertMarked(p, h, o)[p] # None
         /\ \A q \in Paths \ {p} : /\ UpsertFile(p, h)[q] = files[q]
                                   /\ \A o : UpsertMarked(p, h, o)[q] = files[q]
<1>1. UpsertFile(p, h)[p] \in FileRows
  BY DEF TypeOK, UpsertFile, FileRows
<1>2. \A o \in {"success", "failed"} : UpsertMarked(p, h, o)[p] \in FileRows
  BY DEF TypeOK, UpsertMarked, FileRows
<1> QED
  BY <1>1, <1>2, NoneAssumption DEF TypeOK, UpsertFile, UpsertMarked

LEMMA UpsertHashType ==
  ASSUME TypeOK, NEW h \in Keys
  PROVE  UpsertHash(h) \in [Keys -> HashRows \cup {None}]
BY DEF TypeOK, UpsertHash, HashRows

LEMMA IncrementType ==
  ASSUME TypeOK, NEW h \in Keys, index[h] # None
  PROVE  IncrementRef(h) \in [Keys -> HashRows \cup {None}]
BY DEF TypeOK, IncrementRef, HashRows

LEMMA DecrementType ==
  ASSUME TypeOK, NEW h \in Keys
  PROVE  DecrementRef(h) \in [Keys -> HashRows \cup {None}]
BY DEF TypeOK, DecrementRef, HashRows

\* The end of a session, with whatever status.
LEMMA AbortType ==
  ASSUME TypeInv, phase \in Working, Abort,
         edits' \in 0..MaxEdits, faults' \in 0..MaxFaults
  PROVE  TypeInv'
<1>1. backups' \in Seq(Statuses)
  BY StatusType DEF Abort, Statuses
<1>2. job' \in Jobs
  BY NoJobType DEF Abort, EndSession
<1>3. phase' \in Phases /\ phase' \notin Working
  BY DEF Abort, EndSession, Phases, Working
<1> QED
  BY <1>1, <1>2, <1>3 DEF Abort, EndSession, TypeInv, TypeOK, Started, Compared

\* The end of a session whose status could not be written.
LEMMA UnrecordedType ==
  ASSUME TypeInv, EndUnrecorded
  PROVE  TypeInv'
<1>1. job' \in Jobs /\ phase' \in Phases /\ phase' \notin Working /\ phase' # "hash"
  BY NoJobType DEF EndUnrecorded, EndSession, Phases, Working
<1> QED
  BY <1>1, FaultType DEF EndUnrecorded, tables, TypeInv, TypeOK, Started, Compared

\* A file that fails: its row, and the job without it.
LEMMA FailType ==
  ASSUME TypeInv, phase = "upload", NEW p \in Paths, FileFails(p),
         edits' \in 0..MaxEdits, faults' \in 0..MaxFaults
  PROVE  TypeInv'
<1>1. job \in Jobs /\ job.hash[p] \in Keys
  BY DEF TypeInv, TypeOK, Jobs
<1>2. job' \in Jobs /\ job'.cur = job.cur
  BY <1>1 DEF FileFails, Jobs
<1>3. files' \in [Paths -> FileRows \cup {None}]
  BY <1>1, MarkedType DEF FileFails, TypeInv
<1> QED
  BY <1>2, <1>3 DEF FileFails, TypeInv, TypeOK, Started, Compared

LEMMA InitType == Init => TypeInv
<1> SUFFICES ASSUME Init PROVE TypeInv
  OBVIOUS
<1>1. seen \subseteq Hashes
  BY DEF Init
<1>2. snap \in Snapshots \cup {None} /\ job \in Jobs
  BY NoJobType DEF Init
<1>3. phase \in Phases /\ phase \notin Working
  BY DEF Init, Phases, Working
<1>4. runs \in 0..MaxRuns /\ edits \in 0..MaxEdits /\ faults \in 0..MaxFaults
  BY BoundsAssumption DEF Init
<1>5. torn \in BOOLEAN
  BY DEF Init
<1>7. backups \in Seq(Statuses) /\ synthetic \subseteq Keys /\ rows \subseteq BackupRows
  BY DEF Init
<1>8. /\ files \in [Paths -> FileRows \cup {None}] /\ index \in [Keys -> HashRows \cup {None}]
      /\ oss \in [Keys -> Objects \cup {None}] /\ disk \in [Paths -> Hashes \cup {None}]
  BY DEF Init
<1>6. Started /\ Compared
  BY <1>3 DEF Init, Started, Compared
<1> QED
  BY <1>1, <1>2, <1>3, <1>4, <1>5, <1>6, <1>7, <1>8 DEF TypeInv, TypeOK

\* What a skipped file is recorded with.
LEMMA SkippedMetaType ==
  ASSUME TypeOK, NEW p \in Paths, NEW fs, NEW m \in SkippedMeta(fs, p)
  PROVE  m \in Metas
<1>1. job \in Jobs /\ job.hash[p] \in Keys
  BY DEF TypeOK, Jobs
<1>2. CASE job.meta[job.hash[p]] # None
  BY <1>1, <1>2 DEF SkippedMeta, Jobs
<1>3. CASE job.meta[job.hash[p]] = None
  <2>1. PICK q \in Paths :
          m \in IF LatestRows(q) = {} THEN {NoMeta}
                ELSE {[iv |-> r.iv, comp |-> r.comp] : r \in LatestRows(q)}
    BY <1>3 DEF SkippedMeta, ActiveWith
  <2>2. LatestRows(q) \subseteq BackupRows
    BY DEF LatestRows, TypeOK
  <2>3. CASE LatestRows(q) = {}
    <3>1. m = NoMeta
      BY <2>1, <2>3
    <3> QED
      BY <3>1 DEF NoMeta, Metas
  <2>4. CASE LatestRows(q) # {}
    <3>1. PICK r \in LatestRows(q) : m = [iv |-> r.iv, comp |-> r.comp]
      BY <2>1, <2>4
    <3>2. r.iv \in IVs \cup {None} /\ r.comp \in BOOLEAN
      BY <2>2 DEF BackupRows
    <3> QED
      BY <3>1, <3>2 DEF Metas
  <2> QED
    BY <2>3, <2>4
<1> QED
  BY <1>2, <1>3

\* A skipped file one of whose statements failed: its row, and the job, with or
\* without a row for the end of the session.
LEMMA SkipFailsType ==
  ASSUME TypeInv, NEW p \in Paths, SkipFails(p)
  PROVE  /\ files' \in [Paths -> FileRows \cup {None}]
         /\ job' \in Jobs /\ job'.cur = job.cur
         /\ phase = "skip" /\ phase' = phase
<1>1. TypeOK /\ job \in Jobs /\ job.hash[p] \in Keys
  BY DEF TypeInv, TypeOK, Jobs
<1>2. files' \in {files, UpsertFile(p, job.hash[p]), UpsertMarked(p, job.hash[p], "success")}
  BY DEF SkipFails
<1>3. files' \in [Paths -> FileRows \cup {None}]
  BY <1>1, <1>2, MarkedType, UpsertType DEF TypeOK
<1>4. \/ job' = [job EXCEPT !.skipped = @ \ {p}]
      \/ \E m \in Metas : job' = [job EXCEPT !.skipped = @ \ {p}, !.batch = @ \cup {RowOf(p, m)}]
  BY <1>1, SkippedMetaType DEF SkipFails, NoMeta, Metas
<1>5. CASE job' = [job EXCEPT !.skipped = @ \ {p}]
  BY <1>1, <1>3, <1>5 DEF SkipFails, Jobs
<1>6. ASSUME NEW m \in Metas,
             job' = [job EXCEPT !.skipped = @ \ {p}, !.batch = @ \cup {RowOf(p, m)}]
      PROVE  job' \in Jobs /\ job'.cur = job.cur
  <2>1. RowOf(p, m) \in BackupRows
    BY <1>1 DEF Metas, RowOf, BackupRows, Jobs
  <2> QED
    BY <1>1, <1>6, <2>1 DEF Jobs
<1> QED
  BY <1>3, <1>4, <1>5, <1>6 DEF SkipFails

\* Every step keeps the types.
LEMMA NextType == TypeInv /\ [Next]_vars => TypeInv'
<1> SUFFICES ASSUME TypeInv, [Next]_vars PROVE TypeInv'
  OBVIOUS
<1>0. TypeOK /\ Started /\ Compared /\ job \in Jobs
  BY DEF TypeInv, TypeOK
<1> USE <1>0
<1>1. CASE StartBackup
  <2> DEFINE d == Pulled(Database)
  <2>1. /\ d.files \in [Paths -> FileRows \cup {None}] /\ d.index \in [Keys -> HashRows \cup {None}]
        /\ d.synthetic \subseteq Keys /\ d.rows \subseteq BackupRows /\ d.backups \in Seq(Statuses)
    BY DatabaseType, PulledType
  <2>2. /\ backups' = Append(d.backups, "pending") /\ job' = [NoJob EXCEPT !.cur = Len(d.backups) + 1]
        /\ phase' = "scan" /\ runs < MaxRuns /\ runs' = runs + 1
        /\ files' = d.files /\ index' = d.index /\ synthetic' = d.synthetic /\ rows' = d.rows
    BY <1>1 DEF StartBackup, LoadDatabase
  <2> HIDE DEF d
  <2>3. backups' \in Seq(Statuses) /\ Len(backups') = Len(d.backups) + 1 /\ backups' # << >>
    BY <2>1, <2>2 DEF Statuses
  <2>4. Len(d.backups) \in Nat
    BY <2>1, LenProperties
  <2>5. job' \in Jobs /\ job'.cur = Len(d.backups) + 1
    <3>1. Len(d.backups) + 1 \in Nat /\ job' = [NoJob EXCEPT !.cur = Len(d.backups) + 1]
      BY <2>2, <2>4
    <3> DEFINE n == Len(d.backups) + 1
    <3>2. n \in Nat /\ job' = [NoJob EXCEPT !.cur = n]
      BY <3>1
    <3> HIDE DEF n
    <3>3. job' \in Jobs /\ job'.cur = n
      BY <3>2, NoJobType DEF Jobs
    <3> QED
      BY <3>3 DEF n
  <2>6. runs' \in 1..MaxRuns /\ runs' \in 0..MaxRuns /\ phase' \in Phases
    BY <2>2, BoundsAssumption DEF TypeOK, Phases
  <2> QED
    BY <1>1, <2>1, <2>2, <2>3, <2>5, <2>6, BoundsType DEF StartBackup, TypeInv, TypeOK, Started, Compared
<1>2. CASE Scan
  <2>1. phase \in Working /\ phase' = "hash" /\ phase' \in Phases
    BY <1>2 DEF Scan, Phases, Working
  <2>2. backups' \in Seq(Statuses) /\ backups' # << >> /\ Len(backups') = Len(backups)
    BY <1>2, <2>1, StatusType DEF Scan, Statuses
  <2>3. PICK kind \in [Paths -> Kinds], W \in SUBSET {p \in Paths : disk[p] # None} :
          /\ \A p \in Paths : IF p \in W THEN kind[p] = LostInWalk(p) ELSE kind[p] \in KindsOf(p)
          /\ IF W = {} THEN UNCHANGED bounds ELSE Fault("walkError")
          /\ job' = [job EXCEPT !.kind = kind]
    BY <1>2 DEF Scan
  <2>4. job' \in Jobs /\ job'.cur = job.cur
    BY <2>3 DEF Jobs
  <2>5. edits' \in 0..MaxEdits /\ faults' \in 0..MaxFaults
    BY <2>3, BoundsType, FaultType
  <2>6. Compared'
    <3> SUFFICES ASSUME NEW p \in Paths, job'.kind[p] = "unchanged" PROVE files'[p] # None
      BY DEF Compared
    <3>1. kind[p] = "unchanged" /\ files' = files
      BY <1>2, <2>3 DEF Scan, Jobs
    <3>2. p \notin W
      BY <2>3, <3>1 DEF LostInWalk
    <3>3. IsActive(p)
      BY <2>3, <3>1, <3>2 DEF KindsOf
    <3> QED
      BY <3>1, <3>3 DEF IsActive
  <2> QED
    BY <1>2, <2>1, <2>2, <2>4, <2>5, <2>6 DEF Scan, TypeInv, TypeOK, Started
<1>3. CASE ComputeHashes
  <2>1. phase \in Working /\ phase' \in Phases /\ phase' # "hash"
    BY <1>3 DEF ComputeHashes, Phases, Working
  <2>2. PICK E \in SUBSET {p \in Paths : job.kind[p] \in {"added", "modified"} /\ disk[p] # None} :
          /\ IF E = {} THEN UNCHANGED bounds ELSE Fault("hashError")
          /\ job' = [job EXCEPT !.hash = [p \in Paths |-> NewHash(p, E)],
                                !.gone = {p \in Paths : job.kind[p] = "deleted"}]
    BY <1>3 DEF ComputeHashes
  <2>3. \A p \in Paths : NewHash(p, E) \in Keys
    <3> SUFFICES ASSUME NEW p \in Paths PROVE NewHash(p, E) \in Keys
      OBVIOUS
    <3>1. CASE job.kind[p] = "unchanged"
      <4>1. files[p] \in FileRows
        BY <1>3, <3>1 DEF ComputeHashes, Compared, TypeOK
      <4> QED
        BY <3>1, <4>1 DEF NewHash, FileRows
    <3>2. CASE job.kind[p] # "unchanged"
      BY <3>2 DEF NewHash, TypeOK, Keys
    <3> QED
      BY <3>1, <3>2
  <2>4. job' \in Jobs /\ job'.cur = job.cur
    BY <2>2, <2>3 DEF Jobs
  <2>5. edits' \in 0..MaxEdits /\ faults' \in 0..MaxFaults
    BY <2>2, BoundsType, FaultType
  <2> QED
    BY <1>3, <2>1, <2>4, <2>5 DEF ComputeHashes, tables, TypeInv, TypeOK, Started, Compared
<1>4. CASE CheckObjects
  <2>1. phase \in Working /\ phase' \in Phases /\ phase' # "hash"
    BY <1>4 DEF CheckObjects, Phases, Working
  <2> DEFINE changed == {p \in Paths : job.kind[p] \in {"added", "modified", "unchanged"}}
             new == {p \in changed : job.hash[p] = NoHash \/ index[job.hash[p]] = None}
             present == ExistsBatch({job.hash[p] : p \in changed \ new})
  <2>2. PICK C \in SUBSET present :
          /\ IF C = present THEN UNCHANGED bounds ELSE Fault("batchCheckError")
          /\ job' = [job EXCEPT !.upload = new, !.fresh = new,
                                !.pending = changed \ new, !.confirmed = C]
    BY <1>4 DEF CheckObjects
  <2>3. present \subseteq Keys
    BY DEF ExistsBatch, Jobs
  <2>4. new \subseteq Paths /\ changed \ new \subseteq Paths
    OBVIOUS
  <2> HIDE DEF changed, new, present
  <2>5. job' \in Jobs /\ job'.cur = job.cur
    BY <2>2, <2>3, <2>4 DEF Jobs
  <2>6. edits' \in 0..MaxEdits /\ faults' \in 0..MaxFaults
    BY <2>2, BoundsType, FaultType
  <2> QED
    BY <1>4, <2>1, <2>5, <2>6 DEF CheckObjects, tables, TypeInv, TypeOK, Started, Compared
<1>5. ASSUME NEW p \in Paths, DedupFile(p) PROVE TypeInv'
  <2>1. phase = "dedup" /\ phase' = phase /\ phase \in Working
    BY <1>5 DEF DedupFile, Phases, Working
  <2>2. job' \in Jobs /\ job'.cur = job.cur
    <3>1. CASE job' = [job EXCEPT !.pending = @ \ {p}, !.skipped = @ \cup {p}]
      BY <3>1 DEF Jobs
    <3>2. CASE job' = [job EXCEPT !.pending = @ \ {p}, !.upload = @ \cup {p}]
      BY <3>2 DEF Jobs
    <3> QED
      BY <1>5, <3>1, <3>2 DEF DedupFile
  <2>3. job.hash[p] \in Keys
    BY DEF Jobs
  <2>4. index' \in [Keys -> HashRows \cup {None}]
    BY <1>5, <2>3, IncrementType DEF DedupFile, TypeOK
  <2> QED
    BY <1>5, <2>1, <2>2, <2>4, BoundsType DEF DedupFile, TypeInv, TypeOK, Started, Compared
<1>6. CASE DedupDone
  <2>1. phase \in Working /\ phase' \in Phases /\ phase' # "hash"
    BY <1>6 DEF DedupDone, Phases, Working
  <2> QED
    BY <1>6, <2>1, BoundsType DEF DedupDone, tables, TypeInv, TypeOK, Started, Compared
<1>7. ASSUME NEW p \in Paths, SealFile(p) PROVE TypeInv'
  <2>1. phase = "upload" /\ phase' = phase /\ phase \in Working
    BY <1>7 DEF SealFile, Phases, Working
  <2>2. job.hash[p] \in Keys /\ disk[p] \in Hashes
    BY <1>7, <2>1 DEF SealFile, TypeOK, Jobs
  <2>3. <<runs, p>> \in IVs
    BY <2>1 DEF Started, IVs
  <2>4. [path |-> p, content |-> disk[p], iv |-> <<runs, p>>, comp |-> p \in Compressible,
         stored |-> FALSE] \in Items
    BY <2>2, <2>3 DEF Items
  <2>5. job' \in Jobs /\ job'.cur = job.cur
    BY <1>7, <2>4 DEF SealFile, Jobs
  <2>6. files' \in [Paths -> FileRows \cup {None}]
    BY <1>7, <2>2 DEF SealFile, UpsertFile, TypeOK, FileRows
  <2> QED
    BY <1>7, <2>1, <2>5, <2>6, BoundsType DEF SealFile, TypeInv, TypeOK, Started, Compared
<1>8. ASSUME NEW p \in Paths, FailBeforeSealing(p) PROVE TypeInv'
  <2>1. phase = "upload" /\ FileFails(p)
    BY <1>8 DEF FailBeforeSealing
  <2>2. edits' \in 0..MaxEdits /\ faults' \in 0..MaxFaults
    BY <1>8, BoundsType, FaultType DEF FailBeforeSealing
  <2> QED
    BY <2>1, <2>2, FailType
<1>9. CASE UploadObject
  <2>1. /\ phase = "upload" /\ phase' = phase /\ job.item # None
        /\ PutObject \/ ReuseNonce \/ OverwriteFrozen \/ UploadUnsure
    BY <1>9 DEF UploadObject
  <2>2. job.item \in Items /\ ItemKey \in Keys /\ ItemObject \in Objects
    BY <2>1, ItemType
  <2>3. job' \in Jobs /\ job'.cur = job.cur
    <3>1. CASE ReuseNonce
      <4>1. oss[ItemKey].iv \in IVs
        BY <2>2, <3>1 DEF ReuseNonce, TypeOK, Objects
      <4>2. [job.item EXCEPT !.iv = oss[ItemKey].iv, !.stored = TRUE] \in Items
        BY <2>2, <4>1 DEF Items
      <4>3. job' = [job EXCEPT !.item = [job.item EXCEPT !.iv = oss[ItemKey].iv, !.stored = TRUE]]
        BY <3>1 DEF ReuseNonce, Jobs
      <4> QED
        BY <4>2, <4>3 DEF Jobs
    <3>2. CASE PutObject \/ OverwriteFrozen \/ UploadUnsure
      <4>1. job' = [job EXCEPT !.item.stored = TRUE]
        BY <3>2 DEF PutObject, OverwriteFrozen, UploadUnsure
      <4>2. [job.item EXCEPT !.stored = TRUE] \in Items
        BY <2>2 DEF Items
      <4>3. job' = [job EXCEPT !.item = [job.item EXCEPT !.stored = TRUE]]
        BY <4>1 DEF Jobs
      <4> QED
        BY <4>2, <4>3 DEF Jobs
    <3> QED
      BY <2>1, <3>1, <3>2
  <2>4. oss' \in [Keys -> Objects \cup {None}]
    BY <2>1, <2>2 DEF PutObject, ReuseNonce, OverwriteFrozen, UploadUnsure, TypeOK
  <2>5. edits' \in 0..MaxEdits /\ faults' \in 0..MaxFaults
    BY <2>1, BoundsType, FaultType DEF PutObject, ReuseNonce, OverwriteFrozen, UploadUnsure
  <2> QED
    BY <1>9, <2>1, <2>3, <2>4, <2>5 DEF UploadObject, tables, TypeInv, TypeOK, Started, Compared
<1>10. CASE RecordUpload
  <2> DEFINE p == job.item.path
             m == [iv |-> job.item.iv, comp |-> job.item.comp]
             metas == IF ItemKey = NoHash THEN job.meta ELSE [job.meta EXCEPT ![ItemKey] = m]
  <2>1. phase = "upload" /\ phase' = phase /\ job.item # None
    BY <1>10 DEF RecordUpload
  <2>2. job.item \in Items /\ p \in Paths /\ ItemKey \in Keys
    BY <2>1, ItemType
  <2>3. m \in Metas
    BY <2>2 DEF Items, Metas
  <2>4. RowOf(p, m) \in BackupRows
    BY <2>2, <2>3 DEF Metas, RowOf, BackupRows, Jobs
  <2>5. metas \in [Keys -> Metas \cup {None}]
    BY <2>2, <2>3 DEF Jobs
  <2>6. job' = [job EXCEPT !.item = None, !.batch = job.batch \cup {RowOf(p, m)}, !.meta = metas]
    BY <1>10 DEF RecordUpload, Jobs
  <2> HIDE DEF metas, m, p
  <2>7. job' \in Jobs /\ job'.cur = job.cur
    BY <2>4, <2>5, <2>6 DEF Jobs
  <2>8. index' \in [Keys -> HashRows \cup {None}]
    BY <1>10, <2>2, UpsertHashType DEF RecordUpload, TypeOK
  <2>9. files' \in [Paths -> FileRows \cup {None}]
    BY <1>10, <2>2, MarkedType DEF RecordUpload, p, TypeOK
  <2>10. edits' \in 0..MaxEdits /\ faults' \in 0..MaxFaults
    BY <1>10, BoundsType, FaultType DEF RecordUpload
  <2> QED
    BY <1>10, <2>1, <2>7, <2>8, <2>9, <2>10 DEF RecordUpload, TypeInv, TypeOK, Started, Compared
<1>11. CASE FailAfterSealing
  <2>1. phase = "upload" /\ job.item # None /\ FileFails(job.item.path)
    BY <1>11 DEF FailAfterSealing
  <2>2. edits' \in 0..MaxEdits /\ faults' \in 0..MaxFaults
    BY <1>11, BoundsType, FaultType DEF FailAfterSealing
  <2> QED
    BY <2>1, <2>2, ItemType, FailType
<1>12. CASE UploadsDone
  <2>1. phase \in Working /\ phase' \in Phases /\ phase' # "hash"
    BY <1>12 DEF UploadsDone, Phases, Working
  <2> QED
    BY <1>12, <2>1, BoundsType DEF UploadsDone, tables, TypeInv, TypeOK, Started, Compared
<1>13. ASSUME NEW p \in Paths, RecordSkipped(p) PROVE TypeInv'
  <2> DEFINE fs == UpsertMarked(p, job.hash[p], "success")
  <2>1. phase = "skip" /\ phase' = phase
    BY <1>13 DEF RecordSkipped
  <2>2. job.hash[p] \in Keys
    BY DEF Jobs
  <2>3. fs \in [Paths -> FileRows \cup {None}]
    BY <2>2, MarkedType
  <2>4. PICK m \in SkippedMeta(fs, p) :
          job' = [job EXCEPT !.skipped = @ \ {p}, !.batch = @ \cup {RowOf(p, m)}]
    BY <1>13 DEF RecordSkipped
  <2>5. m \in Metas
    BY <2>4, SkippedMetaType
  <2>6. RowOf(p, m) \in BackupRows
    BY <2>2, <2>5 DEF Metas, RowOf, BackupRows, Jobs
  <2>7. job' \in Jobs /\ job'.cur = job.cur
    BY <2>4, <2>6 DEF Jobs
  <2>8. files' = fs /\ UNCHANGED <<disk, seen, oss, snap, torn, index, synthetic, rows, backups, phase, runs, bounds>>
    BY <1>13 DEF RecordSkipped
  <2> HIDE DEF fs
  <2> QED
    BY <2>1, <2>3, <2>7, <2>8, BoundsType DEF TypeInv, TypeOK, Started, Compared
<1>14. CASE SkipsDone
  <2>1. phase \in Working /\ phase' \in Phases /\ phase' # "hash"
    BY <1>14 DEF SkipsDone, Phases, Working
  <2> QED
    BY <1>14, <2>1, BoundsType DEF SkipsDone, tables, TypeInv, TypeOK, Started, Compared
<1>15. CASE AddBackupFiles
  <2>1. phase \in Working /\ phase' \in Phases /\ phase' # "hash"
    BY <1>15 DEF AddBackupFiles, Phases, Working
  <2>2. rows' \subseteq BackupRows
    BY <1>15 DEF AddBackupFiles, TypeOK, Jobs
  <2> QED
    BY <1>15, <2>1, <2>2, BoundsType DEF AddBackupFiles, TypeInv, TypeOK, Started, Compared
<1>16. CASE MarkDeleted
  <2>1. phase \in Working /\ phase' \in Phases /\ phase' # "hash"
    BY <1>16 DEF MarkDeleted, Phases, Working
  <2>2. files' \in [Paths -> FileRows \cup {None}]
    <3>1. ASSUME NEW p \in Paths, files[p] # None
          PROVE  [files[p] EXCEPT !.status = "deleted"] \in FileRows
      BY <3>1 DEF TypeOK, FileRows
    <3> QED
      BY <1>16, <3>1 DEF MarkDeleted, TypeOK
  <2> QED
    BY <1>16, <2>1, <2>2, BoundsType DEF MarkDeleted, TypeInv, TypeOK, Started, Compared
<1>17. ASSUME NEW p \in Paths, ReleaseFile(p) PROVE TypeInv'
  <2>1. phase = "unref" /\ phase' = phase
    BY <1>17 DEF ReleaseFile
  <2>2. job' \in Jobs /\ job'.cur = job.cur
    BY <1>17 DEF ReleaseFile, Jobs
  <2>3. files[p] # None => files[p].hash \in Keys
    BY DEF TypeOK, FileRows
  <2>4. index' \in [Keys -> HashRows \cup {None}]
    BY <1>17, <2>3, DecrementType DEF ReleaseFile, TypeOK
  <2> QED
    BY <1>17, <2>1, <2>2, <2>4, BoundsType DEF ReleaseFile, TypeInv, TypeOK, Started, Compared
<1>18. CASE ReleasesDone
  <2>1. phase \in Working /\ phase' \in Phases /\ phase' # "hash"
    BY <1>18 DEF ReleasesDone, Phases, Working
  <2> QED
    BY <1>18, <2>1, BoundsType DEF ReleasesDone, tables, TypeInv, TypeOK, Started, Compared
<1>19. CASE Complete
  <2>1. phase \in Working /\ phase' \in Phases /\ phase' # "hash"
    BY <1>19 DEF Complete, Phases, Working
  <2>2. backups' \in Seq(Statuses) /\ backups' # << >> /\ Len(backups') = Len(backups)
    BY <1>19, <2>1, StatusType DEF Complete, Statuses
  <2> QED
    BY <1>19, <2>1, <2>2, BoundsType DEF Complete, TypeInv, TypeOK, Started, Compared
<1>20. CASE PushSnapshot \/ PushFails
  <2>1. /\ phase' \in Phases /\ phase' \notin Working /\ phase' # "hash"
        /\ job' = NoJob /\ UNCHANGED <<disk, seen, oss, tables, runs>>
    BY <1>20 DEF PushSnapshot, PushFails, EndSession, Phases, Working
  <2>2. snap' \in Snapshots \cup {None} /\ torn' \in BOOLEAN
    <3>1. CASE PushSnapshot
      BY <3>1, DatabaseType DEF PushSnapshot
    <3>2. CASE PushFails
      BY <3>2 DEF PushFails, PushFailed, Tear, TypeOK
    <3> QED
      BY <1>20, <3>1, <3>2
  <2>3. edits' \in 0..MaxEdits /\ faults' \in 0..MaxFaults
    BY <1>20, BoundsType, FaultType DEF PushSnapshot, PushFails
  <2> QED
    BY <2>1, <2>2, <2>3, NoJobType DEF tables, TypeInv, TypeOK, Started, Compared
<1>21. CASE NoticeCancel
  <2>1. phase \in Working /\ Abort /\ UNCHANGED bounds
    BY <1>21 DEF NoticeCancel, CancelNoticed, Phases, Working
  <2> QED
    BY <2>1, AbortType, BoundsType
<1>22. CASE HardError
  <2>1. phase \in Working /\ Abort /\ Fault("hardError")
    BY <1>22 DEF HardError, HardPhases, Phases, Working
  <2> QED
    BY <2>1, AbortType, FaultType
<1>23. CASE Restart
  <2>1. /\ job' = job /\ phase' = "idle" /\ phase' \in Phases /\ phase' \notin Working
        /\ UNCHANGED <<disk, seen, oss, snap, torn, runs>>
    BY <1>23 DEF Restart, Phases, Working
  <2>2. Cleaned \in Snapshots
    BY CleanedType
  <2>3. PICK d \in {Cleaned, Pulled(Cleaned)} :
          /\ files' = d.files /\ index' = d.index /\ synthetic' = d.synthetic
          /\ rows' = d.rows /\ backups' = d.backups
    BY <1>23 DEF Restart, LoadDatabase
  <2>4. /\ d.files \in [Paths -> FileRows \cup {None}] /\ d.index \in [Keys -> HashRows \cup {None}]
        /\ d.synthetic \subseteq Keys /\ d.rows \subseteq BackupRows /\ d.backups \in Seq(Statuses)
    BY <2>2, <2>3, PulledType DEF Snapshots
  <2>5. edits' \in 0..MaxEdits /\ faults' \in 0..MaxFaults
    BY <1>23, BoundsType, FaultType DEF Restart
  <2> QED
    BY <2>1, <2>3, <2>4, <2>5 DEF TypeInv, TypeOK, Started, Compared
<1>24. ASSUME NEW p \in Paths, NEW c \in Hashes \cup {None}, Edit(p, c) PROVE TypeInv'
  <2>1. disk' \in [Paths -> Hashes \cup {None}] /\ seen' \subseteq Hashes
    BY <1>24 DEF Edit, TypeOK
  <2>2. edits' \in 0..MaxEdits
    BY <1>24, BoundsAssumption DEF Edit, TypeOK
  <2> QED
    BY <1>24, <2>1, <2>2 DEF Edit, tables, TypeInv, TypeOK, Started, Compared
<1>25. CASE Cancel
  <2>1. job' \in Jobs /\ job'.cur = job.cur /\ job'.kind = job.kind
    BY <1>25 DEF Cancel, Jobs
  <2> QED
    BY <1>25, <2>1, FaultType DEF Cancel, tables, TypeInv, TypeOK, Started, Compared
<1>26. CASE Crash
  <2>1. phase' \in Phases /\ phase' \notin Working /\ phase' # "hash" /\ job' \in Jobs
    BY <1>26, NoJobType DEF Crash, Phases, Working
  <2>2. snap' \in Snapshots \cup {None} /\ torn' \in BOOLEAN
    BY <1>26 DEF Crash, Tear, TypeOK
  <2> QED
    BY <1>26, <2>1, <2>2, FaultType DEF Crash, tables, TypeInv, TypeOK, Started, Compared
<1>27. ASSUME NEW k \in Keys, Lose(k) PROVE TypeInv'
  <2>1. oss' \in [Keys -> Objects \cup {None}]
    BY <1>27 DEF Lose, TypeOK
  <2> QED
    BY <1>27, <2>1, FaultType DEF Lose, tables, TypeInv, TypeOK, Started, Compared
<1>28. ASSUME NEW p \in Paths, FailUnmarked(p) PROVE TypeInv'
  <2>1. phase = "upload" /\ phase' = phase /\ job.hash[p] \in Keys
    BY <1>28 DEF FailUnmarked, Jobs
  <2>2. job' \in Jobs /\ job'.cur = job.cur
    BY <1>28 DEF FailUnmarked, Jobs
  <2>3. files' \in [Paths -> FileRows \cup {None}]
    BY <1>28, <2>1, UpsertType DEF FailUnmarked, TypeOK
  <2> QED
    BY <1>28, <2>1, <2>2, <2>3, FaultType DEF FailUnmarked, TypeInv, TypeOK, Started, Compared
<1>29. ASSUME NEW p \in Paths, SkipFails(p) PROVE TypeInv'
  BY <1>29, SkipFailsType, FaultType DEF SkipFails, TypeInv, TypeOK, Started, Compared
<1>30. ASSUME NEW p \in Paths, ReleaseFails(p) PROVE TypeInv'
  <2>1. phase = "unref" /\ phase' = phase /\ job' \in Jobs /\ job'.cur = job.cur
    BY <1>30 DEF ReleaseFails, Jobs
  <2> QED
    BY <1>30, <2>1, FaultType DEF ReleaseFails, tables, TypeInv, TypeOK, Started, Compared
<1>31. CASE CompleteUnrecorded
  <2>1. phase \in Working /\ phase' \in Phases /\ phase' # "hash"
    BY <1>31 DEF CompleteUnrecorded, Phases, Working
  <2> QED
    BY <1>31, <2>1, FaultType DEF CompleteUnrecorded, tables, TypeInv, TypeOK, Started, Compared
<1>32. CASE AbortUnrecorded
  BY <1>32, UnrecordedType DEF AbortUnrecorded
<1>33. CASE UNCHANGED vars
  BY <1>33 DEF vars, tables, bounds, TypeInv, TypeOK, Started, Compared
<1> QED
  BY <1>1, <1>2, <1>3, <1>4, <1>5, <1>6, <1>7, <1>8, <1>9, <1>10,
     <1>11, <1>12, <1>13, <1>14, <1>15, <1>16, <1>17, <1>18, <1>19, <1>20,
     <1>21, <1>22, <1>23, <1>24, <1>25, <1>26, <1>27, <1>28, <1>29, <1>30,
     <1>31, <1>32, <1>33
     DEF Next, SessionStep, Environment, Exhausted, Refused

\* Type correctness, and with it that a working session's record is the last one
\* of the table and that every IV it draws is of its own run.
THEOREM TypeCorrect == Spec => []TypeOK
<1>1. Init => TypeInv
  BY InitType
<1>2. TypeInv /\ [Next]_vars => TypeInv'
  BY NextType
<1>3. TypeInv => TypeOK
  BY DEF TypeInv
<1> QED
  BY <1>1, <1>2, <1>3, PTL DEF Spec

-----------------------------------------------------------------------------
(* What a step does to the locals of the session. *)

\* The session's locals as they are created.
LEMMA StartLocals ==
  ASSUME TypeInv, StartBackup
  PROVE  /\ job'.item = None /\ job'.pending = {} /\ job'.confirmed = {} /\ job'.upload = {}
         /\ job'.fresh = {} /\ job'.skipped = {} /\ job'.gone = {} /\ job'.batch = {}
         /\ job'.meta = [k \in Keys |-> None] /\ job'.failed = FALSE /\ job'.cancelled = FALSE
         /\ job'.kind = [p \in Paths |-> "none"] /\ job'.hash = [p \in Paths |-> NoHash]
         /\ job'.cur = Len(Pulled(Database).backups) + 1
BY DEF StartBackup, NoJob

LEMMA ScanLocals ==
  ASSUME TypeInv, Scan
  PROVE  /\ UNCHANGED <<job.cur, job.hash, job.pending, job.confirmed, job.upload, job.fresh,
                        job.skipped, job.gone, job.item, job.batch, job.meta, job.failed,
                        job.cancelled>>
         /\ \E W \in SUBSET {p \in Paths : disk[p] # None} :
              /\ \A p \in Paths : IF p \in W THEN job'.kind[p] = LostInWalk(p)
                                  ELSE job'.kind[p] \in KindsOf(p)
              /\ IF W = {} THEN UNCHANGED bounds ELSE Fault("walkError")
<1>1. PICK kind \in [Paths -> Kinds], W \in SUBSET {p \in Paths : disk[p] # None} :
        /\ \A p \in Paths : IF p \in W THEN kind[p] = LostInWalk(p) ELSE kind[p] \in KindsOf(p)
        /\ IF W = {} THEN UNCHANGED bounds ELSE Fault("walkError")
        /\ job' = [job EXCEPT !.kind = kind]
  BY DEF Scan
<1>2. job \in Jobs
  BY DEF TypeInv, TypeOK
<1>3. job'.kind = kind
  BY <1>1, <1>2 DEF Jobs
<1>4. UNCHANGED <<job.cur, job.hash, job.pending, job.confirmed, job.upload, job.fresh,
                  job.skipped, job.gone, job.item, job.batch, job.meta, job.failed, job.cancelled>>
  BY <1>1, <1>2 DEF Jobs
<1> QED
  BY <1>1, <1>3, <1>4

LEMMA HashLocals ==
  ASSUME TypeInv, ComputeHashes
  PROVE  /\ UNCHANGED <<job.cur, job.kind, job.pending, job.confirmed, job.upload, job.fresh,
                        job.skipped, job.item, job.batch, job.meta, job.failed, job.cancelled>>
         /\ job'.gone = {p \in Paths : job.kind[p] = "deleted"}
         /\ \E E \in SUBSET {p \in Paths : job.kind[p] \in {"added", "modified"} /\ disk[p] # None} :
              /\ job'.hash = [p \in Paths |-> NewHash(p, E)]
              /\ IF E = {} THEN UNCHANGED bounds ELSE Fault("hashError")
<1>1. PICK E \in SUBSET {p \in Paths : job.kind[p] \in {"added", "modified"} /\ disk[p] # None} :
        /\ IF E = {} THEN UNCHANGED bounds ELSE Fault("hashError")
        /\ job' = [job EXCEPT !.hash = [p \in Paths |-> NewHash(p, E)],
                              !.gone = {p \in Paths : job.kind[p] = "deleted"}]
  BY DEF ComputeHashes
<1>2. job \in Jobs
  BY DEF TypeInv, TypeOK
<1>3. /\ job'.hash = [p \in Paths |-> NewHash(p, E)]
      /\ job'.gone = {p \in Paths : job.kind[p] = "deleted"}
  BY <1>1, <1>2 DEF Jobs
<1>4. UNCHANGED <<job.cur, job.kind, job.pending, job.confirmed, job.upload, job.fresh,
                  job.skipped, job.item, job.batch, job.meta, job.failed, job.cancelled>>
  BY <1>1, <1>2 DEF Jobs
<1> QED
  BY <1>1, <1>3, <1>4

\* The files a session processes.
Present == {p \in Paths : job.kind[p] \in {"added", "modified", "unchanged"}}
NewContents == {p \in Present : job.hash[p] = NoHash \/ index[job.hash[p]] = None}
KnownKeys == ExistsBatch({job.hash[p] : p \in Present \ NewContents})

LEMMA CheckLocals ==
  ASSUME TypeInv, CheckObjects
  PROVE  /\ UNCHANGED <<job.cur, job.kind, job.hash, job.skipped, job.gone, job.item,
                        job.batch, job.meta, job.failed, job.cancelled>>
         /\ job'.upload = NewContents /\ job'.fresh = NewContents
         /\ job'.pending = Present \ NewContents
         /\ job'.confirmed \subseteq KnownKeys
         /\ IF job'.confirmed = KnownKeys THEN UNCHANGED bounds ELSE Fault("batchCheckError")
<1>1. PICK C \in SUBSET KnownKeys :
        /\ IF C = KnownKeys THEN UNCHANGED bounds ELSE Fault("batchCheckError")
        /\ job' = [job EXCEPT !.upload = NewContents, !.fresh = NewContents,
                              !.pending = Present \ NewContents, !.confirmed = C]
  BY DEF CheckObjects, Present, NewContents, KnownKeys
<1>2. job \in Jobs
  BY DEF TypeInv, TypeOK
<1>3. /\ job'.upload = NewContents /\ job'.fresh = NewContents
      /\ job'.pending = Present \ NewContents /\ job'.confirmed = C
  BY <1>1, <1>2 DEF Jobs
<1>4. UNCHANGED <<job.cur, job.kind, job.hash, job.skipped, job.gone, job.item,
                  job.batch, job.meta, job.failed, job.cancelled>>
  BY <1>1, <1>2 DEF Jobs
<1> QED
  BY <1>1, <1>3, <1>4

LEMMA DedupLocals ==
  ASSUME TypeInv, NEW p \in Paths, DedupFile(p)
  PROVE  /\ UNCHANGED <<job.cur, job.kind, job.hash, job.confirmed, job.fresh, job.gone,
                        job.item, job.batch, job.meta, job.failed, job.cancelled>>
         /\ job'.pending = job.pending \ {p}
         /\ IF job.hash[p] \in job.confirmed
            THEN job'.upload = job.upload /\ job'.skipped = job.skipped \cup {p}
            ELSE job'.upload = job.upload \cup {p} /\ job'.skipped = job.skipped
BY DEF DedupFile, TypeInv, TypeOK, Jobs

LEMMA SealLocals ==
  ASSUME TypeInv, NEW p \in Paths, SealFile(p)
  PROVE  /\ UNCHANGED <<job.cur, job.kind, job.hash, job.pending, job.confirmed, job.fresh,
                        job.skipped, job.gone, job.batch, job.meta, job.failed, job.cancelled>>
         /\ job'.upload = job.upload \ {p}
         /\ job'.item = [path |-> p, content |-> disk[p], iv |-> <<runs, p>>,
                         comp |-> p \in Compressible, stored |-> FALSE]
BY DEF SealFile, TypeInv, TypeOK, Jobs

\* What is sealed is an item of this run.
LEMMA SealItem ==
  ASSUME TypeInv, NEW p \in Paths, SealFile(p)
  PROVE  [path |-> p, content |-> disk[p], iv |-> <<runs, p>>, comp |-> p \in Compressible,
          stored |-> FALSE] \in Items
<1>1. disk[p] \in Hashes /\ <<runs, p>> \in IVs
  BY DEF SealFile, TypeInv, TypeOK, Started, Phases, Working, IVs
<1> QED
  BY <1>1 DEF Items

\* Whatever the store answered: the item is stored, its IV its own or the object's.
LEMMA UploadLocals ==
  ASSUME TypeInv, UploadObject
  PROVE  /\ UNCHANGED <<job.cur, job.kind, job.hash, job.pending, job.confirmed, job.upload,
                        job.fresh, job.skipped, job.gone, job.batch, job.meta, job.failed,
                        job.cancelled>>
         /\ UNCHANGED <<job.item.path, job.item.content, job.item.comp>>
         /\ job'.item.stored = TRUE /\ job'.item # None
         /\ IF ReuseNonce THEN job'.item.iv = oss[ItemKey].iv ELSE job'.item.iv = job.item.iv
<1>1. job \in Jobs /\ job.item \in Items
  BY ItemType DEF UploadObject, TypeInv, TypeOK
<1>2. CASE ReuseNonce
  <2>1. job' = [job EXCEPT !.item.iv = oss[ItemKey].iv, !.item.stored = TRUE]
    BY <1>2 DEF ReuseNonce
  <2>2. job'.item = [job.item EXCEPT !.iv = oss[ItemKey].iv, !.stored = TRUE]
    BY <1>1, <2>1 DEF Jobs
  <2>3. UNCHANGED <<job.cur, job.kind, job.hash, job.pending, job.confirmed, job.upload,
                    job.fresh, job.skipped, job.gone, job.batch, job.meta, job.failed, job.cancelled>>
    BY <1>1, <2>1 DEF Jobs
  <2>4. job'.item \in Items
    <3>1. ItemKey \in Keys /\ oss[ItemKey] \in Objects
      BY <1>2, ItemType DEF UploadObject, ReuseNonce, TypeInv, TypeOK
    <3>2. oss[ItemKey].iv \in IVs
      BY <3>1 DEF Objects
    <3> QED
      BY <1>1, <2>2, <3>2 DEF Items
  <2>5. job'.item # None
    BY <2>4, NoneAssumption
  <2> QED
    BY <1>1, <1>2, <2>2, <2>3, <2>5 DEF Items
<1>3. CASE ~ReuseNonce /\ (PutObject \/ OverwriteFrozen \/ UploadUnsure)
  <2>1. job' = [job EXCEPT !.item.stored = TRUE]
    BY <1>3 DEF PutObject, OverwriteFrozen, UploadUnsure
  <2>2. job'.item = [job.item EXCEPT !.stored = TRUE]
    BY <1>1, <2>1 DEF Jobs
  <2>3. UNCHANGED <<job.cur, job.kind, job.hash, job.pending, job.confirmed, job.upload,
                    job.fresh, job.skipped, job.gone, job.batch, job.meta, job.failed, job.cancelled>>
    BY <1>1, <2>1 DEF Jobs
  <2>4. job'.item \in Items
    BY <1>1, <2>2 DEF Items
  <2>5. job'.item # None
    BY <2>4, NoneAssumption
  <2> QED
    BY <1>1, <1>3, <2>2, <2>3, <2>5 DEF Items
<1> QED
  BY <1>2, <1>3 DEF UploadObject

LEMMA RecordLocals ==
  ASSUME TypeInv, RecordUpload
  PROVE  LET p == job.item.path
             m == [iv |-> job.item.iv, comp |-> job.item.comp] IN
         /\ UNCHANGED <<job.cur, job.kind, job.hash, job.pending, job.confirmed, job.upload,
                        job.fresh, job.skipped, job.gone, job.failed, job.cancelled>>
         /\ job'.item = None
         /\ job'.batch = job.batch \cup {RowOf(p, m)}
         /\ job'.meta = IF ItemKey = NoHash THEN job.meta ELSE [job.meta EXCEPT ![ItemKey] = m]
BY DEF RecordUpload, TypeInv, TypeOK, Jobs

LEMMA FailLocals ==
  ASSUME TypeInv, NEW p, FileFails(p)
  PROVE  /\ UNCHANGED <<job.cur, job.kind, job.hash, job.pending, job.confirmed, job.fresh,
                        job.skipped, job.gone, job.batch, job.meta, job.cancelled>>
         /\ job'.upload = job.upload \ {p} /\ job'.item = None /\ job'.failed = TRUE
BY DEF FileFails, TypeInv, TypeOK, Jobs

LEMMA UnmarkedLocals ==
  ASSUME TypeInv, NEW p, FailUnmarked(p)
  PROVE  /\ UNCHANGED <<job.cur, job.kind, job.hash, job.pending, job.confirmed, job.fresh,
                        job.skipped, job.gone, job.batch, job.meta, job.cancelled>>
         /\ job'.upload = job.upload \ {p} /\ job'.item = None /\ job'.failed = TRUE
BY DEF FailUnmarked, TypeInv, TypeOK, Jobs

\* The metadata is the file's own, or left out.
LEMMA SkipFailsLocals ==
  ASSUME TypeInv, NEW p \in Paths, SkipFails(p)
  PROVE  /\ UNCHANGED <<job.cur, job.kind, job.hash, job.pending, job.confirmed, job.upload,
                        job.fresh, job.gone, job.item, job.meta, job.failed, job.cancelled>>
         /\ job'.skipped = job.skipped \ {p}
         /\ job'.batch = job.batch \/ \E m : job'.batch = job.batch \cup {RowOf(p, m)}
<1>1. job \in Jobs
  BY DEF TypeInv, TypeOK
<1>2. \/ job' = [job EXCEPT !.skipped = @ \ {p}]
      \/ \E m : job' = [job EXCEPT !.skipped = @ \ {p}, !.batch = @ \cup {RowOf(p, m)}]
  BY DEF SkipFails
<1> QED
  BY <1>1, <1>2 DEF Jobs

LEMMA ReleaseFailsLocals ==
  ASSUME TypeInv, NEW p \in Paths, ReleaseFails(p)
  PROVE  /\ UNCHANGED <<job.cur, job.kind, job.hash, job.pending, job.confirmed, job.upload,
                        job.fresh, job.skipped, job.item, job.batch, job.meta, job.failed,
                        job.cancelled>>
         /\ job'.gone = job.gone \ {p}
BY DEF ReleaseFails, TypeInv, TypeOK, Jobs

LEMMA SkipLocals ==
  ASSUME TypeInv, NEW p \in Paths, RecordSkipped(p)
  PROVE  /\ UNCHANGED <<job.cur, job.kind, job.hash, job.pending, job.confirmed, job.upload,
                        job.fresh, job.gone, job.item, job.meta, job.failed, job.cancelled>>
         /\ job'.skipped = job.skipped \ {p}
         /\ \E m \in SkippedMeta(UpsertMarked(p, job.hash[p], "success"), p) :
              job'.batch = job.batch \cup {RowOf(p, m)}
<1>1. PICK m \in SkippedMeta(UpsertMarked(p, job.hash[p], "success"), p) :
        job' = [job EXCEPT !.skipped = @ \ {p}, !.batch = @ \cup {RowOf(p, m)}]
  BY DEF RecordSkipped
<1> QED
  BY <1>1 DEF TypeInv, TypeOK, Jobs

LEMMA ReleaseLocals ==
  ASSUME TypeInv, NEW p \in Paths, ReleaseFile(p)
  PROVE  /\ UNCHANGED <<job.cur, job.kind, job.hash, job.pending, job.confirmed, job.upload,
                        job.fresh, job.skipped, job.item, job.batch, job.meta, job.failed,
                        job.cancelled>>
         /\ job'.gone = job.gone \ {p}
BY DEF ReleaseFile, TypeInv, TypeOK, Jobs

LEMMA CancelLocals ==
  ASSUME TypeInv, Cancel
  PROVE  /\ UNCHANGED <<job.cur, job.kind, job.hash, job.pending, job.confirmed, job.upload,
                        job.fresh, job.skipped, job.gone, job.item, job.batch, job.meta, job.failed>>
         /\ job'.cancelled = TRUE
BY DEF Cancel, TypeInv, TypeOK, Jobs
=============================================================================
