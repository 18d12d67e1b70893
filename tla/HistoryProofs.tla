---------------------------- MODULE HistoryProofs ----------------------------
(***************************************************************************)
(* What the local database and the pushed snapshot remember: no session is *)
(* left running, no push loses history, a cancelled session has no rows, a *)
(* completed one has a row of everything on the disk, the reference counts *)
(* cover the files, and the history is a ledger.                          *)
(***************************************************************************)
EXTENDS BackupProofs, FiniteSetTheorems

\* The phases before and after the transaction that writes the session's rows.
Early == {"scan", "hash", "check", "dedup", "upload", "skip", "index"}
Late == {"delete", "unref", "status"}

\* A step inside a session that touches neither the snapshot, the sessions nor
\* the rows; the rows it puts aside are the session's.
Quiet ==
  /\ \/ phase \in Early /\ phase' \in Early
     \/ phase \in Late /\ phase' \in Late
  /\ UNCHANGED <<snap, backups, rows>>
  /\ job'.cur = job.cur
  /\ \A r \in job'.batch : r \in job.batch \/ r.backup = job.cur

\* A step beside the session: of the disk, of the store, a cancellation.
Aside ==
  /\ UNCHANGED <<snap, backups, rows, phase>>
  /\ job'.cur = job.cur /\ job'.batch = job.batch

\* The session returned an error.  After its rows were written only a failing
\* database statement does that.
Aborted ==
  /\ Abort
  /\ phase \in Early \/ (phase \in Late /\ "hardError" \in Faults)

\* The session ends without a word: a failed push, or a crash, in the middle of a push
\* perhaps.
Dropped ==
  /\ UNCHANGED <<backups, rows>>
  /\ \/ phase' = "down" /\ UNCHANGED snap
     \/ phase = "push" /\ phase' \in {"idle", "down"} /\ snap' \in {snap, None}

\* The status a session ends with could not be written: it returns an error, or goes
\* on to the push.
Unrecorded ==
  /\ "statusError" \in Faults
  /\ phase \in Early \cup Late /\ UNCHANGED <<snap, backups, rows>>
  /\ phase' = "idle" \/ (phase = "status" /\ phase' = "push" /\ job' = job)

\* Every step is of one of these kinds.
LEMMA StepKinds ==
  ASSUME TypeInv, [Next]_vars
  PROVE  \/ StartBackup \/ Scan \/ AddBackupFiles \/ Complete \/ PushSnapshot \/ Restart
         \/ Quiet \/ Aside \/ Aborted \/ Dropped \/ Unrecorded
<1>1. job \in Jobs
  BY DEF TypeInv, TypeOK
<1>2. ASSUME NEW p \in Paths, DedupFile(p) PROVE Quiet
  <2>1. job'.cur = job.cur /\ \A r \in job'.batch : r \in job.batch \/ r.backup = job.cur
    BY <1>1, <1>2 DEF DedupFile, Jobs
  <2> QED
    BY <1>2, <2>1 DEF DedupFile, Quiet, Early
<1>3. ASSUME NEW p \in Paths, SealFile(p) PROVE Quiet
  <2>1. job'.cur = job.cur /\ \A r \in job'.batch : r \in job.batch \/ r.backup = job.cur
    BY <1>1, <1>3 DEF SealFile, Jobs
  <2> QED
    BY <1>3, <2>1 DEF SealFile, Quiet, Early
<1>4. ASSUME NEW p \in Paths, FileFails(p), phase = "upload" PROVE Quiet
  <2>1. job'.cur = job.cur /\ \A r \in job'.batch : r \in job.batch \/ r.backup = job.cur
    BY <1>1, <1>4 DEF FileFails, Jobs
  <2> QED
    BY <1>4, <2>1 DEF FileFails, Quiet, Early
<1>5. ASSUME NEW p \in Paths, RecordSkipped(p) PROVE Quiet
  <2>1. job'.cur = job.cur /\ \A r \in job'.batch : r \in job.batch \/ r.backup = job.cur
    BY <1>1, <1>5 DEF RecordSkipped, RowOf, Jobs
  <2> QED
    BY <1>5, <2>1 DEF RecordSkipped, Quiet, Early
<1>6. ASSUME NEW p \in Paths, ReleaseFile(p) PROVE Quiet
  <2>1. job'.cur = job.cur /\ \A r \in job'.batch : r \in job.batch \/ r.backup = job.cur
    BY <1>1, <1>6 DEF ReleaseFile, Jobs
  <2> QED
    BY <1>6, <2>1 DEF ReleaseFile, Quiet, Late
<1>7. CASE ComputeHashes \/ CheckObjects
  <2>1. job'.cur = job.cur /\ \A r \in job'.batch : r \in job.batch \/ r.backup = job.cur
    BY <1>1, <1>7 DEF ComputeHashes, CheckObjects, Jobs
  <2> QED
    BY <1>7, <2>1 DEF ComputeHashes, CheckObjects, Quiet, Early, tables
<1>8. CASE DedupDone \/ UploadsDone \/ SkipsDone
  BY <1>8 DEF DedupDone, UploadsDone, SkipsDone, Quiet, Early, tables
<1>9. CASE MarkDeleted \/ ReleasesDone
  BY <1>9 DEF MarkDeleted, ReleasesDone, Quiet, Late, tables
<1>10. CASE UploadObject
  <2>1. job'.cur = job.cur /\ job'.batch = job.batch
    BY <1>1, <1>10 DEF UploadObject, PutObject, ReuseNonce, OverwriteFrozen, UploadUnsure, Jobs
  <2> QED
    BY <1>10, <2>1 DEF UploadObject, Quiet, Early, tables
<1>11. CASE RecordUpload
  <2>1. job'.cur = job.cur /\ \A r \in job'.batch : r \in job.batch \/ r.backup = job.cur
    BY <1>1, <1>11 DEF RecordUpload, RowOf, Jobs
  <2> QED
    BY <1>11, <2>1 DEF RecordUpload, Quiet, Early
<1>12. CASE NoticeCancel
  BY <1>12 DEF NoticeCancel, CancelNoticed, Aborted, Early
<1>13. CASE HardError
  BY <1>13 DEF HardError, HardPhases, Aborted, Early, Late, Fault
<1>14. CASE PushFails \/ Crash
  BY <1>14 DEF PushFails, PushFailed, Tear, Crash, EndSession, Dropped, tables
<1>15. CASE Cancel
  BY <1>1, <1>15 DEF Cancel, Aside, Jobs, tables
<1>16. ASSUME NEW k \in Keys, Lose(k) PROVE Aside
  BY <1>16 DEF Lose, Aside, tables
<1>17. ASSUME NEW p \in Paths, NEW c \in Hashes \cup {None}, Edit(p, c) PROVE Aside
  BY <1>17 DEF Edit, Aside, tables
<1>18. CASE UNCHANGED vars
  BY <1>18 DEF vars, Aside, tables
<1>19. ASSUME NEW p \in Paths, FailBeforeSealing(p) PROVE Quiet
  BY <1>4, <1>19 DEF FailBeforeSealing
<1>20. CASE FailAfterSealing
  <2>1. phase = "upload" /\ FileFails(job.item.path) /\ job.item.path \in Paths
    BY <1>20, ItemType DEF FailAfterSealing, TypeInv
  <2> QED
    BY <1>4, <2>1
<1>21. ASSUME NEW p \in Paths, FailUnmarked(p) PROVE Quiet
  BY <1>21, UnmarkedLocals DEF FailUnmarked, Quiet, Early
<1>22. ASSUME NEW p \in Paths, SkipFails(p) PROVE Quiet
  <2>1. job'.cur = job.cur /\ \A r \in job'.batch : r \in job.batch \/ r.backup = job.cur
    BY <1>22, SkipFailsLocals DEF RowOf
  <2> QED
    BY <1>22, <2>1 DEF SkipFails, Quiet, Early
<1>23. ASSUME NEW p \in Paths, ReleaseFails(p) PROVE Quiet
  BY <1>23, ReleaseFailsLocals DEF ReleaseFails, Quiet, Late, tables
<1>24. CASE CompleteUnrecorded \/ AbortUnrecorded
  BY <1>24 DEF CompleteUnrecorded, AbortUnrecorded, CancelNoticed, HardPhases, EndUnrecorded,
               EndSession, Fault, Unrecorded, Early, Late, tables
<1> QED
  BY <1>2, <1>3, <1>5, <1>6, <1>7, <1>8, <1>9, <1>10, <1>11, <1>12, <1>13, <1>14, <1>15,
     <1>16, <1>17, <1>18, <1>19, <1>20, <1>21, <1>22, <1>23, <1>24
     DEF Next, SessionStep, Environment, Exhausted, Refused

-----------------------------------------------------------------------------
(* No session is left pending or running. *)

\* While a session works every other one is settled, and it is settled itself
\* by the time the database is pushed.
OthersSettled ==
  /\ phase \in {"idle", "push"} => Settled(backups)
  /\ phase \in Working => \A i \in DOMAIN backups : i # job.cur => backups[i] \notin Unsettled
  /\ snap # None => Settled(snap.backups)

LEMMA InitSettled == Init => OthersSettled
BY DEF Init, OthersSettled, Settled, Working

\* The database a session or a restart begins with is settled when the local one is.
LEMMA PulledSettled ==
  ASSUME OthersSettled, NEW local, Settled(local.backups)
  PROVE  Settled(Pulled(local).backups)
BY DEF OthersSettled, Pulled

LEMMA NextSettled ==
  ASSUME "statusError" \notin Faults
  PROVE  TypeInv /\ OthersSettled /\ [Next]_vars => OthersSettled'
<1> SUFFICES ASSUME TypeInv, OthersSettled, [Next]_vars PROVE OthersSettled'
  OBVIOUS
<1>0. TypeOK /\ backups \in Seq(Statuses) /\ DOMAIN backups = 1..Len(backups)
  BY LenProperties DEF TypeInv, TypeOK
<1>1. CASE StartBackup
  <2> DEFINE d == Pulled(Database)
  <2>1. phase = "idle" /\ Settled(Database.backups)
    BY <1>1 DEF StartBackup, OthersSettled, Database
  <2>2. Settled(d.backups)
    BY <2>1, PulledSettled
  <2>3. d.backups \in Seq(Statuses)
    BY <1>0, DatabaseType, PulledType
  <2>4. /\ backups' = Append(d.backups, "pending") /\ snap' = snap /\ phase' = "scan"
        /\ job' = [NoJob EXCEPT !.cur = Len(d.backups) + 1]
    BY <1>1 DEF StartBackup
  <2> HIDE DEF d
  <2>5. job'.cur = Len(d.backups) + 1
    BY <2>4, NoJobType DEF Jobs
  <2>6. \A i \in DOMAIN backups' : i # job'.cur => backups'[i] = d.backups[i] /\ i \in DOMAIN d.backups
    BY <2>3, <2>4, <2>5
  <2> QED
    BY <2>2, <2>4, <2>6 DEF OthersSettled, Settled
<1>2. CASE Scan
  <2>1. phase \in Working /\ phase' = "hash" /\ snap' = snap
    BY <1>2 DEF Scan, Phases, Working
  <2>2. job'.cur = job.cur
    BY <1>0, <1>2 DEF Scan, TypeOK, Jobs
  <2>3. /\ Len(backups') = Len(backups) /\ backups' \in Seq(Statuses)
        /\ \A i \in 1..Len(backups) \ {job.cur} : backups'[i] = backups[i]
    BY <1>2, <2>1, StatusType DEF Scan, Statuses
  <2>4. DOMAIN backups' = 1..Len(backups)
    BY <2>3, LenProperties
  <2> QED
    BY <1>0, <2>1, <2>2, <2>3, <2>4 DEF OthersSettled
<1>3. CASE AddBackupFiles
  BY <1>3 DEF AddBackupFiles, OthersSettled, Working, Phases
<1>4. CASE Complete
  <2>1. phase \in Working /\ phase' = "push" /\ snap' = snap /\ job' = job
    BY <1>4 DEF Complete, Phases, Working
  <2> DEFINE s == IF job.failed THEN "completed_with_errors" ELSE "completed"
  <2>2. s \in Statuses /\ s \notin Unsettled /\ SetStatus(s)
    BY <1>4 DEF Complete, Statuses, Unsettled
  <2>3. /\ Len(backups') = Len(backups) /\ backups' \in Seq(Statuses) /\ backups'[job.cur] = s
        /\ \A i \in 1..Len(backups) \ {job.cur} : backups'[i] = backups[i]
    BY <2>1, <2>2, StatusType
  <2>4. DOMAIN backups' = 1..Len(backups)
    BY <2>3, LenProperties
  <2>5. Settled(backups')
    BY <1>0, <2>1, <2>2, <2>3, <2>4 DEF OthersSettled, Settled
  <2> QED
    BY <2>1, <2>5 DEF OthersSettled, Settled
<1>5. CASE PushSnapshot
  BY <1>5 DEF PushSnapshot, EndSession, OthersSettled, Settled, Database, tables, Working
<1>6. CASE Restart
  <2>1. Settled(Cleaned.backups) /\ Settled(Pulled(Cleaned).backups)
    BY <1>0, CleanedType, PulledSettled
  <2>2. phase' = "idle" /\ snap' = snap /\ backups' \in {Cleaned.backups, Pulled(Cleaned).backups}
    BY <1>6 DEF Restart
  <2> QED
    BY <2>1, <2>2 DEF OthersSettled, Working
<1>7. CASE Quiet
  BY <1>7 DEF Quiet, Early, Late, OthersSettled, Working, Phases
<1>8. CASE Aside
  BY <1>8 DEF Aside, OthersSettled
<1>9. CASE Aborted
  <2>1. phase \in Working /\ phase' = "idle" /\ snap' = snap
    BY <1>9 DEF Aborted, Abort, EndSession, Early, Late, Phases, Working
  <2> DEFINE s == IF job.cancelled THEN "cancelled" ELSE "failed"
  <2>2. s \in Statuses /\ s \notin Unsettled /\ SetStatus(s)
    BY <1>9 DEF Aborted, Abort, Statuses, Unsettled
  <2>3. /\ Len(backups') = Len(backups) /\ backups' \in Seq(Statuses) /\ backups'[job.cur] = s
        /\ \A i \in 1..Len(backups) \ {job.cur} : backups'[i] = backups[i]
    BY <2>1, <2>2, StatusType
  <2>4. DOMAIN backups' = 1..Len(backups)
    BY <2>3, LenProperties
  <2>5. Settled(backups')
    BY <1>0, <2>1, <2>2, <2>3, <2>4 DEF OthersSettled, Settled
  <2> QED
    BY <2>1, <2>5 DEF OthersSettled, Settled, Working
<1>10. CASE Dropped
  BY <1>10 DEF Dropped, OthersSettled, Working
<1> QED
  BY <1>1, <1>2, <1>3, <1>4, <1>5, <1>6, <1>7, <1>8, <1>9, <1>10, StepKinds DEF Unrecorded

\* Where the status a session ends with can always be written, no session is pending or
\* running between sessions or in a snapshot: preBackupCheck never refuses a backup
\* because of a session that is over.
THEOREM NoSessionIsLeftRunning ==
  ASSUME "statusError" \notin Faults
  PROVE  Spec => []NoStaleRunning
<1>1. Init => TypeInv /\ OthersSettled
  BY InitType, InitSettled
<1>2. TypeInv /\ OthersSettled /\ [Next]_vars => (TypeInv /\ OthersSettled)'
  BY NextType, NextSettled
<1>3. OthersSettled => NoStaleRunning
  BY DEF OthersSettled, NoStaleRunning
<1> QED
  BY <1>1, <1>2, <1>3, PTL DEF Spec

-----------------------------------------------------------------------------
(* No push loses history. *)

\* A working session began from the snapshot: what it will push extends it.
Extends ==
  phase \in Working /\ snap # None =>
    /\ Len(snap.backups) < job.cur
    /\ \A i \in DOMAIN snap.backups : backups[i] = snap.backups[i]
    /\ snap.rows \subseteq rows

LEMMA NextExtends == TypeInv /\ Extends /\ [Next]_vars => Extends'
<1> SUFFICES ASSUME TypeInv, Extends, [Next]_vars, phase' \in Working, snap' # None
             PROVE  /\ Len(snap'.backups) < job'.cur
                    /\ \A i \in DOMAIN snap'.backups : backups'[i] = snap'.backups[i]
                    /\ snap'.rows \subseteq rows'
  BY DEF Extends
<1>0. TypeOK /\ backups \in Seq(Statuses)
  BY DEF TypeInv, TypeOK
<1>1. CASE StartBackup
  <2>1. snap' = snap /\ snap # None
    BY <1>1 DEF StartBackup
  <2>2. snap \in Snapshots /\ snap.backups \in Seq(Statuses)
    BY <1>0, <2>1 DEF TypeOK, Snapshots
  <2>3. /\ backups' = Append(snap.backups, "pending") /\ rows' = snap.rows
        /\ job' = [NoJob EXCEPT !.cur = Len(snap.backups) + 1]
    BY <1>1, <2>1 DEF StartBackup, LoadDatabase, Pulled
  <2>4. job'.cur = Len(snap.backups) + 1
    BY <2>3, NoJobType DEF Jobs
  <2> QED
    BY <2>1, <2>2, <2>3, <2>4
<1>2. CASE Scan \/ Complete
  <2>1. phase \in Working /\ snap' = snap /\ rows' = rows
    BY <1>2 DEF Scan, Complete, Phases, Working
  <2>2. job'.cur = job.cur
    BY <1>0, <1>2 DEF Scan, Complete, TypeOK, Jobs
  <2>3. PICK s \in Statuses : SetStatus(s)
    BY <1>2 DEF Scan, Complete, Statuses
  <2>4. \A i \in 1..Len(backups) \ {job.cur} : backups'[i] = backups[i]
    BY <2>1, <2>3, StatusType
  <2>5. snap.backups \in Seq(Statuses) /\ job.cur = Len(backups)
    BY <1>0, <2>1 DEF TypeOK, Snapshots, TypeInv, Started
  <2>6. DOMAIN snap.backups = 1..Len(snap.backups) /\ Len(snap.backups) \in Nat /\ Len(backups) \in Nat
    BY <1>0, <2>5, LenProperties
  <2>7. \A i \in DOMAIN snap.backups : i \in 1..Len(backups) \ {job.cur}
    BY <2>1, <2>5, <2>6 DEF Extends
  <2> QED
    BY <2>1, <2>2, <2>4, <2>7 DEF Extends
<1>3. CASE AddBackupFiles
  BY <1>3 DEF AddBackupFiles, Extends, Phases, Working
<1>4. CASE PushSnapshot \/ Restart \/ Aborted \/ Dropped
  BY <1>4 DEF PushSnapshot, Restart, Aborted, Abort, Dropped, EndSession, Working
<1>5. CASE Quiet
  BY <1>5 DEF Quiet, Early, Late, Extends, Phases, Working
<1>6. CASE Aside
  BY <1>6 DEF Aside, Extends
<1>7. CASE Unrecorded
  BY <1>7 DEF Unrecorded, Early, Late, Extends, Phases, Working
<1> QED
  BY <1>1, <1>2, <1>3, <1>4, <1>5, <1>6, <1>7, StepKinds

\* Only a push replaces the snapshot, by the database of a session that extends it.
LEMMA PushExtends ==
  ASSUME TypeInv, Extends, [Next]_vars, snap # None, snap' \notin {snap, None}
  PROVE  /\ Len(snap.backups) <= Len(snap'.backups)
         /\ \A i \in DOMAIN snap.backups : snap'.backups[i] = snap.backups[i]
         /\ snap.rows \subseteq snap'.rows
<1>1. PushSnapshot
  BY StepKinds DEF StartBackup, Scan, AddBackupFiles, Complete, Restart, Quiet, Aside, Aborted,
                   Abort, Dropped, Unrecorded
<1>2. phase \in Working /\ snap'.backups = backups /\ snap'.rows = rows
  BY <1>1 DEF PushSnapshot, Database, Phases, Working
<1>3. /\ backups \in Seq(Statuses) /\ snap.backups \in Seq(Statuses)
      /\ job.cur = Len(backups)
  BY <1>2 DEF TypeInv, TypeOK, Snapshots, Started
<1>4. Len(snap.backups) \in Nat /\ Len(backups) \in Nat
  BY <1>3, LenProperties
<1> QED
  BY <1>2, <1>3, <1>4 DEF Extends

\* Whatever crashes, fails or is cancelled, a new snapshot keeps every session
\* and every row of the one it replaces.
THEOREM NoPushLosesHistory == Spec => HistoryOnlyGrows
<1>1. Init => TypeInv /\ Extends
  BY InitType DEF Init, Extends, Working
<1>2. TypeInv /\ Extends /\ [Next]_vars => (TypeInv /\ Extends)'
  BY NextType, NextExtends
<1>3. TypeInv /\ Extends /\ [Next]_vars =>
        [snap # None /\ snap' # None =>
           /\ Len(snap.backups) <= Len(snap'.backups)
           /\ \A i \in DOMAIN snap.backups : snap'.backups[i] = snap.backups[i]
           /\ snap.rows \subseteq snap'.rows]_vars
  <2> SUFFICES ASSUME TypeInv, Extends, [Next]_vars, snap # None, snap' # None
               PROVE  /\ Len(snap.backups) <= Len(snap'.backups)
                      /\ \A i \in DOMAIN snap.backups : snap'.backups[i] = snap.backups[i]
                      /\ snap.rows \subseteq snap'.rows
    OBVIOUS
  <2>1. CASE snap' = snap
    <3>1. snap.backups \in Seq(Statuses)
      BY DEF TypeInv, TypeOK, Snapshots
    <3> QED
      BY <2>1, <3>1, LenProperties
  <2> QED
    BY <2>1, PushExtends
<1> QED
  BY <1>1, <1>2, <1>3, PTL DEF Spec, HistoryOnlyGrows

-----------------------------------------------------------------------------
(* A cancelled session has no rows. *)

\* Of a set of rows and a table of sessions.
Owned(R, B) == \A r \in R : r.backup \in DOMAIN B /\ B[r.backup] # "cancelled"

\* The session's own rows appear only after the last look at the context.
RowsOwned ==
  /\ Owned(rows, backups)
  /\ snap # None => Owned(snap.rows, snap.backups)
  /\ phase \in Working => /\ \A r \in job.batch : r.backup = job.cur
                          /\ backups[job.cur] # "cancelled"
  /\ phase \in Early => \A r \in rows : r.backup # job.cur

LEMMA PulledOwned ==
  ASSUME RowsOwned, NEW local, Owned(local.rows, local.backups)
  PROVE  Owned(Pulled(local).rows, Pulled(local).backups)
BY DEF RowsOwned, Pulled

LEMMA CleanedOwned ==
  ASSUME TypeOK, Owned(rows, backups)
  PROVE  Owned(Cleaned.rows, Cleaned.backups)
<1> DEFINE b == [i \in DOMAIN backups |-> IF backups[i] \in Unsettled THEN "failed" ELSE backups[i]]
<1>1. Cleaned = [Database EXCEPT !.backups = b]
  BY DEF Cleaned
<1>2. Cleaned.rows = rows /\ Cleaned.backups = b
  BY <1>1 DEF Database
<1> QED
  BY <1>2 DEF Owned

LEMMA AbortOwned ==
  ASSUME TypeInv, RowsOwned, Abort, phase \in Early
  PROVE  RowsOwned'
<1>0. TypeOK /\ backups \in Seq(Statuses) /\ DOMAIN backups = 1..Len(backups)
  BY LenProperties DEF TypeInv, TypeOK
<1>1. phase \in Working /\ phase' = "idle" /\ snap' = snap /\ rows' = rows
  BY DEF Abort, EndSession, Early, Phases, Working
<1>2. PICK s \in Statuses : SetStatus(s)
  BY DEF Abort, Statuses
<1>3. /\ Len(backups') = Len(backups) /\ backups' \in Seq(Statuses)
      /\ \A i \in 1..Len(backups) \ {job.cur} : backups'[i] = backups[i]
  BY <1>1, <1>2, StatusType
<1>4. DOMAIN backups' = 1..Len(backups)
  BY <1>3, LenProperties
<1>5. Owned(rows', backups')
  BY <1>0, <1>1, <1>3, <1>4 DEF RowsOwned, Owned
<1> QED
  BY <1>1, <1>5 DEF RowsOwned, Working, Early

LEMMA NextOwned ==
  ASSUME "hardError" \notin Faults
  PROVE  TypeInv /\ RowsOwned /\ [Next]_vars => RowsOwned'
<1> SUFFICES ASSUME TypeInv, RowsOwned, [Next]_vars PROVE RowsOwned'
  OBVIOUS
<1>0. TypeOK /\ backups \in Seq(Statuses) /\ DOMAIN backups = 1..Len(backups)
  BY LenProperties DEF TypeInv, TypeOK
<1>1. CASE StartBackup
  <2> DEFINE d == Pulled(Database)
  <2>1. Owned(d.rows, d.backups)
    BY PulledOwned DEF RowsOwned, Database
  <2>2. d.backups \in Seq(Statuses)
    BY <1>0, DatabaseType, PulledType
  <2>3. /\ backups' = Append(d.backups, "pending") /\ rows' = d.rows /\ snap' = snap
        /\ job' = [NoJob EXCEPT !.cur = Len(d.backups) + 1]
    BY <1>1 DEF StartBackup, LoadDatabase
  <2> HIDE DEF d
  <2>4. job'.cur = Len(d.backups) + 1 /\ job'.batch = {}
    <3>1. NoJob \in Jobs /\ NoJob.batch = {}
      BY NoJobType DEF NoJob
    <3> QED
      BY <2>3, <3>1 DEF Jobs
  <2>5. backups'[job'.cur] = "pending"
    BY <2>2, <2>3, <2>4
  <2>6. \A i \in DOMAIN d.backups : /\ i \in DOMAIN backups' /\ backups'[i] = d.backups[i]
                                    /\ i # job'.cur
    BY <2>2, <2>3, <2>4
  <2> QED
    BY <2>1, <2>3, <2>4, <2>5, <2>6 DEF RowsOwned, Owned
<1>2. CASE Scan \/ Complete
  <2>1. /\ phase \in Working /\ snap' = snap /\ rows' = rows
        /\ phase' \in Early => phase \in Early
    BY <1>2 DEF Scan, Complete, Phases, Working, Early
  <2>2. job'.cur = job.cur /\ job'.batch = job.batch
    BY <1>0, <1>2 DEF Scan, Complete, TypeOK, Jobs
  <2>3. PICK s \in Statuses \ {"cancelled"} : SetStatus(s)
    BY <1>2 DEF Scan, Complete, Statuses
  <2>4. /\ Len(backups') = Len(backups) /\ backups' \in Seq(Statuses) /\ backups'[job.cur] = s
        /\ \A i \in 1..Len(backups) \ {job.cur} : backups'[i] = backups[i]
    BY <2>1, <2>3, StatusType
  <2>5. DOMAIN backups' = 1..Len(backups)
    BY <2>4, LenProperties
  <2>6. Owned(rows', backups')
    BY <1>0, <2>1, <2>3, <2>4, <2>5 DEF RowsOwned, Owned
  <2> QED
    BY <2>1, <2>2, <2>3, <2>4, <2>6 DEF RowsOwned
<1>3. CASE AddBackupFiles
  <2>1. phase \in Working /\ phase' \notin Early /\ UNCHANGED <<snap, backups, job>>
        /\ rows' = rows \cup job.batch
    BY <1>3 DEF AddBackupFiles, Phases, Working, Early
  <2>2. job.cur \in DOMAIN backups
    BY <1>0, <2>1, EmptySeq DEF TypeInv, Started
  <2> QED
    BY <2>1, <2>2 DEF RowsOwned, Owned
<1>4. CASE PushSnapshot
  BY <1>4 DEF PushSnapshot, EndSession, RowsOwned, Database, tables, Working, Early
<1>5. CASE Restart
  <2>1. /\ Owned(Cleaned.rows, Cleaned.backups)
        /\ Owned(Pulled(Cleaned).rows, Pulled(Cleaned).backups)
    BY <1>0, CleanedOwned, PulledOwned DEF RowsOwned
  <2>2. /\ phase' = "idle" /\ snap' = snap
        /\ \/ rows' = Cleaned.rows /\ backups' = Cleaned.backups
           \/ rows' = Pulled(Cleaned).rows /\ backups' = Pulled(Cleaned).backups
    BY <1>5 DEF Restart, LoadDatabase
  <2> QED
    BY <2>1, <2>2 DEF RowsOwned, Working, Early
<1>6. CASE Quiet
  BY <1>6 DEF Quiet, Early, Late, RowsOwned, Phases, Working
<1>7. CASE Aside
  BY <1>7 DEF Aside, RowsOwned
<1>8. CASE Aborted
  BY <1>8, AbortOwned DEF Aborted
<1>9. CASE Dropped
  BY <1>9 DEF Dropped, RowsOwned, Working, Early
<1>10. CASE Unrecorded
  BY <1>10 DEF Unrecorded, RowsOwned, Working, Phases, Early, Late
<1> QED
  BY <1>1, <1>2, <1>3, <1>4, <1>5, <1>6, <1>7, <1>8, <1>9, <1>10, StepKinds

\* As long as no database statement fails after the rows are written, a session
\* that ends cancelled has left no row, here or in the snapshot.
THEOREM CancelledSessionsHaveNoRows ==
  ASSUME "hardError" \notin Faults
  PROVE  Spec => []CancelledLeavesNoRows
<1>1. Init => TypeInv /\ RowsOwned
  BY InitType DEF Init, RowsOwned, Owned, Working, Early
<1>2. TypeInv /\ RowsOwned /\ [Next]_vars => (TypeInv /\ RowsOwned)'
  BY NextType, NextOwned
<1>3. RowsOwned => CancelledLeavesNoRows
  BY DEF RowsOwned, Owned, CancelledLeavesNoRows
<1> QED
  BY <1>1, <1>2, <1>3, PTL DEF Spec

-----------------------------------------------------------------------------
(* A session takes in the disk as it is. *)

\* Nothing was hidden from a walk, every file could be hashed, and the statements for it
\* did not fail.
Clean == faults = 0 \/ Faults \cap {"walkError", "hashError", "rowError"} = {}

\* When the hashes are known, when each file has been sorted, when the uploads,
\* the skipped files and the rows are done, when the deleted files are marked.
Hashed == {"check", "dedup", "upload", "skip", "index", "delete", "unref", "status", "push"}
Sorted == Hashed \ {"check"}
Uploaded == Sorted \ {"dedup", "upload"}
Written == {"delete", "unref", "status", "push"}
Marked == {"unref", "status", "push"}

Waiting == job.pending \cup job.upload \cup job.skipped
InHand == IF job.item = None THEN {} ELSE {job.item.path}

\* The session recorded what the disk holds at p.
Recorded(p) ==
  /\ files[p].last = "success"
  /\ \E r \in job.batch : r.path = p /\ r.key = disk[p]

\* Every file row ever written has a hash.
RowsHashed ==
  /\ \A p \in Paths : files[p] # None => files[p].hash # NoHash
  /\ snap # None => \A p \in Paths : snap.files[p] # None => snap.files[p].hash # NoHash

\* The scan found what is there, and what it found deleted is what is gone.
ScanTrue ==
  /\ phase \in {"hash"} \cup Hashed => \A p \in Paths : p \in Present <=> disk[p] # None
  /\ phase = "hash" => \A p \in Paths : job.kind[p] = "unchanged" => files[p].hash = disk[p]
  /\ phase \in ({"hash"} \cup Hashed) \ Marked =>
       \A p \in Paths \ Present : IsActive(p) <=> job.kind[p] = "deleted"
  /\ phase \in Hashed \ Marked => job.gone = {p \in Paths : job.kind[p] = "deleted"}
  /\ phase \in Hashed => /\ job.gone \subseteq {p \in Paths : job.kind[p] = "deleted"}
                         /\ \A p \in Present : job.hash[p] = disk[p]
  /\ phase \in Marked => \A p \in Paths \ Present : ~IsActive(p)

\* Each file is somewhere between the scan and its row.
Progress ==
  /\ phase \in {"scan", "hash", "check", "dedup"} => InHand = {}
  /\ phase \in {"scan", "hash", "check"} => job.skipped = {}
  /\ phase \in Sorted \ {"dedup"} => job.pending = {}
  /\ phase \in Uploaded => job.upload = {} /\ InHand = {}
  /\ phase \in {"index"} \cup Written => job.skipped = {}
  /\ phase \in Sorted =>
       /\ Waiting \cup InHand \subseteq Present
       /\ \A p \in Present \ Waiting : IsActive(p) /\ files[p].hash = disk[p]
       /\ ~job.failed => \A p \in Present \ (Waiting \cup InHand) : Recorded(p)
  /\ phase \in Written => job.batch \subseteq rows
  /\ phase = "push" /\ backups[job.cur] = "completed" => ~job.failed

DiskTaken == RowsHashed /\ ScanTrue /\ Progress

\* Every row is of a session of its table, and what a session sets aside is its own.
Dated ==
  /\ \A r \in rows : r.backup \in DOMAIN backups
  /\ snap # None => \A r \in snap.rows : r.backup \in DOMAIN snap.backups
  /\ phase \in Working => \A r \in job.batch : r.backup = job.cur

LEMMA NextDated == TypeInv /\ Dated /\ [Next]_vars => Dated'
<1> SUFFICES ASSUME TypeInv, Dated, [Next]_vars PROVE Dated'
  OBVIOUS
<1>0. TypeOK /\ backups \in Seq(Statuses) /\ DOMAIN backups = 1..Len(backups)
  BY LenProperties DEF TypeInv, TypeOK
<1>1. CASE StartBackup
  <2> DEFINE d == Pulled(Database)
  <2>1. \A r \in d.rows : r.backup \in DOMAIN d.backups
    BY DEF Dated, Pulled, Database
  <2>2. d.backups \in Seq(Statuses)
    BY <1>0, DatabaseType, PulledType
  <2>3. backups' = Append(d.backups, "pending") /\ rows' = d.rows /\ snap' = snap
    BY <1>1 DEF StartBackup, LoadDatabase
  <2> HIDE DEF d
  <2>4. \A i \in DOMAIN d.backups : i \in DOMAIN backups'
    BY <2>2, <2>3
  <2> QED
    BY <1>1, <2>1, <2>3, <2>4, StartLocals DEF Dated
<1>2. CASE Scan \/ Complete \/ Aborted
  <2>1. phase \in Working /\ snap' = snap /\ rows' = rows
    BY <1>2 DEF Scan, Complete, Aborted, Abort, Phases, Working, Early, Late
  <2>2. PICK s \in Statuses : SetStatus(s)
    BY <1>2 DEF Scan, Complete, Aborted, Abort, Statuses
  <2>3. Len(backups') = Len(backups) /\ backups' \in Seq(Statuses)
    BY <2>1, <2>2, StatusType
  <2>4. DOMAIN backups' = DOMAIN backups
    BY <1>0, <2>3, LenProperties
  <2>5. \A r \in job'.batch : phase' \in Working => r.backup = job'.cur
    <3>1. CASE Scan
      BY <2>1, <3>1, ScanLocals DEF Dated
    <3>2. CASE Complete
      BY <2>1, <3>2 DEF Complete, Dated
    <3>3. CASE Aborted
      BY <3>3 DEF Aborted, Abort, EndSession, Working
    <3> QED
      BY <1>2, <3>1, <3>2, <3>3
  <2> QED
    BY <2>1, <2>4, <2>5 DEF Dated
<1>3. CASE AddBackupFiles
  <2>1. phase \in Working /\ UNCHANGED <<snap, backups, job>> /\ rows' = rows \cup job.batch
    BY <1>3 DEF AddBackupFiles, Phases, Working
  <2>2. job.cur \in DOMAIN backups
    BY <1>0, <2>1, EmptySeq DEF TypeInv, Started
  <2> QED
    BY <2>1, <2>2 DEF Dated
<1>4. CASE PushSnapshot
  BY <1>4 DEF PushSnapshot, EndSession, Dated, Database, tables, Working
<1>5. CASE Restart
  <2>1. DOMAIN Cleaned.backups = DOMAIN backups /\ Cleaned.rows = rows
    BY DEF Cleaned, Database
  <2>2. /\ phase' = "idle" /\ snap' = snap
        /\ \/ rows' = Cleaned.rows /\ backups' = Cleaned.backups
           \/ rows' = Pulled(Cleaned).rows /\ backups' = Pulled(Cleaned).backups
    BY <1>5 DEF Restart, LoadDatabase
  <2> QED
    BY <2>1, <2>2 DEF Dated, Pulled, Working
<1>6. CASE Quiet
  BY <1>6 DEF Quiet, Early, Late, Dated, Phases, Working
<1>7. CASE Aside
  BY <1>7 DEF Aside, Dated
<1>8. CASE Dropped
  BY <1>8 DEF Dropped, Dated, Working
<1>9. CASE Unrecorded
  BY <1>9 DEF Unrecorded, Dated, Working, Phases, Early, Late
<1> QED
  BY <1>1, <1>2, <1>3, <1>4, <1>5, <1>6, <1>7, <1>8, <1>9, StepKinds

\* Until it ends a session is not recorded as completed.
NotYet == phase \in Working \ {"push"} => backups[job.cur] # "completed"

LEMMA NextNotYet == TypeInv /\ NotYet /\ [Next]_vars => NotYet'
<1> SUFFICES ASSUME TypeInv, NotYet, [Next]_vars, phase' \in Working \ {"push"}
             PROVE  backups'[job'.cur] # "completed"
  BY DEF NotYet
<1>1. CASE StartBackup
  <2>1. Pulled(Database).backups \in Seq(Statuses)
    BY DatabaseType, PulledType DEF TypeInv
  <2>2. backups' = Append(Pulled(Database).backups, "pending")
    BY <1>1 DEF StartBackup
  <2>3. backups'[Len(Pulled(Database).backups) + 1] = "pending"
    BY <2>1, <2>2
  <2> QED
    BY <1>1, <2>3, StartLocals
<1>2. CASE Scan
  <2>1. backups'[job.cur] = "running"
    BY <1>2, StatusType DEF Scan, Statuses, Phases, Working
  <2> QED
    BY <1>2, <2>1, ScanLocals
<1>3. CASE AddBackupFiles \/ Quiet \/ Aside
  BY <1>3 DEF AddBackupFiles, Quiet, Aside, Early, Late, NotYet, Working, Phases
<1>4. CASE Complete \/ PushSnapshot \/ Restart \/ Aborted \/ Dropped \/ Unrecorded
  BY <1>4 DEF Complete, PushSnapshot, Restart, Aborted, Abort, Dropped, Unrecorded, EndSession, Working
<1> QED
  BY <1>1, <1>2, <1>3, <1>4, StepKinds

\* Faults are counted, and never forgotten.
LEMMA FaultsGrow == TypeInv /\ [Next]_vars => faults' \in {faults, faults + 1}
BY DEF Next, SessionStep, Environment, Exhausted, Refused, vars, bounds, Fault, StartBackup, Scan,
       ComputeHashes, CheckObjects, DedupFile, DedupDone, SealFile, FailBeforeSealing, UploadObject,
       PutObject, ReuseNonce, OverwriteFrozen, UploadUnsure, RecordUpload, FailAfterSealing,
       FileFails, FailUnmarked, UploadsDone, RecordSkipped, SkipFails, SkipsDone, AddBackupFiles,
       MarkDeleted, ReleaseFile, ReleaseFails, ReleasesDone, Complete, CompleteUnrecorded,
       PushSnapshot, PushFails, NoticeCancel, HardError, Abort, AbortUnrecorded, EndUnrecorded,
       Restart, Edit, Cancel, Crash, Lose

LEMMA CleanBefore == TypeInv /\ [Next]_vars /\ Clean' => Clean
BY FaultsGrow DEF Clean, TypeInv, TypeOK

\* Outside a session only the rows matter.
LEMMA TakenOutside ==
  ASSUME phase' \in {"idle", "down"}, RowsHashed'
  PROVE  DiskTaken'
BY DEF DiskTaken, ScanTrue, Progress, Hashed, Sorted, Uploaded, Written, Marked

\* A step that moves no file.
LEMMA TakenStill ==
  ASSUME DiskTaken, UNCHANGED <<disk, files, snap, rows, backups, phase>>,
         UNCHANGED <<job.cur, job.kind, job.hash, job.pending, job.upload, job.skipped, job.gone,
                     job.batch, job.failed, InHand>>
  PROVE  DiskTaken'
BY DEF DiskTaken, RowsHashed, ScanTrue, Progress, Present, Waiting, IsActive, Recorded

\* The scan, when no directory was hidden.
LEMMA ScanTakes ==
  ASSUME TypeInv, Clean', DiskTaken, Scan
  PROVE  DiskTaken'
<1>1. phase = "scan" /\ phase' = "hash" /\ UNCHANGED <<disk, snap, files>>
  BY DEF Scan
<1>2. PICK W \in SUBSET {p \in Paths : disk[p] # None} :
        /\ \A p \in Paths : IF p \in W THEN job'.kind[p] = LostInWalk(p) ELSE job'.kind[p] \in KindsOf(p)
        /\ IF W = {} THEN UNCHANGED bounds ELSE Fault("walkError")
  BY ScanLocals
<1>3. W = {}
  BY <1>2 DEF Clean, Fault, TypeInv, TypeOK
<1>4. \A p \in Paths : job'.kind[p] \in KindsOf(p)
  BY <1>2, <1>3
<1>5. RowsHashed'
  BY <1>1 DEF DiskTaken, RowsHashed
<1>6. \A p \in Paths : p \in Present' <=> disk[p] # None
  BY <1>4 DEF KindsOf, Present
<1>7. \A p \in Paths : job'.kind[p] = "unchanged" => files[p].hash = disk[p]
  <2> SUFFICES ASSUME NEW p \in Paths, job'.kind[p] = "unchanged" PROVE files[p].hash = disk[p]
    OBVIOUS
  <2>1. IsActive(p) /\ files[p].hash \in {disk[p], NoHash}
    BY <1>4 DEF KindsOf
  <2> QED
    BY <2>1 DEF IsActive, DiskTaken, RowsHashed
<1>8. \A p \in Paths : p \notin Present' => (IsActive(p) <=> job'.kind[p] = "deleted")
  BY <1>4, <1>6 DEF KindsOf
<1>9. ScanTrue'
  BY <1>1, <1>6, <1>7, <1>8 DEF ScanTrue, Hashed, Marked, IsActive
<1>10. Progress'
  BY <1>1, ScanLocals DEF DiskTaken, Progress, InHand, Sorted, Hashed, Uploaded, Written
<1> QED
  BY <1>5, <1>9, <1>10 DEF DiskTaken

\* The hashing, when every file could be read.
LEMMA HashTakes ==
  ASSUME TypeInv, Clean', DiskTaken, ComputeHashes
  PROVE  DiskTaken'
<1>1. phase = "hash" /\ phase' = "check" /\ UNCHANGED <<disk, snap, files>>
  BY DEF ComputeHashes, tables
<1>2. PICK E \in SUBSET {p \in Paths : job.kind[p] \in {"added", "modified"} /\ disk[p] # None} :
        /\ job'.hash = [p \in Paths |-> NewHash(p, E)]
        /\ IF E = {} THEN UNCHANGED bounds ELSE Fault("hashError")
  BY HashLocals
<1>3. E = {}
  BY <1>2 DEF Clean, Fault, TypeInv, TypeOK
<1>4. Present' = Present /\ job'.gone = {p \in Paths : job.kind[p] = "deleted"}
  BY HashLocals DEF Present
<1>5. \A p \in Present : disk[p] # None /\ job'.hash[p] = disk[p]
  BY <1>1, <1>2, <1>3 DEF NewHash, Present, DiskTaken, ScanTrue
<1>6. RowsHashed'
  BY <1>1 DEF DiskTaken, RowsHashed
<1>7. ScanTrue'
  BY <1>1, <1>4, <1>5, HashLocals DEF DiskTaken, ScanTrue, Hashed, Marked, IsActive
<1>8. Progress'
  BY <1>1, HashLocals DEF DiskTaken, Progress, InHand, Sorted, Hashed, Uploaded, Written
<1> QED
  BY <1>6, <1>7, <1>8 DEF DiskTaken

\* A step of a session whose hashes are known, on the files it processes: what it
\* does to the rows, and what is left to do.
LEMMA FileTakes ==
  ASSUME TypeInv, DiskTaken, phase \in {"dedup", "upload", "skip"}, phase' = phase,
         UNCHANGED <<disk, snap, backups, job.cur, job.kind, job.hash, job.gone>>,
         NEW p \in Present,
         files' = files \/ \E h \in Keys \ {NoHash} : files' \in {UpsertFile(p, h), UpsertMarked(p, h, "success"), UpsertMarked(p, h, "failed")},
         \A q \in Paths \ {p} : files'[q] = files[q],
         Progress'
  PROVE  DiskTaken'
<1>1. Present' = Present
  BY DEF Present
<1>2. RowsHashed'
  BY DEF DiskTaken, RowsHashed, UpsertFile, UpsertMarked, TypeInv, TypeOK
<1>3. \A q \in Paths \ Present : IsActive(q)' <=> IsActive(q)
  BY DEF IsActive, Present
<1>4. ScanTrue'
  BY <1>1, <1>3 DEF DiskTaken, ScanTrue, Hashed, Marked
<1> QED
  BY <1>2, <1>4 DEF DiskTaken

LEMMA NextTaken ==
  ASSUME "liveDisk" \notin Faults
  PROVE  TypeInv /\ NotYet /\ (Clean => DiskTaken) /\ [Next]_vars => (Clean => DiskTaken)'
<1> SUFFICES ASSUME TypeInv, NotYet, Clean => DiskTaken, [Next]_vars, Clean' PROVE DiskTaken'
  OBVIOUS
<1>0. /\ TypeOK /\ job \in Jobs /\ DiskTaken /\ ~Fault("rowError")
      /\ \A p \in Present : p \in Paths
      /\ phase \in Sorted => \A p \in Present : disk[p] = job.hash[p] /\ job.hash[p] \in Keys \ {NoHash}
  <2>1. DiskTaken /\ TypeOK /\ job \in Jobs /\ \A p \in Present : p \in Paths
    BY CleanBefore DEF TypeInv, TypeOK, Present
  <2>2. phase \in Sorted => \A p \in Present : disk[p] = job.hash[p] /\ disk[p] # None
    BY <2>1 DEF DiskTaken, ScanTrue, Sorted
  <2>3. \A p \in Present : disk[p] # None => disk[p] \in Keys \ {NoHash}
    BY <2>1, NamesAssumption DEF TypeOK, Keys
  <2>4. ~Fault("rowError")
    BY DEF Fault, Clean, TypeInv, TypeOK
  <2> QED
    BY <2>1, <2>2, <2>3, <2>4
<1>1. CASE StartBackup
  <2>1. phase' = "scan" /\ snap' = snap /\ files' = Pulled(Database).files
    BY <1>1 DEF StartBackup, LoadDatabase
  <2>2. RowsHashed'
    BY <1>0, <2>1 DEF DiskTaken, RowsHashed, Pulled, Database
  <2>3. ScanTrue' /\ Progress'
    BY <1>1, <2>1, StartLocals DEF ScanTrue, Progress, InHand, Hashed, Sorted, Uploaded, Written, Marked
  <2> QED
    BY <2>2, <2>3 DEF DiskTaken
<1>2. CASE Scan
  BY <1>0, <1>2, ScanTakes
<1>3. CASE ComputeHashes
  BY <1>0, <1>3, HashTakes
<1>4. CASE CheckObjects
  <2>1. phase = "check" /\ phase' = "dedup" /\ UNCHANGED <<disk, snap, files>>
    BY <1>4 DEF CheckObjects, tables
  <2>2. /\ Present' = Present /\ InHand' = InHand /\ job'.gone = job.gone /\ job'.hash = job.hash
        /\ job'.kind = job.kind
        /\ job'.upload = NewContents /\ job'.pending = Present \ NewContents
        /\ job'.skipped = job.skipped
    BY <1>4, CheckLocals DEF Present, InHand
  <2>3. Waiting' = Present /\ InHand' = {}
    BY <1>0, <2>1, <2>2 DEF Waiting, NewContents, DiskTaken, Progress
  <2>4. Progress'
    BY <1>0, <2>1, <2>2, <2>3 DEF Progress, Sorted, Hashed, Uploaded, Written
  <2> QED
    BY <1>0, <2>1, <2>2, <2>4 DEF DiskTaken, RowsHashed, ScanTrue, Hashed, Marked, IsActive
<1>5. ASSUME NEW p \in Paths, DedupFile(p) PROVE DiskTaken'
  <2>1. /\ phase = "dedup" /\ phase' = phase /\ p \in job.pending
        /\ UNCHANGED <<disk, snap, files, backups, rows>>
    BY <1>5 DEF DedupFile
  <2>2. Waiting' = Waiting /\ InHand' = InHand /\ Present' = Present
    BY <1>5, <2>1, DedupLocals DEF Waiting, InHand, Present
  <2>3. UNCHANGED <<job.cur, job.kind, job.hash, job.gone, job.batch, job.failed>>
    BY <1>5, DedupLocals
  <2>4. Progress'
    BY <1>0, <2>1, <2>2, <2>3 DEF DiskTaken, Progress, Sorted, Hashed, Uploaded, Written, Recorded, IsActive
  <2> QED
    BY <1>0, <2>1, <2>2, <2>3, <2>4 DEF DiskTaken, RowsHashed, ScanTrue, Hashed, Marked, IsActive
<1>6. CASE DedupDone \/ UploadsDone \/ SkipsDone \/ AddBackupFiles \/ ReleasesDone
  <2>1. /\ UNCHANGED <<disk, snap, files, backups, job>> /\ rows' \in {rows, rows \cup job.batch}
        /\ Present' = Present /\ Waiting' = Waiting /\ InHand' = InHand
    BY <1>6 DEF DedupDone, UploadsDone, SkipsDone, AddBackupFiles, ReleasesDone, tables, Present,
                Waiting, InHand
  <2>2. /\ <<phase, phase'>> \in {<<"dedup", "upload">>, <<"upload", "skip">>, <<"skip", "index">>,
                                  <<"index", "delete">>, <<"unref", "status">>}
        /\ phase = "dedup" => job.pending = {}
        /\ phase = "upload" => job.upload = {} /\ job.item = None
        /\ phase = "skip" => job.skipped = {}
        /\ phase = "index" => job.batch \subseteq rows'
        /\ phase = "unref" => rows' = rows
    BY <1>6 DEF DedupDone, UploadsDone, SkipsDone, AddBackupFiles, ReleasesDone, tables
  <2>3. ScanTrue'
    BY <1>0, <2>1, <2>2 DEF DiskTaken, ScanTrue, Hashed, Marked, IsActive
  <2>4. Progress'
    <3>1. /\ Waiting \cup InHand \subseteq Present
          /\ \A p \in Present \ Waiting : IsActive(p)' /\ files'[p].hash = disk'[p]
          /\ ~job.failed => \A p \in Present \ (Waiting \cup InHand) : Recorded(p)'
      BY <1>0, <2>1, <2>2 DEF DiskTaken, Progress, Sorted, Hashed, Recorded, IsActive
    <3>2. /\ phase' \in Sorted \ {"dedup"} => job.pending = {}
          /\ phase' \in Uploaded => job.upload = {} /\ InHand = {}
          /\ phase' \in {"index"} \cup Written => job.skipped = {}
          /\ phase' \in Written => job.batch \subseteq rows'
      BY <1>0, <2>1, <2>2 DEF DiskTaken, Progress, InHand, Sorted, Hashed, Uploaded, Written
    <3> QED
      BY <2>1, <2>2, <3>1, <3>2 DEF Progress
  <2> QED
    BY <1>0, <2>1, <2>3, <2>4 DEF DiskTaken, RowsHashed
<1>7. ASSUME NEW p \in Paths, SealFile(p) PROVE DiskTaken'
  <2>1. /\ phase = "upload" /\ phase' = phase /\ p \in job.upload /\ job.item = None
        /\ files' = UpsertFile(p, job.hash[p]) /\ UNCHANGED <<disk, snap, rows, backups>>
    BY <1>7 DEF SealFile
  <2>2. /\ UNCHANGED <<job.cur, job.kind, job.hash, job.pending, job.skipped, job.gone,
                       job.batch, job.failed>>
        /\ job'.upload = job.upload \ {p} /\ InHand' = {p} /\ Present' = Present
    <3> DEFINE item == [path |-> p, content |-> disk[p], iv |-> <<runs, p>>,
                        comp |-> p \in Compressible, stored |-> FALSE]
    <3>1. item # None /\ item.path = p
      BY <1>0, <1>7, SealItem, NoneAssumption
    <3>2. /\ job'.item = item /\ job'.upload = job.upload \ {p}
          /\ UNCHANGED <<job.cur, job.kind, job.hash, job.pending, job.skipped, job.gone,
                         job.batch, job.failed>>
      BY <1>7, SealLocals
    <3> HIDE DEF item
    <3> QED
      BY <3>1, <3>2 DEF InHand, Present
  <2>3. p \in Present /\ phase \in Sorted
    BY <1>0, <2>1 DEF DiskTaken, Progress, Waiting, Sorted, Hashed
  <2>4. /\ \A q \in Paths \ {p} : files'[q] = files[q]
        /\ files'[p] # None /\ files'[p].status = "active" /\ files'[p].hash = disk[p]
    BY <1>0, <2>1, <2>3, UpsertedRow
  <2>5. Progress'
    <3>1. /\ Waiting' \cup InHand' \subseteq Present
          /\ Waiting \subseteq Waiting' \cup {p}
      BY <1>0, <2>1, <2>2, <2>3 DEF Waiting, DiskTaken, Progress
    <3>2. \A q \in Present \ Waiting' : IsActive(q)' /\ files'[q].hash = disk[q]
      BY <1>0, <2>3, <2>4, <3>1 DEF DiskTaken, Progress, IsActive
    <3>3. ~job.failed => \A q \in Present \ (Waiting' \cup InHand') : Recorded(q)'
      <4>1. InHand = {}
        BY <2>1 DEF InHand
      <4> QED
        BY <1>0, <2>1, <2>2, <2>3, <2>4, <3>1, <4>1 DEF DiskTaken, Progress, Recorded
    <3>4. job.pending = {}
      BY <1>0, <2>1 DEF DiskTaken, Progress, Sorted, Hashed
    <3> QED
      BY <2>1, <2>2, <3>1, <3>2, <3>3, <3>4 DEF Progress, Sorted, Hashed, Uploaded, Written
  <2> QED
    BY <1>0, <2>1, <2>2, <2>3, <2>4, <2>5, FileTakes
<1>8. CASE UploadObject
  <2>1. UNCHANGED <<disk, files, snap, rows, backups, phase>> /\ job.item # None
    BY <1>8 DEF UploadObject, tables
  <2>2. InHand' = InHand
    BY <1>8, <2>1, UploadLocals DEF InHand
  <2> QED
    BY <1>0, <1>8, <2>1, <2>2, UploadLocals, TakenStill
<1>9. CASE RecordUpload
  <2> DEFINE p == job.item.path
             m == [iv |-> job.item.iv, comp |-> job.item.comp]
  <2>1. /\ phase = "upload" /\ phase' = phase /\ job.item # None
        /\ files' = UpsertMarked(p, job.hash[p], "success") /\ UNCHANGED <<disk, snap, rows, backups>>
    BY <1>0, <1>9 DEF RecordUpload, ItemKey
  <2>2. InHand = {p} /\ InHand' = {} /\ Present' = Present /\ Waiting' = Waiting
    BY <1>9, <2>1, RecordLocals DEF InHand, Present, Waiting
  <2>3. p \in Present /\ phase \in Sorted
    BY <1>0, <2>1, <2>2 DEF DiskTaken, Progress, Sorted, Hashed
  <2>4. /\ \A q \in Paths \ {p} : files'[q] = files[q]
        /\ files'[p] # None /\ files'[p].status = "active" /\ files'[p].hash = disk[p]
        /\ files'[p].last = "success"
    BY <1>0, <2>1, <2>3, UpsertedRow
  <2>5. job'.batch = job.batch \cup {RowOf(p, m)} /\ RowOf(p, m).path = p /\ RowOf(p, m).key = disk[p]
    BY <1>0, <1>9, <2>3, RecordLocals DEF RowOf
  <2>6. UNCHANGED <<job.cur, job.kind, job.hash, job.pending, job.upload, job.skipped, job.gone, job.failed>>
    BY <1>9, RecordLocals
  <2> HIDE DEF p, m
  <2>7. Progress'
    <3>1. \A q \in Present \ Waiting : IsActive(q)' /\ files'[q].hash = disk[q]
      BY <1>0, <2>3, <2>4 DEF DiskTaken, Progress, IsActive
    <3>2. ~job.failed => \A q \in Present \ Waiting : Recorded(q)'
      BY <1>0, <2>1, <2>2, <2>3, <2>4, <2>5 DEF DiskTaken, Progress, Recorded
    <3>3. job.pending = {} /\ Waiting \subseteq Present
      BY <1>0, <2>1 DEF DiskTaken, Progress, Sorted, Hashed
    <3> QED
      BY <2>1, <2>2, <2>6, <3>1, <3>2, <3>3 DEF Progress, Sorted, Hashed, Uploaded, Written
  <2> QED
    BY <1>0, <2>1, <2>3, <2>4, <2>6, <2>7, FileTakes
<1>10. ASSUME NEW p \in Present, phase = "upload", FileFails(p), InHand \subseteq {p} PROVE DiskTaken'
  <2>1. /\ phase' = phase /\ files' = UpsertMarked(p, job.hash[p], "failed")
        /\ UNCHANGED <<disk, snap, rows, backups>> /\ phase \in Sorted
    BY <1>10 DEF FileFails, Sorted, Hashed
  <2>2. /\ UNCHANGED <<job.cur, job.kind, job.hash, job.pending, job.skipped, job.gone>>
        /\ job'.upload = job.upload \ {p} /\ InHand' = {} /\ Present' = Present /\ job'.failed
    BY <1>10, FailLocals DEF InHand, Present
  <2>3. /\ \A q \in Paths \ {p} : files'[q] = files[q]
        /\ files'[p] # None /\ files'[p].status = "active" /\ files'[p].hash = disk[p]
    BY <1>0, <2>1, UpsertedRow
  <2>4. Progress'
    <3>1. Waiting' \subseteq Present /\ Waiting \subseteq Waiting' \cup {p} /\ job.pending = {}
      BY <1>0, <1>10, <2>1, <2>2 DEF Waiting, DiskTaken, Progress
    <3>2. \A q \in Present \ Waiting' : IsActive(q)' /\ files'[q].hash = disk[q]
      BY <1>0, <1>10, <2>1, <2>3, <3>1 DEF DiskTaken, Progress, IsActive
    <3> QED
      BY <1>10, <2>1, <2>2, <3>1, <3>2 DEF Progress, Sorted, Hashed, Uploaded, Written
  <2> QED
    BY <1>0, <1>10, <2>1, <2>2, <2>3, <2>4, FileTakes
<1>11. ASSUME NEW p \in Paths, FailBeforeSealing(p) PROVE DiskTaken'
  <2>1. phase = "upload" /\ FileFails(p) /\ job.item = None /\ p \in job.upload
    BY <1>11 DEF FailBeforeSealing
  <2>2. p \in Present /\ InHand = {}
    BY <1>0, <2>1 DEF DiskTaken, Progress, Waiting, InHand, Sorted, Hashed
  <2> QED
    BY <1>10, <2>1, <2>2
<1>12. CASE FailAfterSealing
  <2>1. phase = "upload" /\ job.item # None /\ FileFails(job.item.path)
    BY <1>12 DEF FailAfterSealing
  <2>2. job.item.path \in Present /\ InHand = {job.item.path}
    BY <1>0, <2>1 DEF DiskTaken, Progress, InHand, Sorted, Hashed
  <2> QED
    BY <1>10, <2>1, <2>2
<1>13. ASSUME NEW p \in Paths, RecordSkipped(p) PROVE DiskTaken'
  <2>1. /\ phase = "skip" /\ phase' = phase /\ p \in job.skipped
        /\ files' = UpsertMarked(p, job.hash[p], "success") /\ UNCHANGED <<disk, snap, rows, backups>>
    BY <1>13 DEF RecordSkipped
  <2>2. PICK m : job'.batch = job.batch \cup {RowOf(p, m)}
    BY <1>13, SkipLocals
  <2>3. p \in Present /\ phase \in Sorted
    BY <1>0, <2>1 DEF DiskTaken, Progress, Waiting, Sorted, Hashed
  <2>4. /\ \A q \in Paths \ {p} : files'[q] = files[q]
        /\ files'[p] # None /\ files'[p].status = "active" /\ files'[p].hash = disk[p]
        /\ files'[p].last = "success"
    BY <1>0, <2>1, <2>3, UpsertedRow
  <2>5. RowOf(p, m).path = p /\ RowOf(p, m).key = disk[p]
    BY <1>0, <2>3 DEF RowOf
  <2>6. /\ UNCHANGED <<job.cur, job.kind, job.hash, job.pending, job.upload, job.gone, job.failed, InHand>>
        /\ job'.skipped = job.skipped \ {p} /\ Present' = Present
    BY <1>13, SkipLocals DEF InHand, Present
  <2>7. Progress'
    <3>1. Waiting' \subseteq Present /\ Waiting \subseteq Waiting' \cup {p}
      BY <1>0, <2>1, <2>6 DEF Waiting, DiskTaken, Progress, Sorted, Hashed
    <3>2. \A q \in Present \ Waiting' : IsActive(q)' /\ files'[q].hash = disk[q]
      BY <1>0, <2>1, <2>3, <2>4, <3>1 DEF DiskTaken, Progress, IsActive
    <3>3. job.pending = {} /\ job.upload = {} /\ InHand = {}
      BY <1>0, <2>1 DEF DiskTaken, Progress, Sorted, Uploaded, Hashed
    <3>4. ~job.failed => \A q \in Present \ (Waiting' \cup InHand') : Recorded(q)'
      BY <1>0, <2>1, <2>2, <2>3, <2>4, <2>5, <2>6, <3>1, <3>3 DEF DiskTaken, Progress, Recorded
    <3> QED
      BY <2>1, <2>6, <3>1, <3>2, <3>3, <3>4 DEF Progress, Sorted, Hashed, Uploaded, Written
  <2> QED
    BY <1>0, <2>1, <2>3, <2>4, <2>6, <2>7, FileTakes
<1>14. CASE MarkDeleted
  <2>1. /\ phase = "delete" /\ phase' = "unref" /\ UNCHANGED <<disk, snap, rows, backups, job>>
        /\ files' = [p \in Paths |-> IF p \in job.gone /\ files[p] # None
                                     THEN [files[p] EXCEPT !.status = "deleted"] ELSE files[p]]
    BY <1>14 DEF MarkDeleted
  <2>2. /\ Present' = Present /\ Waiting' = Waiting /\ InHand' = InHand
        /\ \A p \in Present : p \notin job.gone
    BY <1>0, <2>1 DEF Present, Waiting, InHand, DiskTaken, ScanTrue, Hashed, Marked
  <2>3. \A p \in Present : files'[p] = files[p]
    BY <1>0, <2>1, <2>2
  <2>4. \A p \in Paths : files'[p] # None => files[p] # None /\ files'[p].hash = files[p].hash
    BY <1>0, <2>1 DEF TypeOK, FileRows
  <2>5. \A p \in Paths \ Present : ~IsActive(p)'
    <3> SUFFICES ASSUME NEW p \in Paths \ Present, IsActive(p)' PROVE FALSE
      OBVIOUS
    <3>1. p \notin job.gone
      BY <1>0, <2>1 DEF IsActive, TypeOK, FileRows
    <3>2. IsActive(p)
      BY <2>1, <3>1 DEF IsActive
    <3> QED
      BY <1>0, <2>1, <3>1, <3>2 DEF DiskTaken, ScanTrue, Hashed, Marked
  <2>6. RowsHashed'
    BY <1>0, <2>1, <2>4 DEF DiskTaken, RowsHashed
  <2>7. ScanTrue'
    BY <1>0, <2>1, <2>2, <2>5 DEF DiskTaken, ScanTrue, Hashed, Marked
  <2>8. Progress'
    BY <1>0, <2>1, <2>2, <2>3
       DEF DiskTaken, Progress, Sorted, Hashed, Uploaded, Written, IsActive, Recorded
  <2> QED
    BY <2>6, <2>7, <2>8 DEF DiskTaken
<1>15. ASSUME NEW p \in Paths, ReleaseFile(p) PROVE DiskTaken'
  <2>1. phase = "unref" /\ phase' = phase /\ UNCHANGED <<disk, files, snap, rows, backups>>
    BY <1>15 DEF ReleaseFile
  <2>2. /\ Present' = Present /\ Waiting' = Waiting /\ InHand' = InHand
        /\ UNCHANGED <<job.cur, job.kind, job.hash, job.pending, job.upload, job.skipped, job.batch, job.failed>>
        /\ job'.gone \subseteq job.gone
    BY <1>15, ReleaseLocals DEF Present, Waiting, InHand
  <2>3. ScanTrue'
    BY <1>0, <2>1, <2>2 DEF DiskTaken, ScanTrue, Hashed, Marked, IsActive
  <2>4. Progress'
    BY <1>0, <2>1, <2>2 DEF DiskTaken, Progress, IsActive, Recorded
  <2> QED
    BY <1>0, <2>1, <2>3, <2>4 DEF DiskTaken, RowsHashed
<1>16. CASE Complete
  <2>1. /\ phase = "status" /\ phase' = "push" /\ phase \in Working
        /\ UNCHANGED <<disk, files, snap, rows, job>>
        /\ Present' = Present /\ Waiting' = Waiting /\ InHand' = InHand
    BY <1>16 DEF Complete, Present, Waiting, InHand, Phases, Working
  <2>2. backups'[job.cur] = (IF job.failed THEN "completed_with_errors" ELSE "completed")
    BY <1>16, <2>1, StatusType DEF Complete, Statuses
  <2>3. ScanTrue'
    BY <1>0, <2>1 DEF DiskTaken, ScanTrue, Hashed, Marked, IsActive
  <2>4. Progress'
    BY <1>0, <2>1, <2>2 DEF DiskTaken, Progress, Sorted, Hashed, Uploaded, Written, IsActive, Recorded
  <2> QED
    BY <1>0, <2>1, <2>3, <2>4 DEF DiskTaken, RowsHashed
<1>17. CASE PushSnapshot \/ PushFails \/ NoticeCancel \/ HardError \/ AbortUnrecorded \/ Crash
  <2>1. phase' \in {"idle", "down"} /\ files' = files /\ snap' \in {snap, None, Database}
    BY <1>17 DEF PushSnapshot, PushFails, PushFailed, Tear, NoticeCancel, HardError, Crash, Abort,
                 AbortUnrecorded, EndUnrecorded, EndSession, tables
  <2>2. RowsHashed'
    BY <1>0, <2>1 DEF DiskTaken, RowsHashed, Database
  <2> QED
    BY <2>1, <2>2, TakenOutside
<1>18. CASE Restart
  <2>1. phase' = "idle" /\ snap' = snap /\ (files' = files \/ (snap # None /\ files' = snap.files))
    BY <1>18 DEF Restart, LoadDatabase, Pulled, Cleaned, Database
  <2>2. RowsHashed'
    BY <1>0, <2>1 DEF DiskTaken, RowsHashed
  <2> QED
    BY <2>1, <2>2, TakenOutside
<1>19. ASSUME NEW p \in Paths, NEW c \in Hashes \cup {None}, Edit(p, c) PROVE DiskTaken'
  <2>1. phase' \in {"idle", "down"} /\ UNCHANGED <<files, snap>>
    BY <1>19 DEF Edit, tables
  <2>2. RowsHashed'
    BY <1>0, <2>1 DEF DiskTaken, RowsHashed
  <2> QED
    BY <2>1, <2>2, TakenOutside
<1>20. CASE Cancel
  BY <1>0, <1>20, CancelLocals, TakenStill DEF Cancel, tables, InHand
<1>21. ASSUME NEW k \in Keys, Lose(k) PROVE DiskTaken'
  BY <1>0, <1>21, TakenStill DEF Lose, tables, InHand
<1>22. CASE UNCHANGED vars
  BY <1>0, <1>22, TakenStill DEF vars, tables, InHand
<1>23. CASE CompleteUnrecorded
  <2>1. /\ phase = "status" /\ phase' = "push" /\ UNCHANGED <<disk, files, snap, rows, backups, job>>
        /\ Present' = Present /\ Waiting' = Waiting /\ InHand' = InHand
        /\ backups[job.cur] # "completed"
    BY <1>23 DEF CompleteUnrecorded, Present, Waiting, InHand, tables, NotYet, Phases, Working
  <2>2. ScanTrue'
    BY <1>0, <2>1 DEF DiskTaken, ScanTrue, Hashed, Marked, IsActive
  <2>3. Progress'
    BY <1>0, <2>1 DEF DiskTaken, Progress, Sorted, Hashed, Uploaded, Written, IsActive, Recorded
  <2> QED
    BY <1>0, <2>1, <2>2, <2>3 DEF DiskTaken, RowsHashed
<1>24. \A p \in Paths : ~FailUnmarked(p) /\ ~SkipFails(p) /\ ~ReleaseFails(p)
  BY <1>0 DEF FailUnmarked, SkipFails, ReleaseFails
<1> QED
  BY <1>1, <1>2, <1>3, <1>4, <1>5, <1>6, <1>7, <1>8, <1>9, <1>11, <1>12, <1>13, <1>14, <1>15,
     <1>16, <1>17, <1>18, <1>19, <1>20, <1>21, <1>22, <1>23, <1>24
     DEF Next, SessionStep, Environment, Exhausted, Refused

\* Where no directory is hidden, no file fails to be hashed, no statement for a single
\* file fails and no file changes under a session, a session about to be published as completed has a row of
\* everything on the disk, and the files it leaves active are those on the disk.
THEOREM CompletedSessionsTakeAll ==
  ASSUME {"liveDisk", "walkError", "hashError", "rowError"} \cap Faults = {}
  PROVE  Spec => []CompletedMeansAll
<1> DEFINE Inv == TypeInv /\ Dated /\ NotYet /\ (Clean => DiskTaken)
<1>1. Init => Inv
  <2>1. Init => DiskTaken
    BY DEF Init, DiskTaken, RowsHashed, ScanTrue, Progress, Hashed, Sorted, Uploaded, Written, Marked
  <2>2. Init => Dated
    BY DEF Init, Dated, Working
  <2>3. Init => NotYet
    BY DEF Init, NotYet, Working
  <2> QED
    BY <2>1, <2>2, <2>3, InitType
<1>2. Inv /\ [Next]_vars => Inv'
  BY NextType, NextDated, NextNotYet, NextTaken
<1>3. Inv => CompletedMeansAll
  <2> SUFFICES ASSUME TypeInv, Dated, DiskTaken, phase = "push", backups[job.cur] = "completed",
                      NEW p \in Paths
               PROVE  /\ IsActive(p) <=> disk[p] # None
                      /\ disk[p] # None =>
                           /\ files[p].hash = disk[p] /\ files[p].last = "success"
                           /\ \E r \in LatestRows(p) : r.backup = job.cur /\ r.key = disk[p]
    BY DEF CompletedMeansAll, Clean
  <2>1. /\ p \in Present <=> disk[p] # None
        /\ p \notin Present => ~IsActive(p)
    BY DEF DiskTaken, ScanTrue, Hashed, Marked
  <2>2. Waiting = {} /\ InHand = {} /\ ~job.failed /\ job.batch \subseteq rows
    BY DEF DiskTaken, Progress, Waiting, Sorted, Uploaded, Written, Hashed
  <2>3. p \in Present => IsActive(p) /\ files[p].hash = disk[p] /\ Recorded(p)
    BY <2>2 DEF DiskTaken, Progress, Sorted, Hashed
  <2>4. ASSUME p \in Present PROVE \E r \in LatestRows(p) : r.backup = job.cur /\ r.key = disk[p]
    <3>1. PICK r \in job.batch : r.path = p /\ r.key = disk[p]
      BY <2>3, <2>4 DEF Recorded
    <3>2. r \in rows /\ r.backup = job.cur
      BY <2>2, <3>1 DEF Dated, Working, Phases
    <3>3. \A s \in rows : s.backup <= job.cur
      <4>1. job.cur = Len(backups) /\ backups \in Seq(Statuses)
        BY DEF TypeInv, TypeOK, Started, Working, Phases
      <4> QED
        BY <4>1, LenProperties DEF Dated
    <3> QED
      BY <3>1, <3>2, <3>3 DEF LatestRows
  <2> QED
    BY <2>1, <2>3, <2>4 DEF Recorded
<1> QED
  BY <1>1, <1>2, <1>3, PTL DEF Spec

-----------------------------------------------------------------------------
(* Reference counts. *)

RefIn(ix, h) == IF ix[h] = None THEN 0 ELSE ix[h].ref

\* The files whose use of content h is counted by now: before the session sorted
\* them the active ones; from then on the files it has counted, and those it has not
\* released.
Holders(h) ==
  IF phase \in Sorted
  THEN {p \in Present \ (job.pending \cup job.upload \cup InHand) : job.hash[p] = h}
         \cup {p \in job.gone : files[p] # None /\ files[p].hash = h}
  ELSE ActiveWith(files, h)

CountsHold ==
  /\ \A h \in Hashes : RefIn(index, h) >= Cardinality(Holders(h))
  /\ snap # None =>
       \A h \in Hashes : RefIn(snap.index, h) >= Cardinality(ActiveWith(snap.files, h))

\* As long as nothing failed a hash row has its object, so that a known content is
\* always found and counted, and what is uploaded is new.
NothingFailed ==
  /\ \A k \in Keys : index[k] # None => oss[k] # None
  /\ snap # None => \A k \in Keys : snap.index[k] # None => oss[k] # None
  /\ phase # "down"
  /\ phase \in Working => ~job.cancelled /\ ~job.failed
  /\ job.item # None /\ job.item.stored => oss[ItemKey] # None
  /\ phase \in Sorted =>
       /\ \A p \in job.pending : job.hash[p] \in job.confirmed
       /\ job.upload \cup InHand \subseteq job.fresh

\* The steps that are left when nothing fails.
Fileless == DedupDone \/ UploadsDone \/ SkipsDone \/ AddBackupFiles \/ ReleasesDone \/ Complete
Faultless ==
  \/ StartBackup \/ Scan \/ ComputeHashes \/ CheckObjects \/ Fileless
  \/ UploadObject \/ RecordUpload \/ MarkDeleted \/ PushSnapshot
  \/ \E p \in Paths : DedupFile(p) \/ SealFile(p) \/ RecordSkipped(p) \/ ReleaseFile(p)
  \/ phase = "idle" /\ UNCHANGED <<oss, snap, tables, phase, job, faults>>
  \/ UNCHANGED vars

LEMMA OnlyFaultless ==
  ASSUME "liveDisk" \notin Faults, TypeInv, DiskTaken, NothingFailed, faults = 0, faults' = 0,
         [Next]_vars
  PROVE  Faultless
<1>0. \A f : ~Fault(f)
  BY DEF Fault
<1>1. /\ ~Cancel /\ ~Crash /\ ~HardError /\ ~PushFails /\ ~Restart /\ ~NoticeCancel
      /\ ~CompleteUnrecorded /\ ~AbortUnrecorded
      /\ \A p \in Paths : ~FailUnmarked(p) /\ ~SkipFails(p) /\ ~ReleaseFails(p)
  BY <1>0 DEF Cancel, Crash, HardError, PushFails, Restart, NoticeCancel, CancelNoticed,
              CompleteUnrecorded, AbortUnrecorded, EndUnrecorded, FailUnmarked, SkipFails,
              ReleaseFails, NothingFailed, Working, Phases
<1>2. \A k \in Keys : ~Lose(k)
  BY <1>0 DEF Lose
<1>3. \A p \in Paths : ~FailBeforeSealing(p)
  <2> SUFFICES ASSUME NEW p \in Paths, FailBeforeSealing(p) PROVE FALSE
    OBVIOUS
  <2>1. phase = "upload" /\ p \in job.upload /\ disk[p] = None
    BY <1>0 DEF FailBeforeSealing
  <2> QED
    BY <2>1 DEF DiskTaken, ScanTrue, Progress, Waiting, Hashed, Sorted
<1>4. ~FailAfterSealing
  BY <1>0 DEF FailAfterSealing, NothingFailed, Working, Phases
<1>5. \A p \in Paths, c \in Hashes \cup {None} :
        Edit(p, c) => phase = "idle" /\ UNCHANGED <<oss, snap, tables, phase, job, faults>>
  BY DEF Edit, NothingFailed
<1> QED
  BY <1>1, <1>2, <1>3, <1>4, <1>5
     DEF Next, SessionStep, Environment, Exhausted, Refused, Faultless, Fileless

LEMMA NextFine ==
  ASSUME "liveDisk" \notin Faults
  PROVE  TypeInv /\ DiskTaken /\ NothingFailed /\ faults = 0 /\ faults' = 0 /\ [Next]_vars
           => NothingFailed'
<1> SUFFICES ASSUME TypeInv, DiskTaken, NothingFailed, faults = 0, faults' = 0, [Next]_vars
             PROVE  NothingFailed'
  OBVIOUS
<1>0. /\ \A f : ~Fault(f)
      /\ TypeOK /\ job \in Jobs /\ Faultless
  BY OnlyFaultless DEF Fault, TypeInv, TypeOK
<1>1. CASE StartBackup
  <2>1. index' = Pulled(Database).index /\ UNCHANGED <<oss, snap>> /\ phase' = "scan"
    BY <1>1 DEF StartBackup, LoadDatabase
  <2> QED
    BY <1>1, <2>1, StartLocals DEF NothingFailed, Pulled, Database, InHand, Sorted, Hashed, ItemKey
<1>2. CASE Scan \/ ComputeHashes
  <2>1. phase \in Working /\ phase' \in {"hash", "check"} /\ UNCHANGED <<oss, snap, index>>
    BY <1>2 DEF Scan, ComputeHashes, tables, Working, Phases
  <2>2. job'.item = job.item /\ job'.failed = job.failed /\ job'.cancelled = job.cancelled
    BY <1>2, ScanLocals, HashLocals
  <2>3. job.item = None
    <3>1. phase \in {"scan", "hash"}
      BY <1>2 DEF Scan, ComputeHashes
    <3> QED
      BY <3>1, NoneAssumption DEF DiskTaken, Progress, InHand
  <2> QED
    BY <2>1, <2>2, <2>3 DEF NothingFailed, Sorted, Hashed
<1>3. CASE CheckObjects
  <2>1. /\ phase = "check" /\ phase' = "dedup" /\ UNCHANGED <<oss, snap, index>>
        /\ job'.confirmed = KnownKeys
    BY <1>0, <1>3, CheckLocals DEF CheckObjects, tables
  <2>2. \A q \in job'.pending : job'.hash[q] \in job'.confirmed
    <3> SUFFICES ASSUME NEW q \in Present \ NewContents PROVE job.hash[q] \in KnownKeys
      BY <1>3, <2>1, CheckLocals
    <3>1. index[job.hash[q]] # None /\ job.hash[q] \in Keys
      BY <1>0 DEF NewContents, Present, Jobs
    <3> QED
      BY <3>1 DEF KnownKeys, ExistsBatch, NothingFailed
  <2>3. job.item = None /\ job'.item = None /\ job'.upload = job'.fresh
    BY <1>3, <2>1, CheckLocals, NoneAssumption DEF DiskTaken, Progress, InHand
  <2> QED
    BY <1>3, <2>1, <2>2, <2>3, CheckLocals DEF NothingFailed, InHand, Working, Phases
<1>4. ASSUME NEW p \in Paths, DedupFile(p) PROVE NothingFailed'
  <2>1. /\ phase = "dedup" /\ phase' = phase /\ p \in job.pending /\ UNCHANGED <<oss, snap>>
        /\ job.hash[p] \in job.confirmed /\ index[job.hash[p]] # None
        /\ index' = IncrementRef(job.hash[p])
    BY <1>4 DEF DedupFile, NothingFailed, Sorted, Hashed
  <2>2. \A k \in Keys : index'[k] # None => index[k] # None
    BY <1>0, <2>1 DEF IncrementRef, TypeOK
  <2>3. job'.upload = job.upload /\ job'.pending \subseteq job.pending /\ InHand' = InHand
    BY <1>4, <2>1, DedupLocals DEF InHand
  <2> QED
    BY <1>4, <2>1, <2>2, <2>3, DedupLocals DEF NothingFailed, ItemKey
<1>5. CASE Fileless
  <2>1. /\ phase \in Working /\ phase' \in Working /\ UNCHANGED <<oss, snap, index, job>>
        /\ phase' \in Sorted => phase \in Sorted
    BY <1>5 DEF Fileless, DedupDone, UploadsDone, SkipsDone, AddBackupFiles, ReleasesDone, Complete,
                tables, Working, Phases, Sorted, Hashed
  <2> QED
    BY <2>1 DEF NothingFailed, InHand, ItemKey, Working
<1>6. ASSUME NEW p \in Paths, SealFile(p) PROVE NothingFailed'
  <2>1. phase = "upload" /\ phase' = phase /\ p \in job.upload /\ UNCHANGED <<oss, snap, index>>
    BY <1>6 DEF SealFile
  <2>2. job'.item.path = p /\ job'.item.stored = FALSE
    <3> DEFINE item == [path |-> p, content |-> disk[p], iv |-> <<runs, p>>,
                        comp |-> p \in Compressible, stored |-> FALSE]
    <3>1. item.path = p /\ item.stored = FALSE
      OBVIOUS
    <3>2. job'.item = item
      BY <1>6, SealLocals
    <3> HIDE DEF item
    <3> QED
      BY <3>1, <3>2
  <2>3. job'.upload \cup InHand' \subseteq job'.fresh
    BY <1>6, <2>1, <2>2, SealLocals DEF NothingFailed, InHand, Sorted, Hashed
  <2> QED
    BY <1>6, <2>1, <2>2, <2>3, SealLocals DEF NothingFailed
<1>7. CASE UploadObject
  <2>1. /\ phase = "upload" /\ phase' = phase /\ UNCHANGED <<snap, index>> /\ job.item # None
        /\ PutObject \/ ReuseNonce
    BY <1>0, <1>7 DEF UploadObject, tables, OverwriteFrozen, UploadUnsure
  <2>2. ItemKey' = ItemKey /\ ItemKey \in Keys /\ InHand' = InHand
    BY <1>0, <1>7, <2>1, UploadLocals, ItemType DEF ItemKey, InHand, TypeInv
  <2>3. /\ \A k \in Keys : oss[k] # None => oss'[k] # None
        /\ oss'[ItemKey] # None
    <3>1. ItemObject # None
      BY <2>1, ItemType, NoneAssumption DEF TypeInv
    <3> QED
      BY <1>0, <2>1, <2>2, <3>1 DEF PutObject, ReuseNonce, TypeOK
  <2> QED
    BY <1>7, <2>1, <2>2, <2>3, UploadLocals DEF NothingFailed
<1>8. CASE RecordUpload
  <2>1. /\ phase = "upload" /\ phase' = phase /\ UNCHANGED <<oss, snap>> /\ job.item # None
        /\ oss[ItemKey] # None /\ index' \in {index, UpsertHash(ItemKey)}
    BY <1>8 DEF RecordUpload, Verified
  <2>2. \A k \in Keys : index'[k] # None => oss[k] # None
    BY <1>0, <2>1 DEF UpsertHash, TypeOK, NothingFailed
  <2>3. job'.item = None /\ InHand' = {}
    BY <1>8, RecordLocals DEF InHand
  <2> QED
    BY <1>8, <2>1, <2>2, <2>3, RecordLocals DEF NothingFailed
<1>9. ASSUME NEW p \in Paths, RecordSkipped(p) PROVE NothingFailed'
  <2>1. phase = "skip" /\ phase' = phase /\ UNCHANGED <<oss, snap, index>>
    BY <1>9 DEF RecordSkipped
  <2> QED
    BY <1>9, <2>1, SkipLocals DEF NothingFailed, InHand, ItemKey
<1>10. CASE MarkDeleted
  <2>1. phase = "delete" /\ phase' = "unref" /\ UNCHANGED <<oss, snap, index, job>>
    BY <1>10 DEF MarkDeleted
  <2> QED
    BY <2>1 DEF NothingFailed, InHand, ItemKey, Working, Phases, Sorted, Hashed
<1>11. ASSUME NEW p \in Paths, ReleaseFile(p) PROVE NothingFailed'
  <2>1. /\ phase = "unref" /\ phase' = phase /\ UNCHANGED <<oss, snap>>
        /\ index' \in {index, DecrementRef(files[p].hash)}
    BY <1>11 DEF ReleaseFile
  <2>2. \A k \in Keys : index'[k] # None => index[k] # None
    BY <1>0, <2>1 DEF DecrementRef, TypeOK
  <2> QED
    BY <1>11, <2>1, <2>2, ReleaseLocals DEF NothingFailed, InHand, ItemKey
<1>12. CASE PushSnapshot
  <2>1. phase' = "idle" /\ UNCHANGED <<oss, index>> /\ snap' = Database /\ job'.item = None
    BY <1>12 DEF PushSnapshot, EndSession, NoJob, tables
  <2>2. \A k \in Keys : snap'.index[k] # None => oss'[k] # None
    BY <2>1 DEF NothingFailed, Database
  <2>3. phase' \notin Working /\ phase' \notin Sorted
    BY <2>1 DEF Working, Sorted, Hashed
  <2>4. \A k \in Keys : index'[k] # None => oss'[k] # None
    BY <2>1 DEF NothingFailed
  <2> QED
    BY <2>1, <2>2, <2>3, <2>4 DEF NothingFailed
<1>13. CASE \/ phase = "idle" /\ UNCHANGED <<oss, snap, tables, phase, job, faults>>
           \/ UNCHANGED vars
  BY <1>13 DEF vars, tables, NothingFailed, InHand, ItemKey
<1> QED
  BY <1>0, <1>1, <1>2, <1>3, <1>4, <1>5, <1>6, <1>7, <1>8, <1>9, <1>10, <1>11, <1>12, <1>13
     DEF Faultless

\* Sets of files, one more and one less.
LEMMA OneMore ==
  ASSUME NEW S, IsFiniteSet(S), NEW n \in Int, n >= Cardinality(S), NEW x
  PROVE  n + 1 >= Cardinality(S \cup {x})
BY FS_AddElement, FS_CardinalityType

LEMMA OneLess ==
  ASSUME NEW S, IsFiniteSet(S), NEW n \in Int, n >= Cardinality(S), NEW x \in S
  PROVE  n >= 1 /\ n - 1 >= Cardinality(S \ {x})
<1>1. IsFiniteSet(S \ {x}) /\ Cardinality(S \ {x}) = Cardinality(S) - 1
  BY FS_RemoveElement
<1>2. Cardinality(S \ {x}) \in Nat /\ Cardinality(S) \in Nat
  BY <1>1, FS_CardinalityType
<1> QED
  BY <1>1, <1>2

LEMMA Fewer ==
  ASSUME NEW S, IsFiniteSet(S), NEW n \in Int, n >= Cardinality(S), NEW T \in SUBSET S
  PROVE  n >= Cardinality(T)
BY FS_Subset, FS_CardinalityType

LEMMA HoldersFinite ==
  ASSUME IsFiniteSet(Paths), TypeInv, NEW h \in Hashes
  PROVE  /\ IsFiniteSet(Holders(h)) /\ Holders(h) \subseteq Paths
         /\ RefIn(index, h) \in Nat
<1>1. job.gone \subseteq Paths
  BY DEF TypeInv, TypeOK, Jobs
<1>2. Holders(h) \subseteq Paths
  BY <1>1 DEF Holders, Present, ActiveWith
<1>3. RefIn(index, h) \in Nat
  BY DEF RefIn, TypeInv, TypeOK, HashRows, Keys
<1> QED
  BY <1>2, <1>3, FS_Subset

\* What the statements on hash_index do to the count of a content.
LEMMA CountSteps ==
  ASSUME TypeOK, NEW h \in Keys, NEW g \in Keys
  PROVE  /\ RefIn(UpsertHash(h), g) = IF g = h THEN RefIn(index, g) + 1 ELSE RefIn(index, g)
         /\ index[h] # None =>
              RefIn(IncrementRef(h), g) = IF g = h THEN RefIn(index, g) + 1 ELSE RefIn(index, g)
         /\ RefIn(DecrementRef(h), g) =
              IF g = h /\ RefIn(index, g) > 0 THEN RefIn(index, g) - 1 ELSE RefIn(index, g)
<1>1. index[h] = None \/ index[h].ref \in Nat
  BY DEF TypeOK, HashRows
<1>2. \A n \in Nat, b \in BOOLEAN : [ref |-> n, orphaned |-> b] # None
  BY NoneAssumption DEF HashRows
<1>3. UpsertHash(h)[h] # None /\ (index[h] # None => IncrementRef(h)[h] # None)
  <2>1. index[h] = None \/ (index[h].ref \in Nat /\ index[h].orphaned \in BOOLEAN)
    BY DEF TypeOK, HashRows
  <2>2. (IF index[h] = None THEN 1 ELSE index[h].ref + 1) \in Nat
    BY <1>1
  <2>3. UpsertHash(h)[h] # None
    BY <1>2, <2>2 DEF UpsertHash, TypeOK
  <2>4. index[h] # None => index[h].ref + 1 \in Nat /\ (index[h].orphaned /\ index[h].ref # 0) \in BOOLEAN
    BY <1>1, <2>1
  <2> QED
    BY <1>2, <2>3, <2>4 DEF IncrementRef, TypeOK
<1>4. CASE g # h
  BY <1>4 DEF RefIn, UpsertHash, IncrementRef, DecrementRef, TypeOK
<1>5. CASE g = h
  <2>1. RefIn(UpsertHash(h), h) = RefIn(index, h) + 1
    BY <1>1, <1>3 DEF RefIn, UpsertHash, TypeOK
  <2>2. index[h] # None => RefIn(IncrementRef(h), h) = RefIn(index, h) + 1
    BY <1>1, <1>3 DEF RefIn, IncrementRef, TypeOK
  <2>3. RefIn(DecrementRef(h), h) = IF RefIn(index, h) > 0 THEN RefIn(index, h) - 1 ELSE RefIn(index, h)
    <3>1. index[h] = None \/ index[h] \in HashRows
      BY DEF TypeOK
    <3> QED
      BY <1>1, <1>2, <3>1 DEF RefIn, DecrementRef, TypeOK, HashRows
  <2> QED
    BY <1>5, <2>1, <2>2, <2>3
<1> QED
  BY <1>4, <1>5

\* A step that does not change the counts, and after which no content has more holders.
LEMMA NoMoreHolders ==
  ASSUME IsFiniteSet(Paths), TypeInv, CountsHold, UNCHANGED <<index, snap>>,
         \A h \in Hashes : Holders(h)' \subseteq Holders(h)
  PROVE  CountsHold'
<1>1. ASSUME NEW h \in Hashes PROVE RefIn(index', h) >= Cardinality(Holders(h)')
  <2>1. RefIn(index, h) >= Cardinality(Holders(h)) /\ RefIn(index', h) = RefIn(index, h)
    BY DEF CountsHold, RefIn
  <2> QED
    BY <2>1, HoldersFinite, Fewer
<1>2. snap' # None =>
        \A h \in Hashes : RefIn(snap'.index, h) >= Cardinality(ActiveWith(snap'.files, h))
  BY DEF CountsHold
<1> QED
  BY <1>1, <1>2 DEF CountsHold

\* A step that counts one more holder of one content.
LEMMA OneMoreHolder ==
  ASSUME IsFiniteSet(Paths), TypeInv, CountsHold, snap' = snap, NEW p \in Paths, NEW g \in Hashes,
         \/ index' = UpsertHash(g)
         \/ index[g] # None /\ index' = IncrementRef(g),
         \A h \in Hashes : Holders(h)' \subseteq Holders(h) \cup (IF h = g THEN {p} ELSE {})
  PROVE  CountsHold'
<1>1. ASSUME NEW h \in Hashes PROVE RefIn(index', h) >= Cardinality(Holders(h)')
  <2>1. RefIn(index', h) = IF h = g THEN RefIn(index, h) + 1 ELSE RefIn(index, h)
    BY CountSteps DEF TypeInv, Keys
  <2>2. /\ RefIn(index, h) >= Cardinality(Holders(h)) /\ RefIn(index, h) \in Nat
        /\ IsFiniteSet(Holders(h))
    BY HoldersFinite DEF CountsHold
  <2>3. CASE h = g
    <3>1. RefIn(index, h) + 1 >= Cardinality(Holders(h) \cup {p})
      <4>1. RefIn(index, h) \in Int
        BY <2>2
      <4> QED
        BY <2>2, <4>1, OneMore
    <3>2. IsFiniteSet(Holders(h) \cup {p})
      BY <2>2, FS_AddElement
    <3>3. Holders(h)' \subseteq Holders(h) \cup {p}
      BY <2>3
    <3> QED
      BY <2>1, <2>2, <2>3, <3>1, <3>2, <3>3, Fewer
  <2>4. CASE h # g
    BY <2>1, <2>2, <2>4, Fewer
  <2> QED
    BY <2>3, <2>4
<1>2. snap' # None =>
        \A h \in Hashes : RefIn(snap'.index, h) >= Cardinality(ActiveWith(snap'.files, h))
  BY DEF CountsHold
<1> QED
  BY <1>1, <1>2 DEF CountsHold

LEMMA NextCounts ==
  ASSUME "liveDisk" \notin Faults, IsFiniteSet(Paths)
  PROVE  TypeInv /\ DiskTaken /\ NothingFailed /\ CountsHold /\ faults = 0 /\ faults' = 0 /\ [Next]_vars
           => CountsHold'
<1> SUFFICES ASSUME TypeInv, DiskTaken, NothingFailed, CountsHold, faults = 0, faults' = 0, [Next]_vars
             PROVE  CountsHold'
  OBVIOUS
<1>0. /\ \A f : ~Fault(f)
      /\ TypeOK /\ job \in Jobs /\ Faultless
      /\ \A p \in Present : p \in Paths
      /\ \A p \in job.gone : p \notin Present \/ phase \notin Hashed
  <2>1. \A f : ~Fault(f)
    BY DEF Fault
  <2>2. TypeOK /\ job \in Jobs /\ \A p \in Present : p \in Paths
    BY DEF TypeInv, TypeOK, Present
  <2>3. Faultless
    BY OnlyFaultless
  <2>4. \A p \in job.gone : p \notin Present \/ phase \notin Hashed
    BY DEF DiskTaken, ScanTrue, Present
  <2> QED
    BY <2>1, <2>2, <2>3, <2>4
<1>1. CASE StartBackup
  <2>1. /\ phase = "idle" /\ phase' = "scan" /\ snap' = snap
        /\ files' = Pulled(Database).files /\ index' = Pulled(Database).index
    BY <1>1 DEF StartBackup, LoadDatabase
  <2>2. \A h \in Hashes : Holders(h)' = ActiveWith(files', h) /\ Holders(h) = ActiveWith(files, h)
    BY <2>1 DEF Holders, Sorted, Hashed
  <2> QED
    BY <2>1, <2>2 DEF CountsHold, Pulled, Database
<1>2. CASE Scan \/ ComputeHashes
  <2>1. phase \notin Sorted /\ phase' \notin Sorted /\ UNCHANGED <<files, index, snap>>
    BY <1>2 DEF Scan, ComputeHashes, tables, Sorted, Hashed
  <2> QED
    BY <2>1, NoMoreHolders DEF Holders, ActiveWith
<1>3. CASE CheckObjects
  <2>1. phase = "check" /\ phase' = "dedup" /\ UNCHANGED <<files, index, snap>>
    BY <1>3 DEF CheckObjects, tables
  <2>2. /\ Present' = Present /\ job'.pending \cup job'.upload = Present /\ job'.gone = job.gone
    BY <1>3, CheckLocals DEF Present, NewContents
  <2>3. \A p \in job.gone : IsActive(p)
    BY <1>0, <2>1 DEF DiskTaken, ScanTrue, Hashed, Marked, Present
  <2>4. ASSUME NEW h \in Hashes PROVE Holders(h)' \subseteq Holders(h)
    <3>1. Holders(h)' = {p \in job.gone : files[p] # None /\ files[p].hash = h}
      BY <2>1, <2>2 DEF Holders, Sorted, Hashed
    <3>2. Holders(h) = ActiveWith(files, h) /\ job.gone \subseteq Paths
      BY <1>0, <2>1 DEF Holders, Sorted, Hashed, Jobs
    <3> QED
      BY <2>3, <3>1, <3>2 DEF ActiveWith, IsActive
  <2> QED
    BY <2>1, <2>4, NoMoreHolders
<1>4. ASSUME NEW p \in Paths, DedupFile(p) PROVE CountsHold'
  <2>1. /\ phase = "dedup" /\ phase' = phase /\ p \in job.pending /\ UNCHANGED <<files, snap>>
        /\ job.hash[p] \in job.confirmed /\ index[job.hash[p]] # None
        /\ index' = IncrementRef(job.hash[p])
    BY <1>4 DEF DedupFile, NothingFailed, Sorted, Hashed
  <2>2. /\ Present' = Present /\ InHand' = InHand /\ job'.hash = job.hash /\ job'.gone = job.gone
        /\ job'.pending = job.pending \ {p} /\ job'.upload = job.upload
    BY <1>4, <2>1, DedupLocals DEF Present, InHand
  <2>3. job.hash[p] \in Hashes
    <3>1. p \in Present
      BY <2>1 DEF DiskTaken, Progress, Waiting, Sorted, Hashed
    <3>2. job.hash[p] = disk[p] /\ disk[p] # None
      BY <1>0, <2>1, <3>1 DEF DiskTaken, ScanTrue, Hashed
    <3> QED
      BY <1>0, <3>2 DEF TypeOK
  <2>4. ASSUME NEW h \in Hashes
        PROVE  Holders(h)' \subseteq Holders(h) \cup (IF h = job.hash[p] THEN {p} ELSE {})
    BY <2>1, <2>2 DEF Holders
  <2> QED
    BY <2>1, <2>3, <2>4, OneMoreHolder
<1>5. CASE Fileless
  <2>1. /\ phase \in Sorted /\ phase' \in Sorted /\ UNCHANGED <<files, snap, index, job>>
    BY <1>5 DEF Fileless, DedupDone, UploadsDone, SkipsDone, AddBackupFiles, ReleasesDone, Complete,
                tables, Sorted, Hashed
  <2> QED
    BY <2>1, NoMoreHolders DEF Holders, Present, InHand
<1>6. ASSUME NEW p \in Paths, SealFile(p) PROVE CountsHold'
  <2>1. /\ phase = "upload" /\ phase' = phase /\ p \in job.upload /\ UNCHANGED <<index, snap>>
        /\ files' = UpsertFile(p, job.hash[p]) /\ job.item = None
    BY <1>6 DEF SealFile
  <2>2. /\ Present' = Present /\ job'.hash = job.hash /\ job'.gone = job.gone
        /\ job'.pending = job.pending /\ job'.upload = job.upload \ {p} /\ InHand' = {p}
        /\ InHand = {}
    <3> DEFINE item == [path |-> p, content |-> disk[p], iv |-> <<runs, p>>,
                        comp |-> p \in Compressible, stored |-> FALSE]
    <3>1. item # None /\ item.path = p
      BY <1>6, SealItem, NoneAssumption
    <3>2. /\ job'.item = item /\ job'.upload = job.upload \ {p}
          /\ UNCHANGED <<job.kind, job.hash, job.pending, job.gone>>
      BY <1>6, SealLocals
    <3> HIDE DEF item
    <3> QED
      BY <2>1, <3>1, <3>2 DEF InHand, Present
  <2>3. p \notin job.gone
    BY <1>0, <2>1 DEF DiskTaken, Progress, Waiting, Sorted, Hashed
  <2>4. \A q \in Paths \ {p} : files'[q] = files[q]
    BY <1>0, <2>1 DEF UpsertFile, TypeOK
  <2>5. job.gone \subseteq Paths \ {p}
    BY <1>0, <2>3 DEF Jobs
  <2>6. ASSUME NEW h \in Hashes PROVE Holders(h)' \subseteq Holders(h)
    BY <2>1, <2>2, <2>4, <2>5 DEF Holders, Sorted, Hashed
  <2> QED
    BY <2>1, <2>6, NoMoreHolders
<1>7. CASE UploadObject
  <2>1. phase = "upload" /\ phase' = phase /\ UNCHANGED <<snap, index, files>> /\ job.item # None
    BY <1>7 DEF UploadObject, tables
  <2>2. /\ Present' = Present /\ job'.hash = job.hash /\ job'.gone = job.gone
        /\ job'.pending = job.pending /\ job'.upload = job.upload /\ InHand' = InHand
    BY <1>7, <2>1, UploadLocals DEF InHand, Present
  <2> QED
    BY <2>1, <2>2, NoMoreHolders DEF Holders
<1>8. CASE RecordUpload
  <2> DEFINE p == job.item.path
  <2>1. /\ phase = "upload" /\ phase' = phase /\ snap' = snap /\ job.item # None
        /\ files' = UpsertMarked(p, job.hash[p], "success")
        /\ index' = IF p \in job.fresh THEN UpsertHash(job.hash[p]) ELSE index
    BY <1>0, <1>8 DEF RecordUpload, ItemKey
  <2>2. InHand = {p} /\ p \in Paths /\ p \in job.fresh /\ p \in Present
    BY <1>0, <2>1, ItemType DEF InHand, NothingFailed, DiskTaken, Progress, Sorted, Hashed
  <2>3. /\ Present' = Present /\ job'.hash = job.hash /\ job'.gone = job.gone
        /\ job'.pending = job.pending /\ job'.upload = job.upload /\ InHand' = {}
    BY <1>8, <2>1, RecordLocals DEF InHand, Present
  <2>4. \A q \in Paths \ {p} : files'[q] = files[q]
    BY <1>0, <2>1, <2>2 DEF UpsertMarked, TypeOK
  <2>5. job.gone \subseteq Paths \ {p} /\ job.hash[p] \in Hashes
    <3>1. job.gone \subseteq Paths \ {p}
      BY <1>0, <2>1, <2>2 DEF Hashed, Jobs
    <3>2. job.hash[p] = disk[p] /\ disk[p] # None
      BY <1>0, <2>1, <2>2 DEF DiskTaken, ScanTrue, Hashed
    <3> QED
      BY <1>0, <2>2, <3>1, <3>2 DEF TypeOK
  <2> HIDE DEF p
  <2>6. ASSUME NEW h \in Hashes
        PROVE  Holders(h)' \subseteq Holders(h) \cup (IF h = job.hash[p] THEN {p} ELSE {})
    BY <2>1, <2>2, <2>3, <2>4, <2>5 DEF Holders, Sorted, Hashed
  <2> QED
    BY <2>1, <2>2, <2>5, <2>6, OneMoreHolder
<1>9. ASSUME NEW p \in Paths, RecordSkipped(p) PROVE CountsHold'
  <2>1. /\ phase = "skip" /\ phase' = phase /\ p \in job.skipped /\ UNCHANGED <<index, snap>>
        /\ files' = UpsertMarked(p, job.hash[p], "success")
    BY <1>9 DEF RecordSkipped
  <2>2. /\ Present' = Present /\ job'.hash = job.hash /\ job'.gone = job.gone
        /\ job'.pending = job.pending /\ job'.upload = job.upload /\ InHand' = InHand
    BY <1>9, SkipLocals DEF InHand, Present
  <2>3. job.gone \subseteq Paths \ {p}
    BY <1>0, <2>1 DEF DiskTaken, Progress, Waiting, Sorted, Hashed, Jobs
  <2>4. \A q \in Paths \ {p} : files'[q] = files[q]
    BY <1>0, <2>1 DEF UpsertMarked, TypeOK
  <2>5. ASSUME NEW h \in Hashes PROVE Holders(h)' \subseteq Holders(h)
    BY <2>1, <2>2, <2>3, <2>4 DEF Holders, Sorted, Hashed
  <2> QED
    BY <2>1, <2>5, NoMoreHolders
<1>10. CASE MarkDeleted
  <2>1. /\ phase = "delete" /\ phase' = "unref" /\ UNCHANGED <<index, snap, job>>
        /\ files' = [p \in Paths |-> IF p \in job.gone /\ files[p] # None
                                     THEN [files[p] EXCEPT !.status = "deleted"] ELSE files[p]]
    BY <1>10 DEF MarkDeleted
  <2>2. \A p \in Paths : files'[p] # None => files[p] # None /\ files'[p].hash = files[p].hash
    BY <1>0, <2>1 DEF TypeOK, FileRows
  <2>3. job.gone \subseteq Paths
    BY <1>0 DEF Jobs
  <2>4. ASSUME NEW h \in Hashes PROVE Holders(h)' \subseteq Holders(h)
    BY <2>1, <2>2, <2>3 DEF Holders, Sorted, Hashed, Present, InHand
  <2> QED
    BY <2>1, <2>4, NoMoreHolders
<1>11. ASSUME NEW p \in Paths, ReleaseFile(p) PROVE CountsHold'
  <2>1. /\ phase = "unref" /\ phase' = phase /\ p \in job.gone /\ UNCHANGED <<files, snap>>
        /\ index' = IF files[p] # None /\ files[p].hash # NoHash
                    THEN DecrementRef(files[p].hash) ELSE index
    BY <1>11 DEF ReleaseFile
  <2>2. /\ Present' = Present /\ job'.hash = job.hash /\ job'.gone = job.gone \ {p}
        /\ job'.pending = job.pending /\ job'.upload = job.upload /\ InHand' = InHand
        /\ p \notin Present
    BY <1>0, <1>11, <2>1, ReleaseLocals DEF InHand, Present, Hashed
  <2>3. ASSUME NEW h \in Hashes PROVE RefIn(index', h) >= Cardinality(Holders(h)')
    <3>1. /\ RefIn(index, h) >= Cardinality(Holders(h)) /\ RefIn(index, h) \in Nat
          /\ IsFiniteSet(Holders(h))
      BY HoldersFinite DEF CountsHold
    <3>2. CASE files[p] # None /\ files[p].hash = h
      <4>1. p \in Holders(h) /\ Holders(h)' \subseteq Holders(h) \ {p}
        BY <2>1, <2>2, <3>2 DEF Holders, Sorted, Hashed
      <4>2. RefIn(index', h) = IF RefIn(index, h) > 0 THEN RefIn(index, h) - 1 ELSE RefIn(index, h)
        <5>1. h # NoHash /\ h \in Keys
          BY NamesAssumption DEF Keys
        <5> QED
          BY <1>0, <2>1, <3>2, <5>1, CountSteps
      <4>3. RefIn(index, h) >= 1 /\ RefIn(index, h) - 1 >= Cardinality(Holders(h) \ {p})
        BY <3>1, <4>1, OneLess
      <4>4. IsFiniteSet(Holders(h) \ {p})
        BY <3>1, FS_RemoveElement
      <4> QED
        BY <3>1, <4>1, <4>2, <4>3, <4>4, Fewer
    <3>3. CASE ~(files[p] # None /\ files[p].hash = h)
      <4>1. RefIn(index', h) = RefIn(index, h)
        <5>1. files[p] # None => files[p].hash \in Keys
          BY <1>0 DEF TypeOK, FileRows
        <5>2. h \in Keys
          BY DEF Keys
        <5> QED
          BY <1>0, <2>1, <3>3, <5>1, <5>2, CountSteps
      <4>2. Holders(h)' \subseteq Holders(h)
        BY <2>1, <2>2 DEF Holders
      <4> QED
        BY <3>1, <4>1, <4>2, Fewer
    <3> QED
      BY <3>2, <3>3
  <2>4. snap' # None =>
          \A h \in Hashes : RefIn(snap'.index, h) >= Cardinality(ActiveWith(snap'.files, h))
    BY <2>1 DEF CountsHold
  <2> QED
    BY <2>3, <2>4 DEF CountsHold
<1>12. CASE PushSnapshot
  <2>1. phase = "push" /\ phase' = "idle" /\ UNCHANGED <<files, index>> /\ snap' = Database
    BY <1>12 DEF PushSnapshot, EndSession, tables
  <2>2. ASSUME NEW h \in Hashes PROVE ActiveWith(files, h) \subseteq Holders(h)
    <3> SUFFICES ASSUME NEW p \in Paths, IsActive(p), files[p].hash = h PROVE p \in Holders(h)
      BY DEF ActiveWith, IsActive
    <3>1. p \in Present
      BY <2>1 DEF DiskTaken, ScanTrue, Marked
    <3>2. Waiting = {} /\ InHand = {}
      BY <2>1 DEF DiskTaken, Progress, Waiting, Sorted, Hashed, Uploaded, Written
    <3>3. job.hash[p] = h
      BY <2>1, <3>1, <3>2 DEF DiskTaken, ScanTrue, Progress, Sorted, Hashed
    <3> QED
      BY <2>1, <3>1, <3>2, <3>3 DEF Holders, Waiting, Sorted, Hashed
  <2>3. ASSUME NEW h \in Hashes PROVE RefIn(index, h) >= Cardinality(ActiveWith(files, h))
    BY <2>2, HoldersFinite, Fewer DEF CountsHold
  <2>4. \A h \in Hashes : Holders(h)' = ActiveWith(files, h)
    BY <2>1 DEF Holders, Sorted, Hashed
  <2> QED
    BY <2>1, <2>3, <2>4 DEF CountsHold, Database
<1>13. CASE \/ phase = "idle" /\ UNCHANGED <<oss, snap, tables, phase, job, faults>>
           \/ UNCHANGED vars
  <2>1. UNCHANGED <<files, index, snap, phase, job>>
    BY <1>13 DEF vars, tables
  <2> QED
    BY <2>1, NoMoreHolders DEF Holders, Present, InHand, ActiveWith
<1> QED
  BY <1>0, <1>1, <1>2, <1>3, <1>4, <1>5, <1>6, <1>7, <1>8, <1>9, <1>10, <1>11, <1>12, <1>13
     DEF Faultless

\* However many files share a content, between sessions, as long as nothing failed,
\* its reference count is at least the number of active files that have it.
THEOREM CountsCoverFiles ==
  ASSUME "liveDisk" \notin Faults, IsFiniteSet(Paths)
  PROVE  Spec => []RefsCoverFiles
<1> DEFINE Inv == /\ TypeInv /\ NotYet /\ (Clean => DiskTaken)
                  /\ faults = 0 => CountsHold /\ NothingFailed
<1>1. Init => Inv
  <2> SUFFICES ASSUME Init PROVE Inv
    OBVIOUS
  <2>1. DiskTaken
    BY DEF Init, DiskTaken, RowsHashed, ScanTrue, Progress, Hashed, Sorted, Uploaded, Written, Marked
  <2>2. ASSUME NEW h \in Hashes PROVE RefIn(index, h) >= Cardinality(Holders(h))
    <3>1. Holders(h) = {} /\ RefIn(index, h) = 0
      BY DEF Init, Holders, ActiveWith, Sorted, Hashed, RefIn, Keys
    <3> QED
      BY <3>1, FS_EmptySet
  <2>3. CountsHold
    BY <2>2 DEF Init, CountsHold
  <2>4. NothingFailed
    BY DEF Init, NothingFailed, NoJob, Working, Sorted, Hashed
  <2>5. NotYet
    BY DEF Init, NotYet, Working
  <2> QED
    BY <2>1, <2>3, <2>4, <2>5, InitType
<1>2. Inv /\ [Next]_vars => Inv'
  <2> SUFFICES ASSUME Inv, [Next]_vars PROVE Inv'
    OBVIOUS
  <2>1. TypeInv' /\ NotYet' /\ (Clean => DiskTaken)'
    BY NextType, NextNotYet, NextTaken
  <2>2. ASSUME faults' = 0 PROVE CountsHold' /\ NothingFailed'
    <3>1. faults = 0
      BY <2>2, FaultsGrow DEF TypeInv, TypeOK
    <3> QED
      BY <2>2, <3>1, NextFine, NextCounts DEF Clean
  <2> QED
    BY <2>1, <2>2
<1>3. Inv => RefsCoverFiles
  <2> SUFFICES ASSUME TypeInv, CountsHold, phase = "idle", NEW h \in Hashes,
                      Cardinality(ActiveWith(files, h)) > 0
               PROVE  index[h] # None /\ index[h].ref >= Cardinality(ActiveWith(files, h))
    BY DEF RefsCoverFiles
  <2>1. RefIn(index, h) >= Cardinality(ActiveWith(files, h))
    BY DEF CountsHold, Holders, Sorted, Hashed
  <2>2. ActiveWith(files, h) \subseteq Paths
    BY DEF ActiveWith
  <2>3. Cardinality(ActiveWith(files, h)) \in Nat
    BY <2>2, FS_Subset, FS_CardinalityType
  <2> QED
    BY <2>1, <2>3 DEF RefIn
<1> QED
  BY <1>1, <1>2, <1>3, PTL DEF Spec


-----------------------------------------------------------------------------
(* The history is a ledger. *)

\* The one session that may not be over is the last: it is open until it completes,
\* and what is pushed is a finished one.
LastOpen ==
  /\ phase = "down" => \A i \in DOMAIN backups : i # Len(backups) => backups[i] \notin Unsettled
  /\ phase \in Working \ {"push"} => backups[job.cur] \in Unsettled
  /\ phase = "push" => backups[job.cur] \in {"completed", "completed_with_errors"}

\* What a working session will push is the snapshot, itself and its own rows.
AddsItself ==
  phase \in Working /\ snap # None =>
    /\ Len(backups) = Len(snap.backups) + 1
    /\ \A r \in rows \ snap.rows : r.backup = job.cur

LedgerInv == TypeInv /\ OthersSettled /\ Extends /\ Dated /\ LastOpen /\ AddsItself

LEMMA InitLedger == Init => LedgerInv
<1> SUFFICES ASSUME Init PROVE LedgerInv
  OBVIOUS
<1>1. TypeInv /\ OthersSettled
  BY InitType, InitSettled
<1> QED
  BY <1>1 DEF Init, LedgerInv, Extends, Dated, LastOpen, AddsItself, Working

LEMMA NextLastOpen ==
  ASSUME "statusError" \notin Faults
  PROVE  TypeInv /\ OthersSettled /\ LastOpen /\ [Next]_vars => LastOpen'
<1> SUFFICES ASSUME TypeInv, OthersSettled, LastOpen, [Next]_vars PROVE LastOpen'
  OBVIOUS
<1>0. TypeOK /\ backups \in Seq(Statuses) /\ DOMAIN backups = 1..Len(backups)
  BY LenProperties DEF TypeInv, TypeOK
<1>1. CASE StartBackup
  <2> DEFINE d == Pulled(Database)
  <2>1. d.backups \in Seq(Statuses)
    BY <1>0, DatabaseType, PulledType
  <2>2. /\ backups' = Append(d.backups, "pending") /\ phase' = "scan"
        /\ job' = [NoJob EXCEPT !.cur = Len(d.backups) + 1]
    BY <1>1 DEF StartBackup
  <2> HIDE DEF d
  <2>3. job'.cur = Len(d.backups) + 1
    BY <2>2, NoJobType DEF Jobs
  <2>4. backups'[job'.cur] = "pending"
    BY <2>1, <2>2, <2>3
  <2> QED
    BY <2>2, <2>4 DEF LastOpen, Unsettled
<1>2. CASE Scan
  <2>1. phase \in Working /\ phase' = "hash" /\ SetStatus("running")
    BY <1>2 DEF Scan, Phases, Working
  <2>2. job'.cur = job.cur
    BY <1>0, <1>2 DEF Scan, TypeOK, Jobs
  <2>3. backups'[job.cur] = "running"
    BY <2>1, StatusType DEF Statuses
  <2> QED
    BY <2>1, <2>2, <2>3 DEF LastOpen, Unsettled
<1>3. CASE Complete
  <2>1. phase \in Working /\ phase' = "push" /\ job' = job
    BY <1>3 DEF Complete, Phases, Working
  <2>2. PICK s \in {"completed", "completed_with_errors"} : SetStatus(s)
    BY <1>3 DEF Complete
  <2>3. backups'[job.cur] = s
    BY <2>1, <2>2, StatusType DEF Statuses
  <2> QED
    BY <2>1, <2>2, <2>3 DEF LastOpen
<1>4. CASE AddBackupFiles
  BY <1>4 DEF AddBackupFiles, LastOpen, Phases, Working
<1>5. CASE PushSnapshot \/ Restart \/ Aborted
  BY <1>5 DEF PushSnapshot, Restart, Aborted, Abort, EndSession, LastOpen, Working
<1>6. CASE Quiet
  BY <1>6 DEF Quiet, Early, Late, LastOpen, Phases, Working
<1>7. CASE Aside
  BY <1>7 DEF Aside, LastOpen
<1>8. CASE Dropped
  <2>1. CASE phase' = "idle"
    BY <2>1 DEF LastOpen, Working
  <2>2. CASE phase' = "down"
    <3>1. phase \in Working => job.cur = Len(backups)
      BY DEF TypeInv, Started
    <3>2. phase \in {"idle", "down"} \cup Working
      BY <1>0 DEF TypeOK, Working
    <3>3. \A i \in DOMAIN backups : i # Len(backups) => backups[i] \notin Unsettled
      BY <3>1, <3>2 DEF OthersSettled, Settled, LastOpen
    <3>4. backups' = backups
      BY <1>8 DEF Dropped
    <3> QED
      BY <2>2, <3>3, <3>4 DEF LastOpen, Working
  <2> QED
    BY <1>8, <2>1, <2>2 DEF Dropped
<1> QED
  BY <1>1, <1>2, <1>3, <1>4, <1>5, <1>6, <1>7, <1>8, StepKinds DEF Unrecorded

LEMMA NextAddsItself == TypeInv /\ Dated /\ AddsItself /\ [Next]_vars => AddsItself'
<1> SUFFICES ASSUME TypeInv, Dated, AddsItself, [Next]_vars, phase' \in Working, snap' # None
             PROVE  /\ Len(backups') = Len(snap'.backups) + 1
                    /\ \A r \in rows' \ snap'.rows : r.backup = job'.cur
  BY DEF AddsItself
<1>0. TypeOK
  BY DEF TypeInv
<1>1. CASE StartBackup
  <2>1. snap' = snap /\ snap # None
    BY <1>1 DEF StartBackup
  <2>2. snap.backups \in Seq(Statuses)
    BY <1>0, <2>1 DEF TypeOK, Snapshots
  <2>3. backups' = Append(snap.backups, "pending") /\ rows' = snap.rows
    BY <1>1, <2>1 DEF StartBackup, LoadDatabase, Pulled
  <2> QED
    BY <2>1, <2>2, <2>3
<1>2. CASE Scan \/ Complete
  <2>1. phase \in Working /\ snap' = snap /\ rows' = rows
    BY <1>2 DEF Scan, Complete, Phases, Working
  <2>2. job'.cur = job.cur
    BY <1>0, <1>2 DEF Scan, Complete, TypeOK, Jobs
  <2>3. PICK s \in Statuses : SetStatus(s)
    BY <1>2 DEF Scan, Complete, Statuses
  <2>4. Len(backups') = Len(backups)
    BY <2>1, <2>3, StatusType
  <2> QED
    BY <2>1, <2>2, <2>4 DEF AddsItself
<1>3. CASE AddBackupFiles
  <2>1. phase \in Working /\ UNCHANGED <<snap, backups, job>> /\ rows' = rows \cup job.batch
    BY <1>3 DEF AddBackupFiles, Phases, Working
  <2> QED
    BY <2>1 DEF AddsItself, Dated
<1>4. CASE PushSnapshot \/ Restart \/ Aborted \/ Dropped
  BY <1>4 DEF PushSnapshot, Restart, Aborted, Abort, Dropped, EndSession, Working
<1>5. CASE Quiet
  BY <1>5 DEF Quiet, Early, Late, AddsItself, Phases, Working
<1>6. CASE Aside
  BY <1>6 DEF Aside, AddsItself
<1>7. CASE Unrecorded
  BY <1>7 DEF Unrecorded, AddsItself, Early, Late, Phases, Working
<1> QED
  BY <1>1, <1>2, <1>3, <1>4, <1>5, <1>6, <1>7, StepKinds

LEMMA NextLedgerInv ==
  ASSUME "statusError" \notin Faults
  PROVE  LedgerInv /\ [Next]_vars => LedgerInv'
BY NextType, NextSettled, NextExtends, NextDated, NextLastOpen, NextAddsItself DEF LedgerInv

\* A list of statuses with one entry more.
LEMMA OneEntered ==
  ASSUME NEW b \in Seq(Statuses), NEW c \in Seq(Statuses), Len(c) = Len(b) + 1,
         \A i \in 1..Len(b) : c[i] = b[i]
  PROVE  c = Append(b, c[Len(c)])
<1>1. Len(b) \in Nat /\ Len(c) \in 1..Len(c)
  BY LenProperties
<1>2. c[Len(c)] \in Statuses
  BY <1>1, ElementOfSeq
<1>3. Append(b, c[Len(c)]) \in Seq(Statuses) /\ Len(Append(b, c[Len(c)])) = Len(c)
  BY <1>2
<1>4. \A i \in 1..Len(c) : c[i] = Append(b, c[Len(c)])[i]
  BY <1>1, <1>2
<1> QED
  BY <1>3, <1>4, SeqEqual

\* The sessions that are over are all of them, or all but the last.
LEMMA OverAll ==
  ASSUME NEW b \in Seq(Statuses), Settled(b)
  PROVE  Over(b) = 1..Len(b) /\ Over(b) = DOMAIN b /\ [i \in Over(b) |-> b[i]] = b
<1>1. Over(b) = DOMAIN b
  BY DEF Over, Settled
<1>2. b \in [1..Len(b) -> Statuses] /\ DOMAIN b = 1..Len(b)
  BY LenProperties
<1> QED
  BY <1>1, <1>2

LEMMA OverButLast ==
  ASSUME NEW b \in Seq(Statuses), b # << >>, b[Len(b)] \in Unsettled,
         \A i \in DOMAIN b : i # Len(b) => b[i] \notin Unsettled
  PROVE  LET a == [i \in Over(b) |-> b[i]] IN
         /\ Over(b) = 1..(Len(b) - 1)
         /\ a \in Seq(Statuses) /\ Len(a) = Len(b) - 1
         /\ \A i \in 1..Len(a) : a[i] = b[i]
<1> DEFINE a == [i \in Over(b) |-> b[i]]
<1>1. Len(b) \in Nat \ {0} /\ DOMAIN b = 1..Len(b)
  BY EmptySeq, LenProperties
<1>2. Over(b) = 1..(Len(b) - 1)
  BY <1>1 DEF Over
<1>3. \A i \in 1..(Len(b) - 1) : b[i] \in Statuses
  BY <1>1, ElementOfSeq
<1>4. a \in [1..(Len(b) - 1) -> Statuses] /\ Len(b) - 1 \in Nat
  BY <1>1, <1>2, <1>3
<1>5. a \in Seq(Statuses)
  BY <1>4, SeqDef
<1>6. DOMAIN a = 1..Len(a) /\ Len(a) \in Nat
  BY <1>5, LenProperties
<1>7. Len(a) = Len(b) - 1
  <2>1. 1..Len(a) = 1..(Len(b) - 1)
    BY <1>2, <1>6
  <2> HIDE DEF a
  <2> QED
    BY <1>4, <1>6, <2>1
<1> QED
  BY <1>2, <1>5, <1>7

\* While the last session is open the ledger at home is without it.
HomeBut ==
  /\ Over(backups) = 1..(Len(backups) - 1)
  /\ HistoryStatuses \in Seq(Statuses) /\ Len(HistoryStatuses) = Len(backups) - 1
  /\ \A i \in 1..Len(HistoryStatuses) : HistoryStatuses[i] = backups[i]
  /\ HistoryRows = {r \in rows : r.backup # Len(backups)}

LEMMA HomeOpen ==
  LedgerInv /\ snap = None /\ backups # << >> /\ backups[Len(backups)] \in Unsettled => HomeBut
<1> SUFFICES ASSUME LedgerInv, snap = None, backups # << >>, backups[Len(backups)] \in Unsettled
             PROVE  HomeBut
  OBVIOUS
<1>1. backups \in Seq(Statuses) /\ phase \in {"idle", "down"} \cup Working
  BY DEF LedgerInv, TypeInv, TypeOK, Working
<1>2. Len(backups) \in Nat \ {0} /\ DOMAIN backups = 1..Len(backups)
  BY <1>1, EmptySeq, LenProperties
<1>3. \A i \in DOMAIN backups : i # Len(backups) => backups[i] \notin Unsettled
  BY <1>1, <1>2 DEF LedgerInv, OthersSettled, Settled, LastOpen, TypeInv, Started
<1>4. Over(backups) = 1..(Len(backups) - 1)
  BY <1>1, <1>3, OverButLast
<1>5. HistoryRows = {r \in rows : r.backup # Len(backups)}
  BY <1>2, <1>4 DEF HistoryRows, Published, LedgerInv, Dated
<1> QED
  BY <1>1, <1>3, <1>4, <1>5, OverButLast DEF HistoryStatuses, Published, HomeBut

LEMMA HomeClosed ==
  LedgerInv /\ snap = None /\ Settled(backups) => HistoryStatuses = backups /\ HistoryRows = rows
<1> SUFFICES ASSUME LedgerInv, snap = None, Settled(backups)
             PROVE  HistoryStatuses = backups /\ HistoryRows = rows
  OBVIOUS
<1>1. backups \in Seq(Statuses)
  BY DEF LedgerInv, TypeInv, TypeOK
<1>2. Over(backups) = DOMAIN backups /\ [i \in Over(backups) |-> backups[i]] = backups
  BY <1>1, OverAll
<1> QED
  BY <1>2 DEF HistoryStatuses, HistoryRows, Published, LedgerInv, Dated

\* The last session ends at home: that is one entry, with the rows it has.
LEMMA EndsAtHome ==
  ASSUME LedgerInv, LedgerInv', snap = None, snap' = None, rows' = rows,
         backups # << >>, backups[Len(backups)] \in Unsettled,
         Len(backups') = Len(backups), Settled(backups'),
         \A i \in DOMAIN backups : i # Len(backups) => backups'[i] = backups[i],
         backups'[Len(backups)] \in {"completed", "completed_with_errors", "failed", "cancelled"}
  PROVE  Book!Close
<1>0. backups \in Seq(Statuses) /\ backups' \in Seq(Statuses)
  BY DEF LedgerInv, TypeInv, TypeOK
<1>1. Len(backups) \in Nat \ {0} /\ DOMAIN backups = 1..Len(backups)
  BY <1>0, EmptySeq, LenProperties
<1>2. /\ HistoryStatuses \in Seq(Statuses) /\ Len(HistoryStatuses) = Len(backups) - 1
      /\ \A i \in 1..Len(HistoryStatuses) : HistoryStatuses[i] = backups[i]
      /\ HistoryRows = {r \in rows : r.backup # Len(backups)}
  BY HomeOpen DEF HomeBut
<1>3. HistoryStatuses' = backups' /\ HistoryRows' = rows'
  <2>1. (LedgerInv /\ snap = None /\ Settled(backups) => HistoryStatuses = backups /\ HistoryRows = rows)'
    BY HomeClosed, PTL
  <2> QED
    BY <2>1
<1>4. backups' = Append(HistoryStatuses, backups'[Len(backups)])
  BY <1>0, <1>1, <1>2, OneEntered
<1>5. \E s \in Book!Outcomes : HistoryStatuses' = Append(HistoryStatuses, s)
  BY <1>3, <1>4 DEF Book!Outcomes, Book!Finished
<1>6. /\ HistoryRows \subseteq HistoryRows'
      /\ \A r \in HistoryRows' \ HistoryRows : r.backup = Len(HistoryStatuses')
  BY <1>2, <1>3
<1> QED
  BY <1>5, <1>6 DEF Book!Close, Book!Enter, Published

\* While the snapshot stays where it is, so does the ledger in the bucket.
LEMMA BucketStays ==
  ASSUME snap # None, snap' = snap
  PROVE  UNCHANGED <<HistoryStatuses, HistoryRows, Published>>
BY DEF HistoryStatuses, HistoryRows, Published

\* Where there is no snapshot, a session begins and works without being entered.
LEMMA HomeStays ==
  ASSUME snap = None, snap' = None, Over(backups') = Over(backups),
         \A i \in Over(backups) : backups'[i] = backups[i],
         \A r : r.backup \in Over(backups) => (r \in rows <=> r \in rows')
  PROVE  UNCHANGED <<HistoryStatuses, HistoryRows, Published>>
<1>1. HistoryStatuses' = HistoryStatuses
  BY DEF HistoryStatuses, Published
<1>2. HistoryRows' = HistoryRows
  BY DEF HistoryRows, Published
<1> QED
  BY <1>1, <1>2 DEF Published

\* The database about to be pushed is the snapshot with one finished session more.
LEMMA PushedEntry ==
  ASSUME LedgerInv, phase = "push", snap # None
  PROVE  /\ \E s \in Book!Finished : backups = Append(snap.backups, s)
         /\ snap.rows \subseteq rows
         /\ \A r \in rows \ snap.rows : r.backup = Len(backups)
<1>1. TypeOK /\ phase \in Working /\ job.cur = Len(backups)
  BY DEF LedgerInv, TypeInv, TypeOK, Started, Phases, Working
<1>2. backups \in Seq(Statuses) /\ snap.backups \in Seq(Statuses)
  BY <1>1 DEF TypeOK, Snapshots
<1>3. DOMAIN snap.backups = 1..Len(snap.backups)
  BY <1>2, LenProperties
<1>4. /\ Len(backups) = Len(snap.backups) + 1
      /\ \A i \in 1..Len(snap.backups) : backups[i] = snap.backups[i]
  BY <1>1, <1>3 DEF LedgerInv, Extends, AddsItself
<1>5. backups = Append(snap.backups, backups[Len(backups)])
  BY <1>2, <1>4, OneEntered
<1>6. backups[Len(backups)] \in Book!Finished
  BY <1>1 DEF LedgerInv, LastOpen, Book!Finished
<1> QED
  BY <1>1, <1>5, <1>6 DEF LedgerInv, Extends, AddsItself

\* Every step of the pipeline is one of the ledger, or none.
LEMMA LedgerStep ==
  ASSUME "statusError" \notin Faults
  PROVE  LedgerInv /\ [Next]_vars => [Book!Next]_<<HistoryStatuses, HistoryRows, Published>>
<1> SUFFICES ASSUME LedgerInv, [Next]_vars
             PROVE  Book!Next \/ UNCHANGED <<HistoryStatuses, HistoryRows, Published>>
  OBVIOUS
<1>0. /\ LedgerInv' /\ TypeInv /\ TypeOK
      /\ backups \in Seq(Statuses) /\ DOMAIN backups = 1..Len(backups) /\ Len(backups) \in Nat
  BY NextLedgerInv, LenProperties DEF LedgerInv, TypeInv, TypeOK
<1>1. ASSUME phase \in Working \ {"push"}
      PROVE  job.cur = Len(backups) /\ backups # << >> /\ backups[Len(backups)] \in Unsettled
  BY <1>0, <1>1 DEF LedgerInv, LastOpen, TypeInv, Started
<1>2. CASE snap' = snap /\ snap # None
  BY <1>2, BucketStays
<1>3. CASE StartBackup /\ snap = None
  <2>1. /\ backups' = Append(backups, "pending") /\ rows' = rows /\ snap' = snap
        /\ Settled(backups)
    BY <1>3 DEF StartBackup, LoadDatabase, Pulled, Database, LedgerInv, OthersSettled
  <2>2. /\ DOMAIN backups' = 1..(Len(backups) + 1) /\ backups'[Len(backups) + 1] = "pending"
        /\ \A i \in 1..Len(backups) : backups'[i] = backups[i]
    BY <1>0, <2>1
  <2>3. Over(backups') = Over(backups) /\ Over(backups) \subseteq 1..Len(backups)
    BY <1>0, <2>2 DEF Over, Unsettled
  <2> QED
    BY <1>3, <2>1, <2>2, <2>3, HomeStays
<1>4. CASE Scan /\ snap = None
  <2>1. phase \in Working \ {"push"} /\ rows' = rows /\ snap' = snap /\ SetStatus("running")
    BY <1>4 DEF Scan, Phases, Working
  <2>2. /\ backups' \in Seq(Statuses) /\ Len(backups') = Len(backups)
        /\ backups'[Len(backups)] = "running"
        /\ \A i \in 1..Len(backups) \ {Len(backups)} : backups'[i] = backups[i]
    BY <1>1, <1>0, <2>1, StatusType DEF Statuses
  <2>3. DOMAIN backups' = 1..Len(backups)
    BY <2>2, LenProperties
  <2>4. Over(backups') = Over(backups) /\ Len(backups) \notin Over(backups)
    BY <1>0, <1>1, <2>1, <2>2, <2>3 DEF Over, Unsettled
  <2>5. \A i \in Over(backups) : backups'[i] = backups[i]
    BY <1>0, <2>2, <2>4 DEF Over
  <2> QED
    BY <1>4, <2>1, <2>4, <2>5, HomeStays
<1>5. CASE AddBackupFiles /\ snap = None
  <2>1. phase \in Working \ {"push"} /\ rows' = rows \cup job.batch /\ UNCHANGED <<snap, backups>>
    BY <1>5 DEF AddBackupFiles, Phases, Working
  <2>2. \A r \in job.batch : r.backup = Len(backups)
    BY <1>1, <2>1 DEF LedgerInv, Dated
  <2>3. Len(backups) \notin Over(backups)
    BY <1>1, <2>1 DEF Over
  <2> QED
    BY <1>5, <2>1, <2>2, <2>3, HomeStays
<1>6. CASE Complete /\ snap = None
  <2>1. phase \in Working \ {"push"} /\ phase' = "push" /\ rows' = rows /\ snap' = snap
    BY <1>6 DEF Complete, Phases, Working
  <2>2. PICK s \in {"completed", "completed_with_errors"} : SetStatus(s)
    BY <1>6 DEF Complete
  <2>3. /\ Len(backups') = Len(backups) /\ backups'[Len(backups)] = s
        /\ \A i \in 1..Len(backups) \ {Len(backups)} : backups'[i] = backups[i]
    BY <1>1, <1>0, <2>1, <2>2, StatusType DEF Statuses
  <2>4. Settled(backups')
    BY <1>0, <2>1 DEF LedgerInv, OthersSettled
  <2>5. Book!Close
    BY <1>0, <1>1, <1>6, <2>1, <2>3, <2>4, EndsAtHome
  <2> QED
    BY <2>5 DEF Book!Next
<1>7. CASE PushSnapshot
  <2>1. /\ phase = "push" /\ snap' = Database /\ UNCHANGED <<rows, backups>>
        /\ snap'.backups = backups /\ snap'.rows = rows
    BY <1>7 DEF PushSnapshot, tables, Database
  <2>2. snap' # None
    BY <1>0, <2>1, DatabaseType, NoneAssumption
  <2>3. Published' /\ HistoryStatuses' = backups /\ HistoryRows' = rows
    BY <2>1, <2>2 DEF Published, HistoryStatuses, HistoryRows
  <2>4. CASE snap = None
    <3>1. Settled(backups)
      BY <2>1 DEF LedgerInv, OthersSettled
    <3>2. HistoryStatuses = backups /\ HistoryRows = rows /\ ~Published
      BY <2>4, <3>1, HomeClosed DEF Published
    <3> QED
      BY <2>3, <3>2 DEF Book!Next, Book!Publish
  <2>5. CASE snap # None
    <3>1. Published /\ HistoryStatuses = snap.backups /\ HistoryRows = snap.rows
      BY <2>5 DEF Published, HistoryStatuses, HistoryRows
    <3> QED
      BY <2>1, <2>3, <2>5, <3>1, PushedEntry DEF Book!Next, Book!Extend, Book!Enter
  <2> QED
    BY <2>4, <2>5
<1>8. CASE Restart /\ snap = None
  <2> DEFINE b == [i \in DOMAIN backups |-> IF backups[i] \in Unsettled THEN "failed" ELSE backups[i]]
  <2>1. Cleaned = [Database EXCEPT !.backups = b]
    BY DEF Cleaned
  <2>2. Cleaned.rows = rows /\ Cleaned.backups = b
    BY <2>1 DEF Database
  <2>3. phase = "down" /\ phase' = "idle" /\ snap' = snap /\ backups' = b /\ rows' = rows
    BY <1>8, <2>2 DEF Restart, LoadDatabase, Pulled
  <2>4. CASE Settled(backups)
    <3>1. b = backups
      BY <1>0, <2>4, LenProperties DEF Settled
    <3> QED
      BY <1>8, <2>3, <3>1, HomeStays
  <2>5. CASE ~Settled(backups)
    <3>1. PICK i \in DOMAIN backups : backups[i] \in Unsettled
      BY <2>5 DEF Settled
    <3>2. i = Len(backups) /\ backups # << >>
      BY <1>0, <2>3, <3>1, EmptySeq DEF LedgerInv, LastOpen
    <3>3. \A j \in DOMAIN backups : j # Len(backups) => b[j] = backups[j]
      BY <2>3 DEF LedgerInv, LastOpen
    <3>4. b[Len(backups)] = "failed"
      BY <3>1, <3>2
    <3>5. DOMAIN backups' = 1..Len(backups') /\ Len(backups') \in Nat
      BY <1>0, LenProperties DEF LedgerInv, TypeInv, TypeOK
    <3>6. Len(backups') = Len(backups)
      BY <1>0, <2>3, <3>5
    <3>7. Settled(backups')
      BY <1>0, <2>3 DEF LedgerInv, OthersSettled
    <3>8. Book!Close
      BY <1>0, <1>8, <2>3, <3>1, <3>2, <3>3, <3>4, <3>6, <3>7, EndsAtHome
    <3> QED
      BY <3>8 DEF Book!Next
  <2> QED
    BY <2>4, <2>5
<1>9. CASE Quiet \/ Aside
  BY <1>9 DEF Quiet, Aside, HistoryStatuses, HistoryRows, Published
<1>10. CASE Aborted /\ snap = None
  <2>1. /\ phase \in Working \ {"push"} /\ phase' = "idle" /\ rows' = rows /\ snap' = snap
    BY <1>10 DEF Aborted, Abort, EndSession, Early, Late, Phases, Working
  <2>2. PICK s \in {"cancelled", "failed"} : SetStatus(s)
    BY <1>10 DEF Aborted, Abort
  <2>3. /\ Len(backups') = Len(backups) /\ backups'[Len(backups)] = s
        /\ \A i \in 1..Len(backups) \ {Len(backups)} : backups'[i] = backups[i]
    BY <1>1, <1>0, <2>1, <2>2, StatusType DEF Statuses
  <2>4. Settled(backups')
    BY <1>0, <2>1 DEF LedgerInv, OthersSettled
  <2>5. Book!Close
    BY <1>0, <1>1, <1>10, <2>1, <2>3, <2>4, EndsAtHome
  <2> QED
    BY <2>5 DEF Book!Next
<1>11. CASE Dropped
  <2>1. CASE UNCHANGED snap
    BY <1>11, <2>1 DEF Dropped, HistoryStatuses, HistoryRows, Published
  <2>2. CASE phase = "push" /\ snap' = None /\ snap # None
    <3>1. UNCHANGED <<backups, rows>> /\ Settled(backups')
      BY <1>0, <1>11, <2>2 DEF Dropped, LedgerInv, OthersSettled
    <3>2. (LedgerInv /\ snap = None /\ Settled(backups) => HistoryStatuses = backups /\ HistoryRows = rows)'
      BY HomeClosed, PTL
    <3>3. HistoryStatuses' = backups /\ HistoryRows' = rows /\ ~Published'
      BY <1>0, <2>2, <3>1, <3>2 DEF Published
    <3>4. Published /\ HistoryStatuses = snap.backups /\ HistoryRows = snap.rows
      BY <2>2 DEF Published, HistoryStatuses, HistoryRows
    <3> QED
      BY <2>2, <3>3, <3>4, PushedEntry DEF Book!Next, Book!Withdraw, Book!Enter
  <2> QED
    BY <1>11, <2>1, <2>2 DEF Dropped
<1>12. ~Unrecorded /\ (snap' = snap \/ PushSnapshot \/ Dropped)
  BY <1>0, StepKinds DEF Unrecorded, StartBackup, Scan, AddBackupFiles, Complete, Restart, Quiet, Aside, Aborted, Abort
<1> QED
  BY <1>0, <1>2, <1>3, <1>4, <1>5, <1>6, <1>7, <1>8, <1>9, <1>10, <1>11, <1>12, StepKinds

\* Whatever is cancelled, crashes or fails, as long as the status a session ends with can
\* be written, the history is a ledger: it is extended by one session and its rows at a
\* time, and by finished ones only once it is published.
THEOREM HistoryIsLedger ==
  ASSUME "statusError" \notin Faults
  PROVE  Spec => IsLedger
<1>1. Init => Book!Init
  <2> SUFFICES ASSUME Init PROVE Book!Init
    OBVIOUS
  <2>1. snap = None /\ backups = << >> /\ rows = {}
    BY DEF Init
  <2>2. LedgerInv /\ Settled(backups)
    BY <2>1, InitLedger DEF Settled
  <2> QED
    BY <2>1, <2>2, HomeClosed DEF Book!Init, Published
<1> QED
  BY <1>1, InitLedger, NextLedgerInv, LedgerStep, PTL DEF Spec, IsLedger, Book!Spec
=============================================================================
