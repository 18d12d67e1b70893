-------------------------- MODULE BackupProperties --------------------------
(***************************************************************************)
(* What the backup pipeline promises, and the restore side of it: when the *)
(* record of a file gives its content back (internal/backup/restore.go).   *)
(***************************************************************************)
EXTENDS BackupPipeline

\* restoreFile of row r for the file row f delivers content c: the key must
\* contain the file's hash, the object must exist, a recorded IV must be the
\* object's, decompression must match how it was stored, and the result must
\* have the file's hash.  A file row with no hash is checked for none of this
\* but the object, the IV and a valid compressed stream.
Delivers(f, r, c) ==
  LET o == oss[r.key] IN
  /\ f.hash = NoHash \/ r.key = f.hash
  /\ o # None
  /\ r.iv = None \/ r.iv = o.iv
  /\ r.comp => o.comp
  /\ c = IF r.comp = o.comp THEN o.content ELSE None
  /\ f.hash = NoHash \/ c = f.hash

\* Restoring path p from its latest row gives the content its row records.
Restorable(p) == \E r \in LatestRows(p) : Delivers(files[p], r, files[p].hash)

Settled(statuses) == \A i \in DOMAIN statuses : statuses[i] \notin Unsettled

-----------------------------------------------------------------------------
(* Safety. *)

\* As long as the status a session ends with can be written, no session is left
\* pending or running between sessions, not even after a crash and a pull: the pushed
\* snapshot never carries one, so preBackupCheck and the restore manager are never
\* blocked for good.  (With statusError neither half holds: StatusLost.cfg.)
NoStaleRunning ==
  /\ phase = "idle" => Settled(backups)
  /\ snap # None => Settled(snap.backups)

\* As long as no database statement fails, a cancelled session leaves no trace in
\* backup_files: its rows are written in one transaction after the last look at
\* the context, and what follows ends in a completed status.
CancelledLeavesNoRows ==
  \A r \in rows : r.backup \in DOMAIN backups /\ backups[r.backup] # "cancelled"

\* Whatever the interruptions, as long as files do not change while they are
\* backed up, the content under a storage key is the one whose hash the key names:
\* no upload of one file replaces the content of another.
ContentAddressed == \A k \in Hashes : oss[k] # None => oss[k].content = k

\* Every row of the local database and of the pushed one names an object that
\* was verified to exist.
RowsBacked ==
  /\ \A r \in rows : oss[r.key] # None
  /\ snap # None => \A r \in snap.rows : oss[r.key] # None

\* Between sessions, as long as nothing failed, the reference count of a content is
\* at least the number of active files that have it: garbage collection of
\* unreferenced contents cannot take one that is still a file's.
RefsCoverFiles ==
  phase = "idle" /\ faults = 0 =>
    \A h \in Hashes :
      LET n == Cardinality(ActiveWith(files, h)) IN
      n > 0 => index[h] # None /\ index[h].ref >= n

\* As long as the statements for a single file do not fail, a session that is about to
\* be published as completed has a row, under the right key, of everything on the disk,
\* and the active files are those on the disk: a file whose upload failed, or that was
\* not reached, is never passed over in silence.  (With rowError a skipped file is:
\* SkippedQuietly.cfg.)
CompletedMeansAll ==
  phase = "push" /\ backups[job.cur] = "completed" =>
    \A p \in Paths :
      /\ IsActive(p) <=> disk[p] # None
      /\ disk[p] # None =>
           /\ files[p].hash = disk[p] /\ files[p].last = "success"
           /\ \E r \in LatestRows(p) : r.backup = job.cur /\ r.key = disk[p]

\* The object of row r was encrypted anew in a later session than the one the IV of
\* the row is from, and nothing has recorded the new IV for the file.
EncryptedAnew(r) == oss[r.key] # None /\ r.iv # None /\ r.iv[1] < oss[r.key].iv[1]

Finished == {"completed", "completed_with_errors"}

\* Between sessions, every active file whose last backup succeeded comes back, from its
\* latest row, with the content that was backed up, with two exceptions by name: while a
\* session that was cancelled or failed is still in the tables (its marks stay, its rows
\* were never written) until a pull discards it (never, when there was no snapshot yet);
\* and when the object was encrypted anew
\* by an upload that failed before its row was written.  The store may give wrong
\* answers in the batch check and withhold a nonce; it must know whether an object is
\* there when it is about to be uploaded, the statements of the database must not fail,
\* and no content is on two paths (copies).
LatestRestorable ==
  phase = "idle" /\ (\A i \in DOMAIN backups : backups[i] \in Finished) =>
    \A p \in Paths :
      IsActive(p) /\ files[p].last = "success" =>
        Restorable(p) \/ \E r \in LatestRows(p) : EncryptedAnew(r)

-----------------------------------------------------------------------------
(* What a step may never do. *)

\* An object once stored is never written again: another session, or another
\* machine sharing the bucket, has recorded its IV.
NoClobber == [][\A k \in Keys : oss[k] # None => oss'[k] = oss[k]]_vars

\* A new snapshot carries all the sessions and rows of the one it replaces:
\* because every session starts from the snapshot, no push loses history.
HistoryOnlyGrows ==
  [][snap # None /\ snap' # None =>
       /\ Len(snap.backups) <= Len(snap'.backups)
       /\ \A i \in DOMAIN snap.backups : snap'.backups[i] = snap.backups[i]
       /\ snap.rows \subseteq snap'.rows]_vars

-----------------------------------------------------------------------------
(* What the pipeline implements. *)

\* The history is the snapshot's; before there is one, that of the local database
\* without the session that is still to end.
Published == snap # None
Over(statuses) == {i \in DOMAIN statuses : statuses[i] \notin Unsettled}
HistoryStatuses == IF Published THEN snap.backups ELSE [i \in Over(backups) |-> backups[i]]
HistoryRows == IF Published THEN snap.rows ELSE {r \in rows : r.backup \in Over(backups)}

Book == INSTANCE Ledger WITH sessions <- HistoryStatuses, rows <- HistoryRows, online <- Published

\* As long as the status a session ends with can be written, the sessions and their
\* rows are a ledger: every push adds exactly the session
\* that makes it, with its own rows, to what was there, although pulls replace the
\* local database, failed sessions stay in it, and a failed push may destroy the
\* snapshot or leave it as it was.
IsLedger == Book!Spec

-----------------------------------------------------------------------------
(* Liveness. *)

\* A session that started ends, whatever fails in it, unless the process dies.
SessionEnds == phase \in Working ~> phase \in {"idle", "down"}

\* An object that was lost while its file is still on the disk is uploaded again by a
\* later session, as long as one can start: a hash row alone never makes the engine
\* skip the upload.  None can start once a push has torn the snapshot, or while a record
\* says running that no goroutine stands for (CanStart).
LossHealed ==
  \A p \in Paths, h \in Hashes :
    (/\ faults = MaxFaults /\ edits = MaxEdits /\ phase = "idle" /\ runs < MaxRuns
     /\ CanStart /\ disk[p] = h /\ oss[h] = None)
    ~> oss[h] # None
=============================================================================
