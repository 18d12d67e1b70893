----------------------------- MODULE Maintenance -----------------------------
(***************************************************************************)
(* Garbage collection (engine.go) and reconciliation (reconcile.go) beside *)
(* the backup pipeline.  Both look once, when they start, for a running    *)
(* session; nothing stops a session from starting while they work, and     *)
(* both go on with what they read.                                         *)
(***************************************************************************)
EXTENDS BackupProperties

CONSTANTS
  MaxPasses,   \* bound on the number of collections and reconciliations
  MaxOverlaps  \* bound on how often one of them meets a session or another one

ASSUME MaintenanceAssumption ==
  MaxPasses \in Nat /\ MaxOverlaps \in Nat /\ None \notin Nat \cup HashRows

VARIABLES
  gc,      \* the locals of RunGarbageCollection
  rec,     \* the locals of Reconcile: its report and where it is
  passes,  \* how many collections and reconciliations were started
  overlaps \* history: how often one of them met a session or another one

counts == <<passes, overlaps>>
mvars == <<vars, gc, rec, counts>>

\* Where Reconcile is, what it listed, and the fixes of its report.
NoGC == [active |-> FALSE, todo |-> {}, done |-> {}]
NoRec == [step |-> "idle", listed |-> {}, orphans |-> {}, kept |-> {}, dangling |-> {}, orphanRows |-> {},
          missing |-> {}, refs |-> [k \in Keys |-> None], suspect |-> {}, complete |-> {},
          fail |-> {}, partial |-> FALSE, applied |-> FALSE]

GCs == [active : BOOLEAN, todo : SUBSET Keys, done : SUBSET Keys]
Gathering == {"listed", "matched", "counted", "checking"}
Recs == [step : {"idle", "compared", "sweep", "cut"} \cup Gathering,
         listed : SUBSET Keys,      \* the objects of the bucket
         orphans : SUBSET Keys,     \* OSSOnlyOrphans, what is left of them
         kept : SUBSET Keys,        \* those whose deletion failed
         dangling : SUBSET Keys,    \* DanglingHashIndexesRefZero
         orphanRows : SUBSET Keys,  \* OrphanBackupFiles
         missing : SUBSET Keys,     \* BackupFilesMissingHashIndexButInOSS
         refs : [Keys -> Nat \cup {None}],  \* RefCountMismatches: the count to set
         suspect : SUBSET BackupRows,  \* the files of the failed sessions
         complete : SUBSET Nat,     \* FailedBackupsWithFiles
         fail : SUBSET Nat,         \* CompletedBackupsNoFiles
         partial : BOOLEAN,         \* whether a fix of the database failed
         applied : BOOLEAN]         \* AppliedFixes is not empty

MaintenanceTypeOK ==
  /\ TypeOK
  /\ gc \in GCs /\ rec \in Recs
  /\ passes \in 0..MaxPasses /\ overlaps \in 0..MaxOverlaps

Busy == gc.active \/ rec.step # "idle"

MInit == Init /\ gc = NoGC /\ rec = NoRec /\ passes = 0 /\ overlaps = 0

\* RunningBackupID and BackupRepo.IsRunning: a session that is created but not
\* yet running is not seen.
NotRunning ==
  /\ phase \in {"idle", "scan"}
  /\ \A i \in DOMAIN backups : backups[i] # "running"

\* In the documentation sessions and passes exclude each other; the code has only
\* the checks of their starts.
Meets(another) ==
  IF another THEN overlaps < MaxOverlaps /\ overlaps' = overlaps + 1 ELSE UNCHANGED overlaps

StartPass ==
  /\ NotRunning
  /\ passes < MaxPasses /\ passes' = passes + 1
  /\ Meets(phase # "idle" \/ Busy)

-----------------------------------------------------------------------------
(* Garbage collection. *)

\* Mutant: off by one, and rows without an orphan mark are included.
CollectableOnce == {k \in Keys : index[k] # None /\ index[k].ref <= 1}

\* GetOrphansOlderThan: unreferenced, with an orphan mark; the grace period may
\* be over for any of them (it may be configured as 0).
Collectable == {k \in Keys : index[k] # None /\ index[k].ref = 0 /\ index[k].orphaned}

StartGC ==
  /\ ~gc.active
  /\ StartPass
  /\ \E O \in SUBSET Collectable \ {{}} : gc' = [active |-> TRUE, todo |-> O, done |-> {}]
  /\ UNCHANGED <<vars, rec>>

\* One object is deleted; one that cannot be keeps its row.
CollectObject(k) ==
  /\ gc.active /\ k \in gc.todo
  /\ \/ /\ oss' = [oss EXCEPT ![k] = None]
        /\ gc' = [gc EXCEPT !.todo = @ \ {k}, !.done = @ \cup {k}]
        /\ UNCHANGED bounds
     \/ /\ IF oss[k] = None THEN UNCHANGED bounds ELSE Fault("deleteError")
        /\ gc' = [gc EXCEPT !.todo = @ \ {k}]
        /\ UNCHANGED oss
  /\ UNCHANGED <<disk, seen, snap, torn, tables, phase, job, runs, rec, counts>>

\* DeleteBatch: the rows of the deleted objects, whatever their count is by now.
FinishGC ==
  /\ gc.active /\ gc.todo = {}
  /\ index' = [k \in Keys |-> IF k \in gc.done THEN None ELSE index[k]]
  /\ gc' = NoGC
  /\ UNCHANGED <<disk, seen, oss, snap, torn, files, synthetic, rows, backups, phase, job, runs, bounds,
                 rec, counts>>

\* The context of 30 minutes expires between two deletions: the objects that are
\* gone keep their rows.
TimeOutGC ==
  /\ gc.active /\ gc.todo # {}
  /\ Fault("timeout")
  /\ gc' = NoGC
  /\ UNCHANGED <<disk, seen, oss, snap, torn, tables, phase, job, runs, rec, counts>>

-----------------------------------------------------------------------------
(* Reconciliation. *)

RowKeys == {r.key : r \in rows}
RowCount(k) == Cardinality({r \in rows : r.key = k})
Indexed == synthetic \cup {k \in Keys : index[k] # None}
RowsOf(i) == {r \in rows : r.backup = i}

\* Called by the API, and by ReconcileIfNeeded after every session that left a
\* drift.  The bucket is listed first.
StartReconcile ==
  /\ rec.step = "idle"
  /\ StartPass
  /\ rec' = [NoRec EXCEPT !.step = "listed", !.listed = {k \in Keys : oss[k] # None}]
  /\ UNCHANGED <<vars, gc>>

\* Then the tables are compared with the listing and with each other, ...
Compare ==
  /\ rec.step = "listed"
  /\ rec' = [rec EXCEPT
       !.step = "matched",
       !.orphans = rec.listed \ Indexed,
       !.dangling = {k \in Keys \ rec.listed : index[k] # None /\ index[k].ref = 0},
       !.orphanRows = RowKeys \ (Indexed \cup rec.listed),
       !.missing = (RowKeys \ Indexed) \cap rec.listed]
  /\ UNCHANGED <<vars, gc, counts>>

\* ... read once more to compare the counts, ...
CompareCounts ==
  /\ rec.step = "matched"
  /\ rec' = [rec EXCEPT
       !.step = "counted",
       !.refs = [k \in Keys |-> IF index[k] # None /\ index[k].ref # RowCount(k)
                                  THEN RowCount(k) ELSE None]]
  /\ UNCHANGED <<vars, gc, counts>>

\* ... and once more for the failed sessions, whose objects are then checked again.
RowsOfFailed == {r \in rows : r.backup \in DOMAIN backups /\ backups[r.backup] = "failed"}

ListFailed ==
  /\ rec.step = "counted"
  /\ rec' = [rec EXCEPT !.step = "checking", !.suspect = RowsOfFailed]
  /\ UNCHANGED <<vars, gc, counts>>

\* A session is completed if all its files are there, as far as could be checked; the
\* completed sessions without rows are read last.
AllThere == {r.backup : r \in rec.suspect} \ {r.backup : r \in {s \in rec.suspect : oss[s.key] = None}}
CompletedNoRows == {i \in DOMAIN backups :
                      backups[i] \in {"completed", "completed_with_errors"} /\ RowsOf(i) = {}}

CheckFailed ==
  /\ rec.step = "checking"
  /\ \E C \in SUBSET AllThere :
       /\ IF C = AllThere THEN UNCHANGED bounds ELSE Fault("batchCheckError")
       /\ rec' = [rec EXCEPT !.step = "compared", !.suspect = {}, !.complete = C,
                             !.fail = CompletedNoRows]
  /\ UNCHANGED <<disk, seen, oss, snap, torn, tables, phase, job, runs, gc, counts>>

\* Whether report r asks for a fix of the database.
FixesDue(r) ==
  \/ r.dangling \cup r.orphanRows \cup r.missing # {}
  \/ \E k \in Keys : r.refs[k] # None
  \/ r.complete \cup r.fail # {}

\* The report without the fixes whose statement fails: each failure is recorded and the
\* others go on.
Only(D, O, M, C, F, R) ==
  [rec EXCEPT !.dangling = D, !.orphanRows = O, !.missing = M, !.complete = C, !.fail = F,
              !.refs = [k \in Keys |-> IF k \in R THEN rec.refs[k] ELSE None]]

CarriedOut ==
  {Only(D, O, M, C, F, R) :
     D \in SUBSET rec.dangling, O \in SUBSET rec.orphanRows, M \in SUBSET rec.missing,
     C \in SUBSET rec.complete, F \in SUBSET rec.fail,
     R \in SUBSET {k \in Keys : rec.refs[k] # None}}

\* Mutants of FixedRow: the drift is set instead of the count; a drifting count is
\* left alone when nothing references it.
FixedByDrift(r, k) ==
  IF k \in r.dangling \/ index[k] = None THEN None
  ELSE IF r.refs[k] # None THEN [index[k] EXCEPT !.ref = r.refs[k] - @]
  ELSE index[k]

FixedIfReferenced(r, k) ==
  IF k \in r.dangling \/ index[k] = None THEN None
  ELSE IF r.refs[k] # None /\ r.refs[k] # 0 THEN [index[k] EXCEPT !.ref = r.refs[k]]
  ELSE index[k]

\* Fixes 1 and 4 on a hash row: deleted, or its count set (the orphan mark stays).
FixedRow(r, k) ==
  IF k \in r.dangling \/ index[k] = None THEN None
  ELSE IF r.refs[k] # None THEN [index[k] EXCEPT !.ref = r.refs[k]]
  ELSE index[k]

\* Fixes 1 to 5, in one transaction, from what report r has left.
FixTables(r) ==
  /\ index' = [k \in Keys |-> FixedRow(r, k)]
  /\ synthetic' = (synthetic \ r.dangling) \cup r.missing
  /\ rows' = {x \in rows : x.key \notin r.orphanRows}
  /\ backups' = [i \in DOMAIN backups |->
                   CASE i \in r.fail -> "failed"
                     [] i \in r.complete -> "completed"
                     [] OTHER -> backups[i]]

\* An empty database that would empty the bucket ends the pass instead.
WouldEmpty == Indexed = {} /\ rows = {} /\ rec.orphans # {}

ApplyFixes ==
  /\ rec.step = "compared"
  /\ \/ WouldEmpty /\ rec' = NoRec /\ UNCHANGED <<index, synthetic, rows, backups, bounds>>
     \/ /\ ~WouldEmpty
        /\ \E r \in CarriedOut :
             /\ IF r = rec THEN UNCHANGED bounds ELSE Fault("fixError")
             /\ FixTables(r)
             /\ rec' = [rec EXCEPT !.step = "sweep", !.partial = (r # rec),
                                   !.applied = FixesDue(r)]
  /\ UNCHANGED <<disk, seen, oss, snap, torn, files, phase, job, runs, gc, counts>>

\* Fix 6, after the commit: the objects without a hash row are deleted.
SweepObject(k) ==
  /\ rec.step = "sweep" /\ k \in rec.orphans
  /\ \/ /\ oss' = [oss EXCEPT ![k] = None]
        /\ rec' = [rec EXCEPT !.orphans = @ \ {k}, !.applied = TRUE]
        /\ UNCHANGED bounds
     \/ /\ IF oss[k] = None THEN UNCHANGED bounds ELSE Fault("deleteError")
        /\ rec' = [rec EXCEPT !.orphans = @ \ {k}, !.kept = @ \cup {k}]
        /\ UNCHANGED oss
  /\ UNCHANGED <<disk, seen, snap, torn, tables, phase, job, runs, gc, counts>>

\* The pass times out, a query fails, or the transaction does at its beginning or end
\* (for a statement within, see CarriedOut).  While it gathers, the pass ends.  Among
\* the fixes, the transaction is rolled back, but what it had logged as applied still
\* makes the pass push.  Among the deletions, the others are left for the next pass.
TimeOutReconcile ==
  /\ \/ rec.step \in Gathering /\ rec' = NoRec
     \/ /\ rec.step = "compared"
        /\ \E a \in {FALSE, FixesDue(rec)} : rec' = [rec EXCEPT !.step = "cut", !.applied = a]
     \/ rec.step = "sweep" /\ rec.orphans # {} /\ rec' = [rec EXCEPT !.step = "cut"]
  /\ Fault("timeout")
  /\ UNCHANGED <<disk, seen, oss, snap, torn, tables, phase, job, runs, gc, counts>>

\* Step 5: a pass that fixed something pushes the local database as it is now.
PushRepaired ==
  /\ rec.step = "cut" \/ (rec.step = "sweep" /\ rec.orphans = {})
  /\ rec' = NoRec
  /\ \/ ~rec.applied /\ UNCHANGED <<snap, torn, bounds>>
     \/ rec.applied /\ snap' = Database /\ torn' = FALSE /\ UNCHANGED bounds
     \/ rec.applied /\ Fault("pushError") /\ PushFailed
  /\ UNCHANGED <<disk, seen, oss, tables, phase, job, runs, gc, counts>>

-----------------------------------------------------------------------------
(* Everything together.  A crash ends the collection and the reconciliation. *)

Beside ==
  /\ IF phase' = "down" THEN gc' = NoGC /\ rec' = NoRec ELSE UNCHANGED <<gc, rec>>
  /\ UNCHANGED passes

\* A session whose IncrementRef finds no row, because a collection removed it since
\* the first pass of Deduplicate, fails.
DedupFails(p) ==
  /\ phase = "dedup" /\ p \in job.pending
  /\ job.hash[p] \in job.confirmed /\ index[job.hash[p]] = None
  /\ (Abort /\ UNCHANGED bounds) \/ EndUnrecorded
  /\ UNCHANGED <<gc, rec, counts>>

Collection == StartGC \/ (\E k \in Keys : CollectObject(k)) \/ FinishGC \/ TimeOutGC
Reconciliation ==
  \/ StartReconcile \/ Compare \/ CompareCounts \/ ListFailed \/ CheckFailed
  \/ ApplyFixes \/ (\E k \in Keys : SweepObject(k))
  \/ TimeOutReconcile \/ PushRepaired

MNext ==
  \/ StartBackup /\ Meets(Busy) /\ Beside
  \/ (SessionStep \/ Restart \/ Environment) /\ Beside /\ UNCHANGED overlaps
  \/ \E p \in Paths : DedupFails(p)
  \/ Collection \/ Reconciliation
  \/ (Exhausted \/ Refused) /\ UNCHANGED <<gc, rec, counts>>

MSpec == MInit /\ [][MNext]_mvars

-----------------------------------------------------------------------------
(* Properties. *)

\* As long as they do not overlap with sessions, neither collection nor
\* reconciliation takes away the object of a content that is still on the disk, was
\* backed up and never left the disk in between (regained shows one that did): a
\* reference count reaches zero, and a hash row disappears, only for contents no
\* file has any more.
OnDiskKept ==
  [][\A p \in Paths :
       overlaps = 0 /\ IsActive(p) /\ files[p].hash = disk[p] /\ disk[p] \notin Reuse
       /\ (\E r \in rows : r.path = p /\ r.key = disk[p])
         => ~(oss[disk[p]] # None /\ oss'[disk[p]] = None)]_mvars

\* After a pass that was not cut short, met nobody and had no statement fail, every hash
\* row counts the backup_files rows of its key, no unreferenced row lacks its object,
\* unless its count was only now set to zero, no object lacks a row, unless it could not
\* be deleted, and every object that a row needs and the pass found is still there: the
\* fixes, made from one report in a fixed order, do not undo each other.  The exception
\* is fix 3: the report has each of its keys among the objects without a hash row too,
\* so that fix 6 deletes what fix 3 has just given a row (RepairUndone.cfg).
PassRepairs ==
  [][overlaps = 0 /\ ~rec.partial /\ rec.step = "sweep" /\ rec.orphans = {} /\ rec'.step = "idle" =>
       \A k \in Keys :
         /\ index[k] # None => /\ index[k].ref = Cardinality({r \in rows : r.key = k})
                               /\ index[k].ref = 0 => oss[k] # None \/ rec.refs[k] = 0
         /\ oss[k] # None => index[k] # None \/ k \in synthetic \cup rec.kept
         /\ k \in rec.listed \cap (Indexed \cup RowKeys) => oss[k] # None \/ k \in rec.missing]_mvars

\* What the comments on fixes 3 and 6 say (reconcile.go): no object that a row of
\* backup_files references is deleted by a reconciliation.
ReferencedStay ==
  [][overlaps = 0 /\ rec.step = "sweep" /\ rec'.step = "sweep" =>
       \A k \in RowKeys : oss[k] # None => oss'[k] # None]_mvars

\* RefsCoverFiles, as long as maintenance and sessions keep apart.
CountsCover == overlaps = 0 => RefsCoverFiles
=============================================================================
