-------------------------------- MODULE Jobs --------------------------------
(***************************************************************************)
(* How backup sessions and restore jobs keep out of each other's way.      *)
(* StartBackup and CreateJob look at the status rows of the tables backups *)
(* and restore_jobs (and StartBackup at the engine's memory), and both     *)
(* hand the work to a goroutine that marks its row as running later.  The  *)
(* rows live in a database file that a pull replaces by the snapshot in    *)
(* object storage, and the snapshot holds the same two tables.             *)
(*                                                                         *)
(* What the work itself does is in BackupPipeline; here it only ends.      *)
(***************************************************************************)
EXTENDS Naturals, Sequences

CONSTANTS
  Sessions,  \* the goroutines that may run executeBackup
  Restores,  \* the requests and goroutines of restore jobs
  None,      \* no snapshot, no goroutine
  MaxBackups, \* bound on the rows of backups
  MaxJobs,    \* bound on the rows of restore_jobs
  MaxEvents   \* bound on cancel requests, refreshes, reconciliations and restarts

ASSUME JobsAssumption ==
  /\ None \notin Sessions /\ None \notin Restores
  /\ Sessions \cap Restores = {}
  /\ MaxBackups \in Nat /\ MaxJobs \in Nat /\ MaxEvents \in Nat

\* "over" is completed, completed_with_errors, failed or cancelled: no check tells
\* these apart.
Statuses == {"pending", "running", "over"}

\* The calls that replace the database: StartBackup, RefreshFromOSS, InitFromOSS.
Pullers == {"start", "refresh", "init"}

VARIABLES
  db,          \* the status columns of backups and of restore_jobs, by row id
  snap,        \* the snapshot oss.db, None before the first
  pull,        \* where each pull is, the jobs it exported, what it downloaded
  session,     \* each session goroutine: where it is, its row, its context
  restore,     \* each restore job, from its request to the end of its goroutine
  running,     \* Engine.runningBackupID, 0 for none
  cancels,     \* Engine.cancelFuncs: the session a row id would cancel
  jobCancels,  \* RestoreJobManager.cancelFuncs
  staleCancel, \* whether a cancel request has found no session in memory
  reconcile,   \* whether a reconciliation has passed its check
  ready,       \* Engine.ready
  events,      \* how many of the bounded events happened
  windows      \* history: the windows of a race that were entered since nothing was at work

vars == <<db, snap, pull, session, restore, running, cancels, jobCancels, staleCancel,
          reconcile, ready, events>>
hvars == <<vars, windows>>

Tables == [backups : Seq(Statuses), jobs : Seq(Statuses)]

IdleSession == [at |-> "idle", id |-> 0, cancelled |-> FALSE]
IdleRestore == [at |-> "idle", id |-> 0, cancelled |-> FALSE]
IdlePull == [at |-> "idle", jobs |-> <<>>, db |-> None]

Init ==
  /\ db = [backups |-> <<>>, jobs |-> <<>>]
  /\ snap = None
  /\ pull = [p \in Pullers |-> IF p = "init" THEN [IdlePull EXCEPT !.at = "called"] ELSE IdlePull]
  /\ session = [s \in Sessions |-> IdleSession]
  /\ restore = [r \in Restores |-> IdleRestore]
  /\ running = 0
  /\ cancels = [id \in 1..MaxBackups |-> None]
  /\ jobCancels = [id \in 1..MaxJobs |-> None]
  /\ staleCancel = FALSE
  /\ reconcile = "idle"
  /\ ready = FALSE
  /\ events = 0
  /\ windows = {}

-----------------------------------------------------------------------------
\* UPDATE ... SET status = ? WHERE id = ?: nothing where there is no such row.
Updated(table, id, status) ==
  IF id \in DOMAIN table THEN [table EXCEPT ![id] = status] ELSE table

SetBackup(id, status) == db' = [db EXCEPT !.backups = Updated(@, id, status)]
SetJob(id, status) == db' = [db EXCEPT !.jobs = Updated(@, id, status)]

IsRunning(table) == \E id \in DOMAIN table : table[id] = "running"

MutexFree == pull["start"].at = "idle"

\* While Reopen has the old file closed.
QueriesFail == \E p \in Pullers : pull[p].at = "downloaded"

Counted == events < MaxEvents /\ events' = events + 1

-----------------------------------------------------------------------------
(***************************************************************************)
(* Starting a session.  StartBackup holds the engine's mutex from the      *)
(* check to the new row, through the pull; the scheduler, unlike the API,  *)
(* does not ask whether the engine is ready.  A failing query for running  *)
(* jobs counts as none.                                                    *)
(***************************************************************************)
\* Mutant: only sessions are looked for.
CheckSessions ==
  /\ running = 0
  /\ ~IsRunning(db.backups)

PreBackupCheck ==
  /\ QueriesFail \/ ~IsRunning(db.jobs)
  /\ running = 0
  /\ ~IsRunning(db.backups)

StartBackup ==
  /\ MutexFree
  /\ PreBackupCheck
  /\ pull' = [pull EXCEPT !["start"].at = "called"]
  /\ UNCHANGED <<db, snap, session, restore, running, cancels, jobCancels, staleCancel,
                 reconcile, ready, events>>

\* Mutant: the id is taken for the number of rows there were.
CreateSessionByCount(s) ==
  /\ pull["start"].at = "done"
  /\ session[s].at = "idle"
  /\ Len(db.backups) < MaxBackups
  /\ db' = [db EXCEPT !.backups = Append(@, "pending")]
  /\ session' = [session EXCEPT ![s] = [at |-> "created", id |-> Len(db.backups),
                                        cancelled |-> FALSE]]
  /\ pull' = [pull EXCEPT !["start"] = IdlePull]
  /\ UNCHANGED <<snap, restore, running, cancels, jobCancels, staleCancel, reconcile,
                 ready, events>>

CreateSession(s) ==
  /\ pull["start"].at = "done"
  /\ session[s].at = "idle"
  /\ Len(db.backups) < MaxBackups
  /\ db' = [db EXCEPT !.backups = Append(@, "pending")]
  /\ session' = [session EXCEPT ![s] = [at |-> "created", id |-> Len(db.backups) + 1,
                                        cancelled |-> FALSE]]
  /\ pull' = [pull EXCEPT !["start"] = IdlePull]
  /\ UNCHANGED <<snap, restore, running, cancels, jobCancels, staleCancel, reconcile,
                 ready, events>>

CreateFails ==
  /\ pull["start"].at = "done"
  /\ pull' = [pull EXCEPT !["start"] = IdlePull]
  /\ UNCHANGED <<db, snap, session, restore, running, cancels, jobCancels, staleCancel,
                 reconcile, ready, events>>

-----------------------------------------------------------------------------
(***************************************************************************)
(* Replacing the database.  InitFromOSS exports nothing; the others export *)
(* the restore jobs before the download and insert them again afterwards,  *)
(* in one transaction that fails as a whole when an id is already taken.   *)
(***************************************************************************)
Refresh ==
  /\ Counted
  /\ pull["refresh"].at = "idle"
  /\ pull' = [pull EXCEPT !["refresh"].at = "called"]
  /\ UNCHANGED <<db, snap, session, restore, running, cancels, jobCancels, staleCancel,
                 reconcile, ready>>

Export(p) ==
  /\ p # "init"
  /\ pull[p].at = "called"
  /\ pull' = [pull EXCEPT ![p] = [at |-> "exported", jobs |-> db.jobs, db |-> None]]
  /\ UNCHANGED <<db, snap, session, restore, running, cancels, jobCancels, staleCancel,
                 reconcile, ready, events>>

AfterPull(p) == IF p = "start" THEN [IdlePull EXCEPT !.at = "done"] ELSE IdlePull
ReadyAfter(p) == ready' = (ready \/ p = "init")

BeforeDownload(p) == pull[p].at = IF p = "init" THEN "called" ELSE "exported"

Download(p) ==
  /\ BeforeDownload(p)
  /\ snap # None
  /\ pull' = [pull EXCEPT ![p].at = "downloaded", ![p].db = snap]
  /\ UNCHANGED <<db, snap, session, restore, running, cancels, jobCancels, staleCancel,
                 reconcile, ready, events>>

NothingToPull(p) ==
  /\ BeforeDownload(p)
  /\ snap = None
  /\ pull' = [pull EXCEPT ![p] = AfterPull(p)]
  /\ ReadyAfter(p)
  /\ UNCHANGED <<db, snap, session, restore, running, cancels, jobCancels, staleCancel,
                 reconcile, events>>

PullFails(p) ==
  /\ BeforeDownload(p)
  /\ pull' = [pull EXCEPT ![p] = IdlePull]
  /\ ReadyAfter(p)
  /\ UNCHANGED <<db, snap, session, restore, running, cancels, jobCancels, staleCancel,
                 reconcile, events>>

\* moveFile and Reopen: what was written to the old file since the export is gone.
Swap(p) ==
  /\ pull[p].at = "downloaded"
  /\ db' = pull[p].db
  /\ pull' = [pull EXCEPT ![p] = IF p = "init" THEN IdlePull ELSE [@ EXCEPT !.at = "swapped"]]
  /\ ReadyAfter(p)
  /\ UNCHANGED <<snap, session, restore, running, cancels, jobCancels, staleCancel,
                 reconcile, events>>

ImportBatch(exported, table) ==
  IF DOMAIN exported \cap DOMAIN table = {} THEN table \o exported ELSE table

Import(p) ==
  /\ pull[p].at = "swapped"
  /\ db' = [db EXCEPT !.jobs = ImportBatch(pull[p].jobs, @)]
  /\ pull' = [pull EXCEPT ![p] = AfterPull(p)]
  /\ UNCHANGED <<snap, session, restore, running, cancels, jobCancels, staleCancel, reconcile,
                 ready, events>>

-----------------------------------------------------------------------------
(***************************************************************************)
(* The goroutine of a session.                                             *)
(***************************************************************************)
Goes(s, at) == session' = [session EXCEPT ![s].at = at]

Register(s) ==
  /\ session[s].at = "created"
  /\ MutexFree
  /\ cancels' = [cancels EXCEPT ![session[s].id] = s]
  /\ running' = session[s].id
  /\ Goes(s, "registered")
  /\ UNCHANGED <<db, snap, pull, restore, jobCancels, staleCancel, reconcile, ready, events>>

MarkRunning(s) ==
  /\ session[s].at = "registered"
  /\ SetBackup(session[s].id, "running")
  /\ Goes(s, "working")
  /\ UNCHANGED <<snap, pull, restore, running, cancels, jobCancels, staleCancel, reconcile,
                 ready, events>>

\* Only a session that completed, with or without errors, is pushed.  A push may
\* fail and leave the snapshot there was, or none.
EndSession(s) ==
  /\ session[s].at \in {"registered", "working"}
  /\ SetBackup(session[s].id, "over")
  /\ Goes(s, "ended") \/ (session[s].at = "working" /\ Goes(s, "pushing"))
  /\ UNCHANGED <<snap, pull, restore, running, cancels, jobCancels, staleCancel, reconcile,
                 ready, events>>

Push(s) ==
  /\ session[s].at = "pushing"
  /\ snap' \in {db, snap, None}
  /\ Goes(s, "ended")
  /\ UNCHANGED <<db, pull, restore, running, cancels, jobCancels, staleCancel, reconcile,
                 ready, events>>

\* Mutant: the deferred clean-up forgets runningBackupID.
DeleteCancelFunc(s) ==
  /\ session[s].at = "ended"
  /\ MutexFree
  /\ cancels' = [cancels EXCEPT ![session[s].id] = None]
  /\ session' = [session EXCEPT ![s] = IdleSession]
  /\ UNCHANGED <<db, snap, pull, restore, running, jobCancels, staleCancel, reconcile, ready,
                 events>>

Deregister(s) ==
  /\ session[s].at = "ended"
  /\ MutexFree
  /\ cancels' = [cancels EXCEPT ![session[s].id] = None]
  /\ running' = 0
  /\ session' = [session EXCEPT ![s] = IdleSession]
  /\ UNCHANGED <<db, snap, pull, restore, jobCancels, staleCancel, reconcile, ready, events>>

-----------------------------------------------------------------------------
(***************************************************************************)
(* Restore jobs.  CreateJob takes no lock and reads only the tables, and a *)
(* query that fails while Reopen is under way counts as nothing running.   *)
(***************************************************************************)
CheckJob(r) ==
  /\ ready
  /\ restore[r].at = "idle"
  /\ QueriesFail \/ ~(IsRunning(db.backups) \/ IsRunning(db.jobs))
  /\ restore' = [restore EXCEPT ![r].at = "checked"]
  /\ UNCHANGED <<db, snap, pull, session, running, cancels, jobCancels, staleCancel, reconcile,
                 ready, events>>

CreateJob(r) ==
  /\ restore[r].at = "checked"
  /\ Len(db.jobs) < MaxJobs
  /\ db' = [db EXCEPT !.jobs = Append(@, "pending")]
  /\ restore' = [restore EXCEPT ![r].at = "inserted", ![r].id = Len(db.jobs) + 1]
  /\ UNCHANGED <<snap, pull, session, running, cancels, jobCancels, staleCancel, reconcile,
                 ready, events>>

\* No file matches the request, or a query or the insert fails.
CreateJobFails(r) ==
  /\ restore[r].at = "checked"
  /\ restore' = [restore EXCEPT ![r] = IdleRestore]
  /\ UNCHANGED <<db, snap, pull, session, running, cancels, jobCancels, staleCancel, reconcile,
                 ready, events>>

HasRow(r) == restore[r].id \in DOMAIN db.jobs

StartJob(r) ==
  /\ restore[r].at = "inserted"
  /\ IF HasRow(r) /\ db.jobs[restore[r].id] = "pending"
     THEN /\ jobCancels' = [jobCancels EXCEPT ![restore[r].id] = r]
          /\ restore' = [restore EXCEPT ![r].at = "started"]
     ELSE /\ restore' = [restore EXCEPT ![r] = IdleRestore]
          /\ UNCHANGED jobCancels
  /\ UNCHANGED <<db, snap, pull, session, running, cancels, staleCancel, reconcile, ready,
                 events>>

RunJob(r) ==
  /\ restore[r].at = "started"
  /\ HasRow(r)
  /\ SetJob(restore[r].id, "running")
  /\ restore' = [restore EXCEPT ![r].at = "working"]
  /\ UNCHANGED <<snap, pull, session, running, cancels, jobCancels, staleCancel, reconcile,
                 ready, events>>

\* There is no such row, or a statement fails.
RunJobFails(r) ==
  /\ restore[r].at = "started"
  /\ restore' = [restore EXCEPT ![r].at = "ended"]
  /\ UNCHANGED <<db, snap, pull, session, running, cancels, jobCancels, staleCancel, reconcile,
                 ready, events>>

\* Cancelled by its user or by its limit of eight hours, or ended by itself.
EndJob(r) ==
  /\ restore[r].at = "working"
  /\ SetJob(restore[r].id, "over")
  /\ restore' = [restore EXCEPT ![r].at = "ended"]
  /\ UNCHANGED <<snap, pull, session, running, cancels, jobCancels, staleCancel, reconcile,
                 ready, events>>

ForgetJob(r) ==
  /\ restore[r].at = "ended"
  /\ jobCancels' = [jobCancels EXCEPT ![restore[r].id] = None]
  /\ restore' = [restore EXCEPT ![r] = IdleRestore]
  /\ UNCHANGED <<db, snap, pull, session, running, cancels, staleCancel, reconcile, ready,
                 events>>

\* The row is cancelled at once, whatever the goroutine has done or will do.
CancelJob(id) ==
  /\ Counted
  /\ jobCancels[id] # None
  /\ restore' = [restore EXCEPT ![jobCancels[id]].cancelled = TRUE]
  /\ SetJob(id, "over")
  /\ UNCHANGED <<snap, pull, session, running, cancels, jobCancels, staleCancel, reconcile,
                 ready>>

-----------------------------------------------------------------------------
(***************************************************************************)
(* Cancelling a session: by its id, the one in memory, or, when there is   *)
(* none in memory, a row that says running.                                *)
(***************************************************************************)
Cancelled(id) == session' = [session EXCEPT ![cancels[id]].cancelled = TRUE]

\* Mutant: the row is failed whether or not the session is in memory.
FailById(id) ==
  /\ Counted
  /\ IF cancels[id] # None THEN Cancelled(id) ELSE UNCHANGED session
  /\ SetBackup(id, "over")
  /\ UNCHANGED <<snap, pull, restore, running, cancels, jobCancels, staleCancel, reconcile,
                 ready>>

CancelById(id) ==
  /\ Counted
  /\ IF cancels[id] # None
     THEN Cancelled(id) /\ UNCHANGED db
     ELSE SetBackup(id, "over") /\ UNCHANGED session
  /\ UNCHANGED <<snap, pull, restore, running, cancels, jobCancels, staleCancel, reconcile,
                 ready>>

CancelRunning ==
  /\ Counted
  /\ running # 0
  /\ cancels[running] # None
  /\ Cancelled(running)
  /\ UNCHANGED <<db, snap, pull, restore, running, cancels, jobCancels, staleCancel, reconcile,
                 ready>>

FindNoneRunning ==
  /\ Counted
  /\ ~staleCancel
  /\ running = 0
  /\ staleCancel' = TRUE
  /\ UNCHANGED <<db, snap, pull, session, restore, running, cancels, jobCancels, reconcile,
                 ready>>

CancelStale ==
  /\ staleCancel
  /\ IF IsRunning(db.backups)
     THEN \E id \in DOMAIN db.backups :
            db.backups[id] = "running" /\ SetBackup(id, "over")
     ELSE UNCHANGED db
  /\ staleCancel' = FALSE
  /\ UNCHANGED <<snap, pull, session, restore, running, cancels, jobCancels, reconcile,
                 ready, events>>

-----------------------------------------------------------------------------
(***************************************************************************)
(* Reconciliation, of which only the check and the push matter here (the   *)
(* statuses it corrects are final before and after), and the restart of    *)
(* the process.                                                            *)
(***************************************************************************)
StartReconcile ==
  /\ Counted
  /\ reconcile = "idle"
  /\ running = 0
  /\ ~IsRunning(db.backups)
  /\ reconcile' = "checked"
  /\ UNCHANGED <<db, snap, pull, session, restore, running, cancels, jobCancels, staleCancel,
                 ready>>

PushFixes ==
  /\ reconcile = "checked"
  /\ snap' \in {db, snap, None}
  /\ reconcile' = "idle"
  /\ UNCHANGED <<db, pull, session, restore, running, cancels, jobCancels, staleCancel,
                 ready, events>>

\* CleanupStaleRunning: what was pending or running failed.
Cleaned(table) == [id \in DOMAIN table |-> "over"]

Restart ==
  /\ Counted
  /\ db' = [backups |-> Cleaned(db.backups), jobs |-> Cleaned(db.jobs)]
  /\ pull' = [p \in Pullers |-> IF p = "init" THEN [IdlePull EXCEPT !.at = "called"] ELSE IdlePull]
  /\ session' = [s \in Sessions |-> IdleSession]
  /\ restore' = [r \in Restores |-> IdleRestore]
  /\ running' = 0
  /\ cancels' = [id \in 1..MaxBackups |-> None]
  /\ jobCancels' = [id \in 1..MaxJobs |-> None]
  /\ staleCancel' = FALSE
  /\ reconcile' = "idle"
  /\ ready' = FALSE
  /\ UNCHANGED snap

-----------------------------------------------------------------------------
PullStep(p) ==
  \/ Export(p) \/ Download(p) \/ NothingToPull(p) \/ PullFails(p) \/ Swap(p) \/ Import(p)

SessionStep(s) == MarkRunning(s) \/ EndSession(s) \/ Push(s)

RestoreStep(r) ==
  \/ CreateJob(r) \/ CreateJobFails(r) \/ StartJob(r) \/ RunJob(r) \/ RunJobFails(r)
  \/ EndJob(r) \/ ForgetJob(r)

Step ==
  \/ StartBackup \/ CreateFails \/ Refresh
  \/ \E p \in Pullers : PullStep(p)
  \/ \E s \in Sessions : CreateSession(s) \/ Register(s) \/ SessionStep(s) \/ Deregister(s)
  \/ \E r \in Restores : CheckJob(r) \/ RestoreStep(r)
  \/ (\E id \in 1..MaxJobs : CancelJob(id)) \/ (\E id \in 1..MaxBackups : CancelById(id))
  \/ CancelRunning \/ FindNoneRunning \/ CancelStale
  \/ StartReconcile \/ PushFixes
  \/ Restart

(***************************************************************************)
(* The windows of a race.  A check that passes sees neither a request that *)
(* passed its own check and whose row does not say running yet, nor a      *)
(* cancelled job that still works, nor anything while its queries fail.    *)
(* And the row of what is at work may be replaced by the one of a snapshot *)
(* or be failed by a cancel request that found nothing in memory before.   *)
(***************************************************************************)
Underway ==
  \/ ~MutexFree
  \/ \E s \in Sessions : session[s].at # "idle"
  \/ \E r \in Restores : restore[r].at # "idle"
  \/ staleCancel

StartPasses == MutexFree /\ ~MutexFree'
JobPasses(r) == restore[r].at = "idle" /\ restore'[r].at = "checked"
CheckPasses == StartPasses \/ \E r \in Restores : JobPasses(r)

OnTheWay ==
  \/ ~MutexFree
  \/ \E s \in Sessions : session[s].at \in {"created", "registered"}
  \/ \E r \in Restores : restore[r].at \in {"checked", "inserted", "started"}

CancelledAtWork == \E r \in Restores : restore[r].at = "working" /\ restore[r].cancelled

Swaps == \E p \in Pullers : pull[p].at = "downloaded" /\ db' # db
HasARow ==
  \/ \E s \in Sessions : session[s].at # "idle"
  \/ \E r \in Restores : restore[r].at \in {"inserted", "started", "working"}

FailsItsRow ==
  \E s \in Sessions :
    /\ session[s].at = "working" /\ session'[s] = session[s]
    /\ staleCancel /\ ~staleCancel' /\ db' # db

Windows == {"pending", "unseen", "replaced", "failed"}
Entered ==
  {w \in Windows :
     \/ w = "pending" /\ CheckPasses /\ OnTheWay
     \/ w = "unseen" /\ CheckPasses /\ (CancelledAtWork \/ QueriesFail)
     \/ w = "replaced" /\ Swaps /\ HasARow
     \/ w = "failed" /\ FailsItsRow}

Next == Step /\ windows' = IF Underway' THEN windows \cup Entered ELSE {}

Spec == Init /\ [][Next]_hvars

-----------------------------------------------------------------------------
(***************************************************************************)
(* Properties.                                                             *)
(***************************************************************************)
SessionRecords ==
  [at : {"idle", "created", "registered", "working", "pushing", "ended"}, id : Nat,
   cancelled : BOOLEAN]
RestoreRecords ==
  [at : {"idle", "checked", "inserted", "started", "working", "ended"}, id : Nat,
   cancelled : BOOLEAN]
PullRecords ==
  [at : {"idle", "called", "exported", "downloaded", "swapped", "done"}, jobs : Seq(Statuses),
   db : Tables \cup {None}]

StateTypeOK ==
  /\ db \in Tables
  /\ snap \in Tables \cup {None}
  /\ pull \in [Pullers -> PullRecords]
  /\ \A p \in Pullers : pull[p].at = "downloaded" => pull[p].db # None
  /\ session \in [Sessions -> SessionRecords]
  /\ restore \in [Restores -> RestoreRecords]
  /\ \A s \in Sessions : session[s].at # "idle" => session[s].id \in 1..MaxBackups
  /\ \A r \in Restores : restore[r].at \notin {"idle", "checked"} => restore[r].id \in 1..MaxJobs
  /\ running \in 0..MaxBackups
  /\ cancels \in [1..MaxBackups -> Sessions \cup {None}]
  /\ jobCancels \in [1..MaxJobs -> Restores \cup {None}]
  /\ staleCancel \in BOOLEAN
  /\ reconcile \in {"idle", "checked"}
  /\ ready \in BOOLEAN
  /\ events \in 0..MaxEvents

\* Every variable holds what the code can put in it.
JobsTypeOK == StateTypeOK /\ windows \subseteq Windows

WorkingSessions ==
  {s \in Sessions : session[s].at \in {"created", "registered", "working"}}
WorkingRestores ==
  {r \in Restores : restore[r].at \in {"inserted", "started", "working"}}

\* What the documentation promises (docs/WIKI.md, design decision 10; preBackupCheck,
\* CreateJob): at most one session or restore job is at work, from its row on to its
\* final status.
Exclusive == \A v, w \in WorkingSessions \cup WorkingRestores : v = w

\* What the code keeps: two are at work at once only after one of the windows was
\* entered, and not any more once all of that work has ended.
OneAtATime == windows = {} => Exclusive

\* While a session, or a job nobody cancelled, is at work its row says running, unless
\* the row was replaced or failed.  CreateJob trusts that row alone: a cancel request or
\* a pull that changed it lets other work in.
RowsTellOfWork ==
  windows \cap {"replaced", "failed"} = {} =>
    /\ \A s \in Sessions : session[s].at = "working" =>
         /\ session[s].id \in DOMAIN db.backups
         /\ db.backups[session[s].id] = "running"
    /\ \A r \in Restores : restore[r].at = "working" /\ ~restore[r].cancelled =>
         HasRow(r) /\ db.jobs[restore[r].id] = "running"

\* A cancel request reaches the goroutine it is for: what runningBackupID names is
\* registered in cancelFuncs and at work or closing down, and unless a check passed
\* while another request was on its way, each such session is the one it names
\* (Engine.Cancel, the deferred clean-up of executeBackup).
InMemory(s) ==
  session[s].at \in {"registered", "working", "pushing", "ended"}

CancelReaches ==
  /\ running # 0 =>
       /\ cancels[running] # None
       /\ InMemory(cancels[running])
       /\ session[cancels[running]].id = running
  /\ "pending" \notin windows =>
       \A s \in Sessions : InMemory(s) => running = session[s].id /\ cancels[running] = s
=============================================================================
