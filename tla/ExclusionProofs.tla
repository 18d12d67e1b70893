--------------------------- MODULE ExclusionProofs ---------------------------
(***************************************************************************)
(* Theorems about module Jobs, for any number of goroutines, rows and      *)
(* events: the memory of the engine is true to itself, rows tell of the    *)
(* work at hand, and sessions and restore jobs exclude each other, each    *)
(* outside the windows that the code leaves open.                          *)
(***************************************************************************)
EXTENDS Jobs, SequenceTheorems, TLAPS

-----------------------------------------------------------------------------
(* Types. *)

LEMMA UpdatedType ==
  ASSUME NEW table \in Seq(Statuses), NEW id, NEW status \in Statuses
  PROVE  /\ Updated(table, id, status) \in Seq(Statuses)
         /\ DOMAIN Updated(table, id, status) = DOMAIN table
<1>1. DOMAIN table = 1..Len(table)
  BY LenProperties
<1>2. CASE id \in DOMAIN table
  <2>1. Updated(table, id, status) = [table EXCEPT ![id] = status]
    BY <1>2 DEF Updated
  <2> QED
    BY <1>1, <1>2, <2>1, ExceptSeq
<1>3. CASE id \notin DOMAIN table
  BY <1>3 DEF Updated
<1> QED
  BY <1>2, <1>3

LEMMA StatusTypes == {"pending", "running", "over"} \subseteq Statuses
BY DEF Statuses

LEMMA CleanedType ==
  ASSUME NEW table \in Seq(Statuses)
  PROVE  Cleaned(table) \in Seq(Statuses)
<1>1. DOMAIN table = 1..Len(table) /\ Len(table) \in Nat
  BY LenProperties
<1>2. Cleaned(table) = [id \in 1..Len(table) |-> "over"]
  BY <1>1 DEF Cleaned
<1> QED
  BY <1>1, <1>2, SeqDef, StatusTypes

LEMMA ImportType ==
  ASSUME NEW a \in Seq(Statuses), NEW b \in Seq(Statuses)
  PROVE  ImportBatch(a, b) \in Seq(Statuses)
BY ConcatProperties DEF ImportBatch

\* Setting the status of a row of either table.
LEMMA SetType ==
  ASSUME StateTypeOK, NEW id, NEW status \in Statuses, SetBackup(id, status) \/ SetJob(id, status)
  PROVE  db' \in Tables
<1>1. db.backups \in Seq(Statuses) /\ db.jobs \in Seq(Statuses)
  BY DEF StateTypeOK, Tables
<1>2. /\ Updated(db.backups, id, status) \in Seq(Statuses)
      /\ Updated(db.jobs, id, status) \in Seq(Statuses)
  BY <1>1, UpdatedType
<1> QED
  BY <1>2 DEF StateTypeOK, Tables, SetBackup, SetJob

LEMMA IdleTypes ==
  /\ IdleSession \in SessionRecords /\ IdleSession.at = "idle"
  /\ IdleRestore \in RestoreRecords /\ IdleRestore.at = "idle"
  /\ IdlePull \in PullRecords /\ IdlePull.at = "idle"
<1>1. << >> \in Seq(Statuses)
  BY EmptySeq
<1> QED
  BY <1>1 DEF IdleSession, IdleRestore, IdlePull, SessionRecords, RestoreRecords, PullRecords

\* A session goes on.
LEMMA GoesType ==
  ASSUME StateTypeOK, NEW s \in Sessions, session[s].at # "idle",
         NEW at \in {"registered", "working", "pushing", "ended"}, Goes(s, at)
  PROVE  /\ session' \in [Sessions -> SessionRecords]
         /\ \A t \in Sessions : session'[t].at # "idle" => session'[t].id \in 1..MaxBackups
<1>1. session' = [session EXCEPT ![s].at = at]
  BY DEF Goes
<1>2. session' \in [Sessions -> SessionRecords]
  BY <1>1 DEF StateTypeOK, SessionRecords
<1>3. ASSUME NEW t \in Sessions, session'[t].at # "idle"
      PROVE  session'[t].id \in 1..MaxBackups
  <2>1. session'[t].id = session[t].id
    BY <1>1 DEF StateTypeOK, SessionRecords
  <2>2. session[t].at # "idle"
    BY <1>1, <1>3
  <2> QED
    BY <2>1, <2>2 DEF StateTypeOK
<1> QED
  BY <1>2, <1>3

LEMMA CountedType == StateTypeOK /\ Counted => events' \in 0..MaxEvents
BY JobsAssumption DEF StateTypeOK, Counted

LEMMA InitType == Init => StateTypeOK
<1> SUFFICES ASSUME Init PROVE StateTypeOK
  OBVIOUS
<1>1. db \in Tables
  BY EmptySeq DEF Init, Tables
<1>2. pull \in [Pullers -> PullRecords] /\ \A p \in Pullers : pull[p].at # "downloaded"
  BY IdleTypes DEF Init, PullRecords, IdlePull
<1>3. session \in [Sessions -> SessionRecords] /\ \A s \in Sessions : session[s].at = "idle"
  BY IdleTypes DEF Init
<1>4. restore \in [Restores -> RestoreRecords] /\ \A r \in Restores : restore[r].at = "idle"
  BY IdleTypes DEF Init
<1>5. /\ cancels \in [1..MaxBackups -> Sessions \cup {None}]
      /\ jobCancels \in [1..MaxJobs -> Restores \cup {None}]
  BY DEF Init
<1>6. running \in 0..MaxBackups /\ events \in 0..MaxEvents
  BY JobsAssumption DEF Init
<1> QED
  BY <1>1, <1>2, <1>3, <1>4, <1>5, <1>6 DEF Init, StateTypeOK

LEMMA PullNextType ==
  ASSUME StateTypeOK,
         \/ StartBackup \/ CreateFails \/ Refresh
         \/ \E p \in Pullers : PullStep(p)
  PROVE  StateTypeOK'
<1> USE DEF StateTypeOK
<1>1. CASE StartBackup
  BY <1>1 DEF StartBackup, PullRecords, Pullers
<1>2. CASE CreateFails
  BY <1>2, IdleTypes DEF CreateFails, IdlePull
<1>3. CASE Refresh
  BY <1>3, CountedType DEF Refresh, PullRecords, Pullers
<1>4. ASSUME NEW p \in Pullers, PullStep(p) PROVE StateTypeOK'
  <2>1. CASE Export(p)
    <3>1. [at |-> "exported", jobs |-> db.jobs, db |-> None] \in PullRecords
      BY DEF PullRecords, Tables
    <3>2. /\ pull' \in [Pullers -> PullRecords]
          /\ \A q \in Pullers : pull'[q].at = "downloaded" => pull'[q].db # None
      BY <2>1, <3>1 DEF Export
    <3> QED
      BY <2>1, <3>2 DEF Export
  <2>2. CASE Download(p)
    <3>1. [pull[p] EXCEPT !.at = "downloaded", !.db = snap] \in PullRecords /\ snap # None
      BY <2>2 DEF Download, PullRecords
    <3>2. pull' = [pull EXCEPT ![p] = [pull[p] EXCEPT !.at = "downloaded", !.db = snap]]
      BY <2>2 DEF Download
    <3>3. [pull[p] EXCEPT !.at = "downloaded", !.db = snap].db = snap
      BY DEF PullRecords
    <3>4. /\ pull' \in [Pullers -> PullRecords]
          /\ \A q \in Pullers : pull'[q].at = "downloaded" => pull'[q].db # None
      BY <3>1, <3>2, <3>3
    <3> QED
      BY <2>2, <3>4 DEF Download
  <2>3. AfterPull(p) \in PullRecords /\ AfterPull(p).at # "downloaded"
    BY IdleTypes DEF AfterPull, PullRecords, IdlePull
  <2>4. CASE NothingToPull(p)
    BY <2>3, <2>4 DEF NothingToPull, ReadyAfter
  <2>5. CASE PullFails(p)
    BY <2>5, IdleTypes DEF PullFails, ReadyAfter, IdlePull
  <2>6. CASE Swap(p)
    <3>1. db' \in Tables
      BY <2>6 DEF Swap, PullRecords
    <3>2. /\ pull' \in [Pullers -> PullRecords]
          /\ \A q \in Pullers : pull'[q].at = "downloaded" => pull'[q].db # None
      BY <2>6, IdleTypes DEF Swap, PullRecords, IdlePull
    <3> QED
      BY <2>6, <3>1, <3>2 DEF Swap, ReadyAfter
  <2>7. CASE Import(p)
    <3>1. ImportBatch(pull[p].jobs, db.jobs) \in Seq(Statuses)
      BY ImportType DEF PullRecords, Tables
    <3>2. db' \in Tables
      BY <2>7, <3>1 DEF Import, Tables
    <3> QED
      BY <2>3, <2>7, <3>2 DEF Import
  <2> QED
    BY <1>4, <2>1, <2>2, <2>4, <2>5, <2>6, <2>7 DEF PullStep
<1> QED
  BY <1>1, <1>2, <1>3, <1>4

LEMMA SessionNextType ==
  ASSUME StateTypeOK, NEW s \in Sessions,
         CreateSession(s) \/ Register(s) \/ SessionStep(s) \/ Deregister(s)
  PROVE  StateTypeOK'
<1> USE DEF StateTypeOK
<1>1. CASE CreateSession(s)
  <2>1. db.backups \in Seq(Statuses) /\ Len(db.backups) \in Nat
    BY LenProperties DEF Tables
  <2>2. Append(db.backups, "pending") \in Seq(Statuses)
    BY <2>1, StatusTypes, AppendProperties
  <2>3. db' \in Tables
    BY <1>1, <2>2 DEF CreateSession, Tables
  <2>4. PICK record \in SessionRecords :
           record.id \in 1..MaxBackups /\ session' = [session EXCEPT ![s] = record]
    <3>1. Len(db.backups) + 1 \in 1..MaxBackups
      BY <1>1, <2>1, JobsAssumption DEF CreateSession
    <3>2. [at |-> "created", id |-> Len(db.backups) + 1, cancelled |-> FALSE] \in SessionRecords
      BY <3>1 DEF SessionRecords
    <3> QED
      BY <1>1, <3>1, <3>2 DEF CreateSession
  <2>5. /\ session' \in [Sessions -> SessionRecords]
        /\ \A t \in Sessions : session'[t].at # "idle" => session'[t].id \in 1..MaxBackups
    BY <2>4
  <2> QED
    BY <1>1, <2>3, <2>5, IdleTypes DEF CreateSession
<1>2. CASE Register(s)
  <2>1. session[s].id \in 1..MaxBackups
    BY <1>2 DEF Register
  <2>2. cancels' \in [1..MaxBackups -> Sessions \cup {None}] /\ running' \in 0..MaxBackups
    BY <1>2, <2>1, JobsAssumption DEF Register
  <2> QED
    BY <1>2, <2>2, GoesType DEF Register
<1>3. CASE MarkRunning(s)
  BY <1>3, SetType, StatusTypes, GoesType DEF MarkRunning
<1>4. CASE EndSession(s)
  BY <1>4, SetType, StatusTypes, GoesType DEF EndSession
<1>5. CASE Push(s)
  BY <1>5, GoesType DEF Push
<1>6. CASE Deregister(s)
  <2>1. /\ session' \in [Sessions -> SessionRecords]
        /\ \A t \in Sessions : session'[t].at # "idle" => session'[t].id \in 1..MaxBackups
    BY <1>6, IdleTypes DEF Deregister
  <2>2. cancels' \in [1..MaxBackups -> Sessions \cup {None}] /\ running' \in 0..MaxBackups
    BY <1>6, JobsAssumption DEF Deregister
  <2> QED
    BY <1>6, <2>1, <2>2 DEF Deregister
<1> QED
  BY <1>1, <1>2, <1>3, <1>4, <1>5, <1>6 DEF SessionStep

LEMMA RestoreNextType ==
  ASSUME StateTypeOK, NEW r \in Restores, CheckJob(r) \/ RestoreStep(r)
  PROVE  StateTypeOK'
<1> USE DEF StateTypeOK
<1>1. CASE CheckJob(r)
  BY <1>1 DEF CheckJob, RestoreRecords
<1>2. CASE CreateJob(r)
  <2>1. db.jobs \in Seq(Statuses) /\ Len(db.jobs) \in Nat
    BY LenProperties DEF Tables
  <2>2. Append(db.jobs, "pending") \in Seq(Statuses)
    BY <2>1, StatusTypes, AppendProperties
  <2>3. db' \in Tables
    BY <1>2, <2>2 DEF CreateJob, Tables
  <2>4. /\ restore' \in [Restores -> RestoreRecords]
        /\ \A q \in Restores : restore'[q].at \notin {"idle", "checked"} =>
              restore'[q].id \in 1..MaxJobs
    <3>1. Len(db.jobs) + 1 \in 1..MaxJobs
      BY <1>2, <2>1, JobsAssumption DEF CreateJob
    <3>2. restore' \in [Restores -> RestoreRecords]
      <4>1. restore[r] \in RestoreRecords /\ Len(db.jobs) + 1 \in Nat
        BY <2>1
      <4>2. [restore[r] EXCEPT !.at = "inserted", !.id = Len(db.jobs) + 1] \in RestoreRecords
        BY <4>1 DEF RestoreRecords
      <4> QED
        BY <1>2, <4>2 DEF CreateJob
    <3>3. restore'[r].id = Len(db.jobs) + 1
      BY <1>2 DEF CreateJob, RestoreRecords
    <3>4. \A q \in Restores \ {r} : restore'[q] = restore[q]
      BY <1>2 DEF CreateJob
    <3> QED
      BY <3>1, <3>2, <3>3, <3>4
  <2> QED
    BY <1>2, <2>3, <2>4 DEF CreateJob
<1>3. CASE CreateJobFails(r)
  BY <1>3, IdleTypes DEF CreateJobFails
<1>4. CASE StartJob(r)
  <2>1. CASE HasRow(r) /\ db.jobs[restore[r].id] = "pending"
    <3>1. restore[r].id \in 1..MaxJobs
      BY <1>4 DEF StartJob
    <3>2. jobCancels' \in [1..MaxJobs -> Restores \cup {None}]
      BY <1>4, <2>1, <3>1 DEF StartJob
    <3>3. restore' \in [Restores -> RestoreRecords]
      <4>1. restore' = [restore EXCEPT ![r].at = "started"]
        BY <1>4, <2>1 DEF StartJob
      <4>2. [restore[r] EXCEPT !.at = "started"] \in RestoreRecords
        BY DEF RestoreRecords
      <4> QED
        BY <4>1, <4>2
    <3>4. \A q \in Restores \ {r} : restore'[q] = restore[q]
      BY <1>4, <2>1 DEF StartJob
    <3>5. restore'[r].id = restore[r].id
      BY <1>4, <2>1 DEF StartJob, RestoreRecords
    <3> QED
      BY <1>4, <3>1, <3>2, <3>3, <3>4, <3>5 DEF StartJob
  <2>2. CASE ~(HasRow(r) /\ db.jobs[restore[r].id] = "pending")
    BY <1>4, <2>2, IdleTypes DEF StartJob
  <2> QED
    BY <2>1, <2>2
<1>5. CASE RunJob(r)
  BY <1>5, SetType, StatusTypes DEF RunJob, RestoreRecords
<1>6. CASE EndJob(r)
  BY <1>6, SetType, StatusTypes DEF EndJob, RestoreRecords
<1>7. CASE ForgetJob(r)
  BY <1>7, IdleTypes DEF ForgetJob
<1>8. CASE RunJobFails(r)
  BY <1>8 DEF RunJobFails, RestoreRecords
<1> QED
  BY <1>1, <1>2, <1>3, <1>4, <1>5, <1>6, <1>7, <1>8 DEF RestoreStep

LEMMA OtherNextType ==
  ASSUME StateTypeOK,
         \/ (\E id \in 1..MaxJobs : CancelJob(id)) \/ (\E id \in 1..MaxBackups : CancelById(id))
         \/ CancelRunning \/ FindNoneRunning \/ CancelStale
         \/ StartReconcile \/ PushFixes
         \/ Restart
  PROVE  StateTypeOK'
<1> USE DEF StateTypeOK
<1>1. ASSUME NEW id \in 1..MaxJobs, CancelJob(id) PROVE StateTypeOK'
  <2>1. PICK r \in Restores : restore' = [restore EXCEPT ![r].cancelled = TRUE]
    BY <1>1 DEF CancelJob
  <2>2. restore' \in [Restores -> RestoreRecords]
    BY <2>1 DEF RestoreRecords
  <2>3. \A q \in Restores : restore'[q].at = restore[q].at /\ restore'[q].id = restore[q].id
    BY <2>1
  <2>4. db' \in Tables
    BY <1>1, SetType, StatusTypes DEF CancelJob
  <2> QED
    BY <1>1, <2>2, <2>3, <2>4, CountedType DEF CancelJob
<1>2. ASSUME NEW id \in 1..MaxBackups, CancelById(id) PROVE StateTypeOK'
  <2>1. db' \in Tables
    BY <1>2, SetType, StatusTypes DEF CancelById
  <2>2. ASSUME cancels[id] # None
        PROVE  /\ session' \in [Sessions -> SessionRecords]
               /\ \A t \in Sessions : session'[t].at = session[t].at /\ session'[t].id = session[t].id
    <3>1. cancels[id] \in Sessions /\ session' = [session EXCEPT ![cancels[id]].cancelled = TRUE]
      BY <1>2, <2>2 DEF CancelById, Cancelled
    <3>2. session' \in [Sessions -> SessionRecords]
      BY <3>1 DEF SessionRecords
    <3> QED
      BY <3>1, <3>2
  <2>3. /\ session' \in [Sessions -> SessionRecords]
        /\ \A t \in Sessions : session'[t].at # "idle" => session'[t].id \in 1..MaxBackups
    BY <1>2, <2>2 DEF CancelById
  <2> QED
    BY <1>2, <2>1, <2>3, CountedType DEF CancelById
<1>3. CASE CancelRunning
  <2>1. PICK s \in Sessions : session' = [session EXCEPT ![s].cancelled = TRUE]
    <3>1. running \in 1..MaxBackups /\ cancels[running] # None
      BY <1>3 DEF CancelRunning
    <3>2. cancels[running] \in Sessions
      BY <3>1
    <3> QED
      BY <1>3, <3>2 DEF CancelRunning, Cancelled
  <2>2. session' \in [Sessions -> SessionRecords]
    BY <2>1 DEF SessionRecords
  <2>3. \A t \in Sessions : session'[t].at = session[t].at /\ session'[t].id = session[t].id
    BY <2>1
  <2>4. events' \in 0..MaxEvents
    BY <1>3, CountedType DEF CancelRunning
  <2> QED
    BY <1>3, <2>2, <2>3, <2>4 DEF CancelRunning
<1>4. CASE FindNoneRunning
  BY <1>4, CountedType DEF FindNoneRunning
<1>5. CASE CancelStale
  <2>1. db' \in Tables
    BY <1>5, SetType, StatusTypes DEF CancelStale
  <2> QED
    BY <1>5, <2>1 DEF CancelStale
<1>6. CASE StartReconcile
  BY <1>6, CountedType DEF StartReconcile
<1>7. CASE PushFixes
  BY <1>7 DEF PushFixes
<1>8. CASE Restart
  <2>1. db' \in Tables
    BY <1>8, CleanedType DEF Restart, Tables
  <2>2. pull' \in [Pullers -> PullRecords] /\ \A p \in Pullers : pull'[p].at # "downloaded"
    BY <1>8, IdleTypes DEF Restart, PullRecords, IdlePull
  <2>3. session' \in [Sessions -> SessionRecords] /\ \A s \in Sessions : session'[s].at = "idle"
    BY <1>8, IdleTypes DEF Restart
  <2>4. restore' \in [Restores -> RestoreRecords] /\ \A r \in Restores : restore'[r].at = "idle"
    BY <1>8, IdleTypes DEF Restart
  <2>5. /\ cancels' \in [1..MaxBackups -> Sessions \cup {None}]
        /\ jobCancels' \in [1..MaxJobs -> Restores \cup {None}]
    BY <1>8 DEF Restart
  <2>6. running' \in 0..MaxBackups
    BY <1>8, JobsAssumption DEF Restart
  <2> QED
    BY <1>8, <2>1, <2>2, <2>3, <2>4, <2>5, <2>6, CountedType DEF Restart
<1> QED
  BY <1>1, <1>2, <1>3, <1>4, <1>5, <1>6, <1>7, <1>8

LEMMA StepType ==
  ASSUME StateTypeOK, Step
  PROVE  StateTypeOK'
BY PullNextType, SessionNextType, RestoreNextType, OtherNextType DEF Step

LEMMA EnteredType == Entered \subseteq Windows
BY DEF Entered

LEMMA NextType == JobsTypeOK /\ [Next]_hvars => JobsTypeOK'
<1> SUFFICES ASSUME JobsTypeOK, [Next]_hvars PROVE JobsTypeOK'
  OBVIOUS
<1>1. CASE UNCHANGED hvars
  BY <1>1 DEF hvars, vars, JobsTypeOK, StateTypeOK
<1>2. CASE Next
  BY <1>2, StepType, EnteredType DEF Next, JobsTypeOK
<1> QED
  BY <1>1, <1>2

LEMMA InitJobsType == Init => JobsTypeOK
BY InitType DEF Init, JobsTypeOK

(***************************************************************************)
(* The types of the state of sessions, jobs and pulls, whatever the order  *)
(* of requests.                                                            *)
(***************************************************************************)
THEOREM JobsTypeCorrect == Spec => []JobsTypeOK
BY InitJobsType, NextType, PTL DEF Spec

-----------------------------------------------------------------------------
(* What a step does to sessions and to jobs, and when a window is new. *)

Live(s) == session[s].at # "idle"

\* A session stays where it is or goes on, under the same row id.
SessionStays(s) ==
  /\ session'[s].id = session[s].id
  /\ \/ session'[s].at = session[s].at
     \/ session[s].at = "registered" /\ session'[s].at = "working"
     \/ session[s].at = "working" /\ session'[s].at = "pushing"
     \/ session[s].at \in {"registered", "working", "pushing"} /\ session'[s].at = "ended"

SessionsCarryOn ==
  /\ \A s \in Sessions : SessionStays(s)
  /\ UNCHANGED <<cancels, running>>
  /\ StartBackup \/ (MutexFree => MutexFree')

LEMMA SessionGoes ==
  ASSUME StateTypeOK, NEW s \in Sessions, NEW at, Goes(s, at),
         \/ session[s].at = "registered" /\ at = "working"
         \/ session[s].at = "working" /\ at = "pushing"
         \/ session[s].at \in {"registered", "working", "pushing"} /\ at = "ended"
  PROVE  \A t \in Sessions : SessionStays(t)
BY DEF StateTypeOK, Goes, SessionStays, SessionRecords

LEMMA SessionIsCancelled ==
  ASSUME StateTypeOK, NEW id \in 1..MaxBackups, cancels[id] # None, Cancelled(id)
  PROVE  \A t \in Sessions : SessionStays(t)
<1>1. cancels[id] \in Sessions /\ session' = [session EXCEPT ![cancels[id]].cancelled = TRUE]
  BY DEF StateTypeOK, Cancelled
<1> QED
  BY <1>1 DEF StateTypeOK, SessionRecords, SessionStays

LEMMA SessionCases ==
  ASSUME StateTypeOK, Step
  PROVE  \/ \E s \in Sessions : CreateSession(s) \/ Register(s) \/ Deregister(s)
         \/ Restart
         \/ SessionsCarryOn
<1>1. ASSUME UNCHANGED <<session, cancels, running>>, StartBackup \/ (MutexFree => MutexFree')
      PROVE  SessionsCarryOn
  BY <1>1 DEF SessionsCarryOn, SessionStays
<1>2. CASE StartBackup \/ CreateFails \/ Refresh
  <2>1. StartBackup \/ (MutexFree => MutexFree')
    BY <1>2, IdleTypes DEF CreateFails, Refresh, MutexFree, StateTypeOK, Pullers
  <2> QED
    BY <1>1, <1>2, <2>1 DEF StartBackup, CreateFails, Refresh
<1>3. ASSUME NEW p \in Pullers, PullStep(p) PROVE SessionsCarryOn
  <2>1. pull[p].at # "idle" /\ UNCHANGED <<session, cancels, running>>
    BY <1>3 DEF PullStep, Export, Download, NothingToPull, PullFails, Swap, Import, BeforeDownload
  <2>2. \A q \in Pullers \ {p} : pull'[q] = pull[q]
    BY <1>3 DEF PullStep, Export, Download, NothingToPull, PullFails, Swap, Import, StateTypeOK
  <2>3. MutexFree => MutexFree'
    BY <2>1, <2>2 DEF MutexFree, Pullers
  <2> QED
    BY <1>1, <2>1, <2>3 DEF SessionsCarryOn, SessionStays
<1>4. ASSUME NEW s \in Sessions, SessionStep(s) PROVE SessionsCarryOn
  <2>1. \A t \in Sessions : SessionStays(t)
    BY <1>4, SessionGoes DEF SessionStep, MarkRunning, EndSession, Push
  <2> QED
    BY <1>4, <2>1 DEF SessionsCarryOn, SessionStep, MarkRunning, EndSession, Push, MutexFree
<1>5. ASSUME NEW r \in Restores, CheckJob(r) \/ RestoreStep(r) PROVE SessionsCarryOn
  BY <1>5 DEF CheckJob, RestoreStep, CreateJob, CreateJobFails, StartJob, RunJob, RunJobFails,
     EndJob, ForgetJob, MutexFree, SessionsCarryOn, SessionStays
<1>6. ASSUME NEW id \in 1..MaxJobs, CancelJob(id) PROVE SessionsCarryOn
  BY <1>6 DEF CancelJob, MutexFree, SessionsCarryOn, SessionStays
<1>7. ASSUME NEW id \in 1..MaxBackups, CancelById(id) PROVE SessionsCarryOn
  <2>1. \A t \in Sessions : SessionStays(t)
    BY <1>7, SessionIsCancelled DEF CancelById, SessionStays
  <2> QED
    BY <1>7, <2>1 DEF CancelById, MutexFree, SessionsCarryOn
<1>8. CASE CancelRunning
  <2>1. running \in 1..MaxBackups
    BY <1>8 DEF CancelRunning, StateTypeOK
  <2>2. \A t \in Sessions : SessionStays(t)
    BY <1>8, <2>1, SessionIsCancelled DEF CancelRunning
  <2> QED
    BY <1>8, <2>2 DEF CancelRunning, MutexFree, SessionsCarryOn
<1>9. CASE FindNoneRunning \/ CancelStale \/ StartReconcile \/ PushFixes
  BY <1>9 DEF FindNoneRunning, CancelStale, StartReconcile, PushFixes, MutexFree,
     SessionsCarryOn, SessionStays
<1> QED
  BY <1>2, <1>3, <1>4, <1>5, <1>6, <1>7, <1>8, <1>9, <1>1 DEF Step, StartBackup, CreateFails,
     Refresh

\* Where a job has, or is about to use, the row it was given.
WithRow(r) == restore[r].at \in {"inserted", "started", "working"}
Active(r) == restore[r].at = "checked" \/ WithRow(r)

\* A job ends, stays where it is or goes on, under the same row id.
JobStays(r) ==
  \/ restore'[r].at \in {"idle", "ended"}
  \/ /\ restore'[r].id = restore[r].id
     /\ \/ restore'[r].at = restore[r].at
        \/ restore[r].at = "started" /\ restore'[r].at = "working"

JobsCarryOn ==
  /\ \A r \in Restores : JobStays(r)
  /\ \A id \in 1..MaxJobs : jobCancels'[id] \in {jobCancels[id], None}

LEMMA JobCases ==
  ASSUME StateTypeOK, Step
  PROVE  \/ \E r \in Restores : CheckJob(r) \/ CreateJob(r) \/ StartJob(r)
         \/ Restart
         \/ JobsCarryOn
<1>1. ASSUME UNCHANGED <<restore, jobCancels>> PROVE JobsCarryOn
  BY <1>1 DEF JobsCarryOn, JobStays
<1>2. ASSUME NEW r \in Restores,
             CreateJobFails(r) \/ RunJob(r) \/ RunJobFails(r) \/ EndJob(r) \/ ForgetJob(r)
      PROVE  JobsCarryOn
  <2>1. JobStays(r) /\ \A q \in Restores \ {r} : restore'[q] = restore[q]
    BY <1>2, IdleTypes DEF CreateJobFails, RunJob, RunJobFails, EndJob, ForgetJob, JobStays,
       StateTypeOK, RestoreRecords
  <2>2. \A id \in 1..MaxJobs : jobCancels'[id] \in {jobCancels[id], None}
    BY <1>2 DEF CreateJobFails, RunJob, RunJobFails, EndJob, ForgetJob, StateTypeOK
  <2> QED
    BY <2>1, <2>2 DEF JobsCarryOn, JobStays
<1>3. ASSUME NEW id \in 1..MaxJobs, CancelJob(id) PROVE JobsCarryOn
  <2>1. jobCancels[id] \in Restores /\ restore' = [restore EXCEPT ![jobCancels[id]].cancelled = TRUE]
    BY <1>3 DEF CancelJob, StateTypeOK
  <2>2. \A r \in Restores : JobStays(r)
    BY <2>1 DEF StateTypeOK, RestoreRecords, JobStays
  <2> QED
    BY <1>3, <2>2 DEF CancelJob, JobsCarryOn
<1>4. CASE StartBackup \/ CreateFails \/ Refresh
  BY <1>1, <1>4 DEF StartBackup, CreateFails, Refresh
<1>5. ASSUME NEW p \in Pullers, PullStep(p) PROVE JobsCarryOn
  <2>1. UNCHANGED <<restore, jobCancels>>
    BY <1>5 DEF PullStep, Export, Download, NothingToPull, PullFails, Swap, Import
  <2> QED
    BY <1>1, <2>1
<1>6. ASSUME NEW s \in Sessions, CreateSession(s) \/ Register(s) \/ SessionStep(s) \/ Deregister(s)
      PROVE  JobsCarryOn
  <2>1. UNCHANGED <<restore, jobCancels>>
    BY <1>6 DEF CreateSession, Register, SessionStep, MarkRunning, EndSession, Push, Deregister
  <2> QED
    BY <1>1, <2>1
<1>7. ASSUME NEW id \in 1..MaxBackups, CancelById(id) PROVE JobsCarryOn
  BY <1>1, <1>7 DEF CancelById
<1>8. CASE CancelRunning \/ FindNoneRunning \/ CancelStale \/ StartReconcile \/ PushFixes
  BY <1>1, <1>8 DEF CancelRunning, FindNoneRunning, CancelStale, StartReconcile, PushFixes
<1> QED
  BY <1>2, <1>3, <1>4, <1>5, <1>6, <1>7, <1>8 DEF Step, RestoreStep

\* Rows go only where a pull replaces the tables.
RowsKept ==
  /\ DOMAIN db.backups \subseteq DOMAIN db'.backups
  /\ DOMAIN db.jobs \subseteq DOMAIN db'.jobs

LEMMA UpdatedRowsKept ==
  ASSUME StateTypeOK, NEW id, NEW status, SetBackup(id, status) \/ SetJob(id, status)
  PROVE  RowsKept
BY DEF StateTypeOK, Tables, SetBackup, SetJob, Updated, RowsKept

LEMMA ImportKeeps ==
  ASSUME NEW a \in Seq(Statuses), NEW b \in Seq(Statuses)
  PROVE  /\ DOMAIN b \subseteq DOMAIN ImportBatch(a, b)
         /\ \A i \in DOMAIN b : ImportBatch(a, b)[i] = b[i]
BY ConcatProperties, LenProperties DEF ImportBatch

LEMMA RowCases ==
  ASSUME StateTypeOK, Step
  PROVE  RowsKept \/ Restart \/ \E p \in Pullers : Swap(p)
<1>1. ASSUME UNCHANGED db PROVE RowsKept
  BY <1>1 DEF RowsKept
<1>2. CASE StartBackup \/ CreateFails \/ Refresh
  BY <1>1, <1>2 DEF StartBackup, CreateFails, Refresh
<1>3. ASSUME NEW p \in Pullers, PullStep(p), ~Swap(p) PROVE RowsKept
  <2>1. CASE Import(p)
    <3>1. pull[p].jobs \in Seq(Statuses) /\ db.jobs \in Seq(Statuses)
      BY DEF StateTypeOK, PullRecords, Tables
    <3>2. db'.backups = db.backups /\ db'.jobs = ImportBatch(pull[p].jobs, db.jobs)
      BY <2>1 DEF Import, StateTypeOK, Tables
    <3> QED
      BY <3>1, <3>2, ImportKeeps DEF RowsKept
  <2>2. CASE Export(p) \/ Download(p) \/ NothingToPull(p) \/ PullFails(p)
    <3>1. UNCHANGED db
      BY <2>2 DEF Export, Download, NothingToPull, PullFails
    <3> QED
      BY <1>1, <3>1
  <2> QED
    BY <1>3, <2>1, <2>2 DEF PullStep
<1>4. ASSUME NEW s \in Sessions, CreateSession(s) PROVE RowsKept
  BY <1>4, AppendProperties, LenProperties DEF CreateSession, StateTypeOK, Tables, RowsKept
<1>5. ASSUME NEW s \in Sessions, Register(s) \/ SessionStep(s) \/ Deregister(s) PROVE RowsKept
  <2>1. CASE Register(s) \/ Push(s) \/ Deregister(s)
    BY <1>1, <2>1 DEF Register, Push, Deregister
  <2>2. CASE MarkRunning(s) \/ EndSession(s)
    BY <2>2, UpdatedRowsKept DEF MarkRunning, EndSession
  <2> QED
    BY <1>5, <2>1, <2>2 DEF SessionStep
<1>6. ASSUME NEW r \in Restores, CreateJob(r) PROVE RowsKept
  BY <1>6, AppendProperties, LenProperties DEF CreateJob, StateTypeOK, Tables, RowsKept
<1>7. ASSUME NEW r \in Restores, CheckJob(r) \/ (RestoreStep(r) /\ ~CreateJob(r)) PROVE RowsKept
  <2>1. CASE CheckJob(r) \/ CreateJobFails(r) \/ StartJob(r) \/ RunJobFails(r) \/ ForgetJob(r)
    <3>1. UNCHANGED db
      BY <2>1 DEF CheckJob, CreateJobFails, StartJob, RunJobFails, ForgetJob
    <3> QED
      BY <1>1, <3>1
  <2>2. CASE RunJob(r) \/ EndJob(r)
    BY <2>2, UpdatedRowsKept DEF RunJob, EndJob
  <2> QED
    BY <1>7, <2>1, <2>2 DEF RestoreStep
<1>8. ASSUME NEW id \in 1..MaxJobs, CancelJob(id) PROVE RowsKept
  BY <1>8, UpdatedRowsKept DEF CancelJob
<1>9. ASSUME NEW id \in 1..MaxBackups, CancelById(id) PROVE RowsKept
  <2>1. UNCHANGED db \/ SetBackup(id, "over")
    BY <1>9 DEF CancelById
  <2> QED
    BY <1>1, <2>1, UpdatedRowsKept
<1>10. CASE CancelRunning \/ FindNoneRunning \/ CancelStale \/ StartReconcile \/ PushFixes
  BY <1>1, <1>10, UpdatedRowsKept DEF CancelRunning, FindNoneRunning, CancelStale,
     StartReconcile, PushFixes
<1> QED
  BY <1>2, <1>3, <1>4, <1>5, <1>6, <1>7, <1>8, <1>9, <1>10 DEF Step

\* As long as something is at work, a window that was entered stays noted.
LEMMA WindowsGrow ==
  ASSUME Next, Underway', NEW w, w \notin windows'
  PROVE  w \notin windows /\ w \notin Entered
BY DEF Next

LEMMA NothingUnderway ==
  ASSUME ~Underway
  PROVE  /\ MutexFree
         /\ \A s \in Sessions : session[s].at = "idle"
         /\ \A r \in Restores : restore[r].at = "idle"
BY DEF Underway

\* A step outside the window "replaced" keeps the rows or finds nobody to miss one.
LEMMA OutsideReplaced ==
  ASSUME StateTypeOK, Step, "replaced" \notin Entered
  PROVE  \/ RowsKept
         \/ /\ \A s \in Sessions : ~Live(s)'
            /\ \A r \in Restores : ~WithRow(r)'
<1>1. CASE Restart
  BY <1>1, IdleTypes DEF Restart, Live, WithRow
<1>2. ASSUME NEW p \in Pullers, Swap(p), ~RowsKept
      PROVE  (\A s \in Sessions : ~Live(s)') /\ (\A r \in Restores : ~WithRow(r)')
  <2>1. Swaps
    BY <1>2 DEF Swap, Swaps, RowsKept
  <2>2. ~HasARow
    BY <2>1 DEF Entered, Windows
  <2> QED
    BY <1>2, <2>2 DEF HasARow, Swap, Live, WithRow
<1> QED
  BY <1>1, <1>2, RowCases

-----------------------------------------------------------------------------
(* The memory of the engine, whatever the windows. *)

Remembers ==
  /\ running # 0 => cancels[running] # None
  /\ \A id \in 1..MaxBackups : cancels[id] # None =>
       InMemory(cancels[id]) /\ session[cancels[id]].id = id

LEMMA RemembersNext ==
  ASSUME StateTypeOK, Step, Remembers
  PROVE  Remembers'
<1> USE DEF Remembers, InMemory
<1>1. ASSUME NEW s \in Sessions, CreateSession(s) PROVE Remembers'
  <2>1. \A id \in 1..MaxBackups : cancels[id] # s
    BY <1>1, JobsAssumption DEF CreateSession
  <2>2. \A t \in Sessions \ {s} : session'[t] = session[t]
    BY <1>1 DEF CreateSession, StateTypeOK
  <2> QED
    BY <1>1, <2>1, <2>2 DEF CreateSession, StateTypeOK
<1>2. ASSUME NEW s \in Sessions, Register(s) PROVE Remembers'
  <2>1. session[s].id \in 1..MaxBackups
    BY <1>2 DEF Register, StateTypeOK
  <2>2. session' = [session EXCEPT ![s].at = "registered"]
    BY <1>2 DEF Register, Goes
  <2>3. /\ session'[s].at = "registered" /\ session'[s].id = session[s].id
        /\ \A t \in Sessions \ {s} : session'[t] = session[t]
    BY <2>2 DEF StateTypeOK, SessionRecords
  <2>4. /\ cancels'[session[s].id] = s
        /\ \A id \in 1..MaxBackups \ {session[s].id} : cancels'[id] = cancels[id]
    BY <1>2, <2>1 DEF Register, StateTypeOK
  <2>5. running' = session[s].id /\ s # None
    BY <1>2, JobsAssumption DEF Register
  <2> QED
    BY <2>1, <2>3, <2>4, <2>5 DEF StateTypeOK
<1>3. ASSUME NEW s \in Sessions, Deregister(s) PROVE Remembers'
  <2>1. session[s].id \in 1..MaxBackups
    BY <1>3 DEF Deregister, StateTypeOK
  <2>2. \A t \in Sessions \ {s} : session'[t] = session[t]
    BY <1>3 DEF Deregister, StateTypeOK
  <2>3. /\ cancels'[session[s].id] = None
        /\ \A id \in 1..MaxBackups \ {session[s].id} : cancels'[id] = cancels[id]
    BY <1>3, <2>1 DEF Deregister, StateTypeOK
  <2>4. \A id \in 1..MaxBackups \ {session[s].id} : cancels[id] # s
    BY JobsAssumption
  <2> QED
    BY <1>3, <2>2, <2>3, <2>4 DEF Deregister, StateTypeOK
<1>4. CASE Restart
  BY <1>4 DEF Restart
<1>5. CASE SessionsCarryOn
  BY <1>5 DEF SessionsCarryOn, SessionStays, StateTypeOK
<1> QED
  BY <1>1, <1>2, <1>3, <1>4, <1>5, SessionCases

(* One session at a time, outside the window "pending". *)

Alone ==
  "pending" \notin windows =>
    /\ \A s, t \in Sessions : Live(s) /\ Live(t) => s = t
    /\ ~MutexFree => \A s \in Sessions : ~Live(s)
    /\ \A s \in Sessions : InMemory(s) => running = session[s].id /\ cancels[running] = s

LEMMA AloneNext ==
  ASSUME JobsTypeOK, Next, Alone
  PROVE  Alone'
<1> SUFFICES ASSUME "pending" \notin windows' PROVE Alone'
  BY DEF Alone
<1> USE DEF Live, InMemory, MutexFree
<1>1. CASE ~Underway'
  BY <1>1 DEF Underway, Alone
<1>2. CASE Underway'
  <2>1. "pending" \notin windows /\ "pending" \notin Entered /\ Step /\ StateTypeOK
    BY <1>2, WindowsGrow DEF Next, JobsTypeOK
  <2>2. ASSUME NEW s \in Sessions, CreateSession(s) PROVE Alone'
    <3>1. pull["start"].at = "done" /\ \A t \in Sessions : ~Live(t)
      BY <2>1, <2>2 DEF CreateSession, Alone
    <3>2. \A t \in Sessions \ {s} : session'[t] = session[t]
      BY <2>1, <2>2 DEF CreateSession, StateTypeOK
    <3>3. session'[s].at = "created" /\ pull'["start"].at = "idle"
      BY <2>1, <2>2, IdleTypes DEF CreateSession, StateTypeOK, Pullers
    <3> QED
      BY <3>1, <3>2, <3>3 DEF Alone
  <2>3. ASSUME NEW s \in Sessions, Register(s) PROVE Alone'
    <3>1. session[s].at = "created" /\ session[s].id \in 1..MaxBackups /\ UNCHANGED pull
      BY <2>1, <2>3 DEF Register, StateTypeOK
    <3>2. \A t \in Sessions : session'[t].id = session[t].id /\ (t # s => session'[t] = session[t])
      BY <2>1, <2>3 DEF Register, Goes, StateTypeOK, SessionRecords
    <3>3. \A t \in Sessions : Live(t) => t = s
      BY <2>1, <3>1 DEF Alone
    <3>4. running' = session[s].id /\ cancels'[running'] = s /\ MutexFree
      BY <2>1, <2>3, <3>1 DEF Register, StateTypeOK
    <3> QED
      BY <3>1, <3>2, <3>3, <3>4 DEF Alone
  <2>4. ASSUME NEW s \in Sessions, Deregister(s) PROVE Alone'
    <3>1. \A t \in Sessions : Live(t) => t = s
      BY <2>1, <2>4 DEF Deregister, Alone
    <3>2. session'[s].at = "idle" /\ \A t \in Sessions \ {s} : session'[t] = session[t]
      BY <2>1, <2>4, IdleTypes DEF Deregister, StateTypeOK
    <3> QED
      BY <3>1, <3>2 DEF Alone
  <2>5. CASE Restart
    <3>1. \A t \in Sessions : session'[t].at = "idle"
      BY <2>5, IdleTypes DEF Restart
    <3> QED
      BY <3>1 DEF Alone
  <2>6. CASE StartBackup
    <3>1. MutexFree /\ ~MutexFree'
      BY <2>1, <2>6 DEF StartBackup, StateTypeOK, Pullers, PullRecords
    <3>2. ~OnTheWay
      BY <2>1, <3>1 DEF Entered, Windows, CheckPasses, StartPasses
    <3>3. \A s \in Sessions : InMemory(s) => FALSE
      BY <2>1, <2>6 DEF StartBackup, PreBackupCheck, Alone, StateTypeOK
    <3>4. \A s \in Sessions : ~Live(s)
      BY <2>1, <3>2, <3>3 DEF OnTheWay, StateTypeOK, SessionRecords
    <3> QED
      BY <2>6, <3>4 DEF StartBackup, Alone
  <2>7. CASE SessionsCarryOn /\ ~StartBackup
    BY <2>1, <2>7 DEF SessionsCarryOn, SessionStays, Alone
  <2> QED
    BY <2>1, <2>2, <2>3, <2>4, <2>5, <2>6, <2>7, SessionCases
<1> QED
  BY <1>1, <1>2

LEMMA MemoryInit == Init => Remembers /\ Alone
BY IdleTypes DEF Init, Remembers, Alone, Live, InMemory, MutexFree

LEMMA MemoryNext ==
  ASSUME JobsTypeOK, [Next]_hvars, Remembers, Alone
  PROVE  Remembers' /\ Alone'
<1>1. CASE UNCHANGED hvars
  BY <1>1 DEF hvars, vars, Remembers, Alone, Live, InMemory, MutexFree
<1>2. CASE Next
  BY <1>2, RemembersNext, AloneNext DEF Next, JobsTypeOK
<1> QED
  BY <1>1, <1>2

LEMMA MemoryAlways == Spec => [](Remembers /\ Alone)
BY MemoryInit, MemoryNext, JobsTypeCorrect, PTL DEF Spec

LEMMA MemoryReaches == JobsTypeOK /\ Remembers /\ Alone => CancelReaches
BY DEF JobsTypeOK, StateTypeOK, Remembers, Alone, CancelReaches

(***************************************************************************)
(* What runningBackupID names can be cancelled through cancelFuncs, always;*)
(* and unless StartBackup passed beside a session on its way, that is the  *)
(* only session there is.                                                  *)
(***************************************************************************)
THEOREM CancelReachesCorrect == Spec => []CancelReaches
BY MemoryAlways, MemoryReaches, JobsTypeCorrect, PTL

-----------------------------------------------------------------------------
(* Everyone has a row of their own, outside the window "replaced". *)

SessionsRowed ==
  "replaced" \notin windows =>
    /\ \A s \in Sessions : Live(s) => session[s].id \in DOMAIN db.backups
    /\ \A s, t \in Sessions : Live(s) /\ Live(t) /\ session[s].id = session[t].id => s = t
    /\ \A s \in Sessions : InMemory(s) => cancels[session[s].id] = s

JobsRowed ==
  "replaced" \notin windows =>
    /\ \A r \in Restores : WithRow(r) => HasRow(r)
    /\ \A q, r \in Restores :
         WithRow(q) /\ WithRow(r) /\ restore[q].id = restore[r].id => q = r
    /\ \A r \in Restores : restore[r].at \in {"started", "working"} =>
         jobCancels[restore[r].id] \in {r, None}

LEMMA SessionsRowedNext ==
  ASSUME JobsTypeOK, Next, SessionsRowed
  PROVE  SessionsRowed'
<1> SUFFICES ASSUME "replaced" \notin windows' PROVE SessionsRowed'
  BY DEF SessionsRowed
<1> USE DEF Live, InMemory
<1>1. CASE \A s \in Sessions : ~Live(s)'
  BY <1>1 DEF SessionsRowed
<1>2. CASE ~Underway'
  BY <1>1, <1>2 DEF Underway
<1>3. CASE Underway' /\ ~(\A s \in Sessions : ~Live(s)')
  <2>1. "replaced" \notin windows /\ "replaced" \notin Entered /\ Step /\ StateTypeOK
    BY <1>3, WindowsGrow DEF Next, JobsTypeOK
  <2>2. RowsKept
    BY <1>3, <2>1, OutsideReplaced
  <2>3. ASSUME NEW s \in Sessions, CreateSession(s) PROVE SessionsRowed'
    <3>1. db.backups \in Seq(Statuses) /\ Len(db.backups) \in Nat
      BY <2>1, LenProperties DEF StateTypeOK, Tables
    <3>2. \A t \in Sessions \ {s} : session'[t] = session[t]
      BY <2>1, <2>3 DEF CreateSession, StateTypeOK
    <3>3. session'[s].at = "created" /\ session'[s].id = Len(db.backups) + 1
      BY <2>1, <2>3 DEF CreateSession, StateTypeOK
    <3>4. db'.backups = Append(db.backups, "pending")
      BY <2>1, <2>3 DEF CreateSession, StateTypeOK, Tables
    <3>5. Len(db.backups) + 1 \notin DOMAIN db.backups /\ Len(db.backups) + 1 \in DOMAIN db'.backups
      BY <3>1, <3>4, AppendProperties, LenProperties
    <3>6. \A t \in Sessions \ {s} : Live(t) => session[t].id # Len(db.backups) + 1
      BY <2>1, <3>5 DEF SessionsRowed
    <3> QED
      BY <2>1, <2>2, <2>3, <3>2, <3>3, <3>5, <3>6 DEF CreateSession, SessionsRowed, RowsKept
  <2>4. ASSUME NEW s \in Sessions, Register(s) PROVE SessionsRowed'
    <3>1. session[s].at = "created" /\ session[s].id \in 1..MaxBackups
      BY <2>1, <2>4 DEF Register, StateTypeOK
    <3>2. /\ \A t \in Sessions : session'[t].id = session[t].id /\ (t # s => session'[t] = session[t])
          /\ \A t \in Sessions : Live(t)' <=> Live(t)
      BY <2>1, <2>4, <3>1 DEF Register, Goes, StateTypeOK, SessionRecords
    <3>3. /\ cancels'[session[s].id] = s
          /\ \A id \in 1..MaxBackups \ {session[s].id} : cancels'[id] = cancels[id]
      BY <2>1, <2>4, <3>1 DEF Register, StateTypeOK
    <3>4. \A t \in Sessions \ {s} : InMemory(t) =>
             session[t].id # session[s].id /\ session[t].id \in 1..MaxBackups
      BY <2>1, <3>1 DEF SessionsRowed, StateTypeOK
    <3> QED
      BY <2>1, <2>2, <3>2, <3>3, <3>4 DEF SessionsRowed, RowsKept
  <2>5. ASSUME NEW s \in Sessions, Deregister(s) PROVE SessionsRowed'
    <3>1. session[s].at = "ended" /\ session[s].id \in 1..MaxBackups
      BY <2>1, <2>5 DEF Deregister, StateTypeOK
    <3>2. session'[s].at = "idle" /\ \A t \in Sessions \ {s} : session'[t] = session[t]
      BY <2>1, <2>5, IdleTypes DEF Deregister, StateTypeOK
    <3>3. \A id \in 1..MaxBackups \ {session[s].id} : cancels'[id] = cancels[id]
      BY <2>1, <2>5, <3>1 DEF Deregister, StateTypeOK
    <3>4. \A t \in Sessions \ {s} : InMemory(t) =>
             session[t].id # session[s].id /\ session[t].id \in 1..MaxBackups
      BY <2>1, <3>1 DEF SessionsRowed, StateTypeOK
    <3> QED
      BY <2>1, <2>2, <3>2, <3>3, <3>4 DEF SessionsRowed, RowsKept
  <2>6. CASE Restart
    BY <1>3, <2>6, IdleTypes DEF Restart
  <2>7. CASE SessionsCarryOn
    <3>1. \A t \in Sessions :
            /\ session'[t].id = session[t].id
            /\ (Live(t)' => Live(t)) /\ (InMemory(t)' => InMemory(t))
      BY <2>7 DEF SessionsCarryOn, SessionStays
    <3> QED
      BY <2>1, <2>2, <2>7, <3>1 DEF SessionsCarryOn, SessionsRowed, RowsKept
  <2> QED
    BY <2>1, <2>3, <2>4, <2>5, <2>6, <2>7, SessionCases
<1> QED
  BY <1>1, <1>2, <1>3

LEMMA JobsRowedNext ==
  ASSUME JobsTypeOK, Next, JobsRowed
  PROVE  JobsRowed'
<1> SUFFICES ASSUME "replaced" \notin windows' PROVE JobsRowed'
  BY DEF JobsRowed
<1> USE DEF WithRow, HasRow
<1>1. CASE \A r \in Restores : ~WithRow(r)'
  BY <1>1 DEF JobsRowed
<1>2. CASE ~Underway'
  BY <1>1, <1>2 DEF Underway
<1>3. CASE Underway' /\ ~(\A r \in Restores : ~WithRow(r)')
  <2>1. "replaced" \notin windows /\ "replaced" \notin Entered /\ Step /\ StateTypeOK
    BY <1>3, WindowsGrow DEF Next, JobsTypeOK
  <2>2. RowsKept
    BY <1>3, <2>1, OutsideReplaced
  <2>3. ASSUME NEW r \in Restores, CheckJob(r) PROVE JobsRowed'
    <3>1. /\ session' = session /\ jobCancels' = jobCancels
          /\ restore'[r].at = "checked" /\ \A q \in Restores \ {r} : restore'[q] = restore[q]
      BY <2>1, <2>3 DEF CheckJob, StateTypeOK, RestoreRecords
    <3> QED
      BY <2>1, <2>2, <3>1 DEF JobsRowed, RowsKept
  <2>4. ASSUME NEW r \in Restores, CreateJob(r) PROVE JobsRowed'
    <3>1. db.jobs \in Seq(Statuses) /\ Len(db.jobs) \in Nat
      BY <2>1, LenProperties DEF StateTypeOK, Tables
    <3>2. \A q \in Restores \ {r} : restore'[q] = restore[q]
      BY <2>1, <2>4 DEF CreateJob, StateTypeOK
    <3>3. restore'[r].at = "inserted" /\ restore'[r].id = Len(db.jobs) + 1
      BY <2>1, <2>4 DEF CreateJob, StateTypeOK, RestoreRecords
    <3>4. db'.jobs = Append(db.jobs, "pending")
      BY <2>1, <2>4 DEF CreateJob, StateTypeOK, Tables
    <3>5. Len(db.jobs) + 1 \notin DOMAIN db.jobs /\ Len(db.jobs) + 1 \in DOMAIN db'.jobs
      BY <3>1, <3>4, AppendProperties, LenProperties
    <3>6. \A q \in Restores \ {r} : WithRow(q) => restore[q].id # Len(db.jobs) + 1
      BY <2>1, <3>5 DEF JobsRowed
    <3>7. UNCHANGED jobCancels
      BY <2>4 DEF CreateJob
    <3> QED
      BY <2>1, <2>2, <3>2, <3>3, <3>5, <3>6, <3>7 DEF JobsRowed, RowsKept
  <2>5. ASSUME NEW r \in Restores, StartJob(r) PROVE JobsRowed'
    <3>1. restore[r].at = "inserted" /\ restore[r].id \in 1..MaxJobs
      BY <2>1, <2>5 DEF StartJob, StateTypeOK
    <3>2. /\ \A q \in Restores \ {r} : restore'[q] = restore[q]
          /\ \/ restore'[r].at = "started" /\ restore'[r].id = restore[r].id
             \/ restore'[r].at = "idle"
      <4>1. CASE restore' = [restore EXCEPT ![r].at = "started"]
        BY <2>1, <4>1 DEF StateTypeOK, RestoreRecords
      <4>2. CASE restore' = [restore EXCEPT ![r] = IdleRestore]
        BY <2>1, <4>2, IdleTypes DEF StateTypeOK
      <4> QED
        BY <2>5, <4>1, <4>2 DEF StartJob
    <3>3. /\ jobCancels'[restore[r].id] = r \/ jobCancels' = jobCancels
          /\ \A id \in 1..MaxJobs \ {restore[r].id} : jobCancels'[id] = jobCancels[id]
          /\ restore'[r].at = "started" => jobCancels'[restore[r].id] = r
      <4>1. CASE restore' = [restore EXCEPT ![r].at = "started"]
                 /\ jobCancels' = [jobCancels EXCEPT ![restore[r].id] = r]
        BY <2>1, <3>1, <4>1 DEF StateTypeOK
      <4>2. CASE restore' = [restore EXCEPT ![r] = IdleRestore] /\ jobCancels' = jobCancels
        BY <2>1, <4>2, IdleTypes DEF StateTypeOK
      <4> QED
        BY <2>5, <4>1, <4>2 DEF StartJob
    <3>4. \A q \in Restores \ {r} : WithRow(q) =>
             restore[q].id # restore[r].id /\ restore[q].id \in 1..MaxJobs
      BY <2>1, <3>1 DEF JobsRowed, StateTypeOK
    <3> QED
      BY <2>1, <2>2, <3>1, <3>2, <3>3, <3>4 DEF JobsRowed, RowsKept
  <2>6. CASE Restart
    BY <1>3, <2>6, IdleTypes DEF Restart
  <2>7. CASE JobsCarryOn
    <3>1. \A q \in Restores : WithRow(q)' => WithRow(q) /\ restore'[q].id = restore[q].id
      BY <2>7 DEF JobsCarryOn, JobStays
    <3>2. \A q \in Restores : restore'[q].at \in {"started", "working"} =>
            restore[q].at \in {"started", "working"}
      BY <2>7 DEF JobsCarryOn, JobStays
    <3>3. \A q \in Restores : WithRow(q) => restore[q].id \in 1..MaxJobs
      BY <2>1 DEF StateTypeOK
    <3> QED
      BY <2>1, <2>2, <2>7, <3>1, <3>2, <3>3 DEF JobsCarryOn, JobsRowed, RowsKept
  <2> QED
    BY <2>1, <2>3, <2>4, <2>5, <2>6, <2>7, JobCases
<1> QED
  BY <1>1, <1>2, <1>3

LEMMA RowedInit == Init => SessionsRowed /\ JobsRowed
BY IdleTypes DEF Init, SessionsRowed, JobsRowed, Live, InMemory, WithRow

LEMMA RowedNext ==
  ASSUME JobsTypeOK, [Next]_hvars, SessionsRowed, JobsRowed
  PROVE  SessionsRowed' /\ JobsRowed'
<1>1. CASE UNCHANGED hvars
  BY <1>1 DEF hvars, vars, SessionsRowed, JobsRowed, Live, InMemory, WithRow, HasRow
<1>2. CASE Next
  BY <1>2, SessionsRowedNext, JobsRowedNext
<1> QED
  BY <1>1, <1>2

LEMMA RowedAlways == Spec => [](SessionsRowed /\ JobsRowed)
BY RowedInit, RowedNext, JobsTypeCorrect, PTL DEF Spec

-----------------------------------------------------------------------------
(* Rows tell of work, outside the windows "replaced" and "failed". *)

SessionsTell ==
  \A s \in Sessions : session[s].at = "working" =>
    /\ session[s].id \in DOMAIN db.backups
    /\ db.backups[session[s].id] = "running"
JobsTell ==
  \A r \in Restores : restore[r].at = "working" /\ ~restore[r].cancelled =>
    HasRow(r) /\ db.jobs[restore[r].id] = "running"

LEMMA SetBackupRow ==
  ASSUME StateTypeOK, NEW id, NEW status, SetBackup(id, status)
  PROVE  /\ db'.jobs = db.jobs
         /\ DOMAIN db'.backups = DOMAIN db.backups
         /\ \A i \in DOMAIN db.backups : i # id => db'.backups[i] = db.backups[i]
         /\ id \in DOMAIN db.backups => db'.backups[id] = status
<1>1. db'.jobs = db.jobs /\ db'.backups = Updated(db.backups, id, status)
  BY DEF StateTypeOK, Tables, SetBackup
<1> QED
  BY <1>1 DEF Updated

LEMMA SetJobRow ==
  ASSUME StateTypeOK, NEW id, NEW status, SetJob(id, status)
  PROVE  /\ db'.backups = db.backups
         /\ DOMAIN db'.jobs = DOMAIN db.jobs
         /\ \A i \in DOMAIN db.jobs : i # id => db'.jobs[i] = db.jobs[i]
         /\ id \in DOMAIN db.jobs => db'.jobs[id] = status
<1>1. db'.backups = db.backups /\ db'.jobs = Updated(db.jobs, id, status)
  BY DEF StateTypeOK, Tables, SetJob
<1> QED
  BY <1>1 DEF Updated

\* What leaves the tables alone, as far as sessions and as far as jobs are concerned.
SessionsAside ==
  /\ \A i \in DOMAIN db.backups : i \in DOMAIN db'.backups /\ db'.backups[i] = db.backups[i]
  /\ \A s \in Sessions : session'[s].at = "working" =>
       session[s].at = "working" /\ session'[s].id = session[s].id
JobsAside ==
  /\ \A i \in DOMAIN db.jobs : i \in DOMAIN db'.jobs /\ db'.jobs[i] = db.jobs[i]
  /\ \A r \in Restores : restore'[r].at = "working" => restore'[r] = restore[r]

LEMMA AsideTells ==
  /\ SessionsTell /\ SessionsAside => SessionsTell'
  /\ JobsTell /\ JobsAside => JobsTell'
BY DEF SessionsTell, SessionsAside, JobsTell, JobsAside, HasRow

LEMMA Appended ==
  ASSUME NEW a \in Seq(Statuses), NEW status
  PROVE  \A i \in DOMAIN a : i \in DOMAIN Append(a, status) /\ Append(a, status)[i] = a[i]
BY AppendProperties, LenProperties

LEMMA PullTells ==
  ASSUME StateTypeOK, NEW p \in Pullers, PullStep(p), "replaced" \notin Entered,
         SessionsTell, JobsTell
  PROVE  SessionsTell' /\ JobsTell'
<1>1. UNCHANGED <<session, restore>>
  BY DEF PullStep, Export, Download, NothingToPull, PullFails, Swap, Import
<1>2. CASE UNCHANGED db
  BY <1>1, <1>2 DEF SessionsTell, JobsTell, HasRow
<1>3. CASE Import(p)
  <2>1. db.jobs \in Seq(Statuses) /\ pull[p].jobs \in Seq(Statuses)
    BY DEF StateTypeOK, PullRecords, Tables
  <2>2. db'.backups = db.backups /\ db'.jobs = ImportBatch(pull[p].jobs, db.jobs)
    BY <1>3 DEF Import, StateTypeOK, Tables
  <2>3. SessionsAside /\ JobsAside
    BY <1>1, <2>1, <2>2, ImportKeeps DEF SessionsAside, JobsAside
  <2> QED
    BY <2>3, AsideTells
<1>4. CASE Swap(p) /\ db' # db
  <2>1. ~HasARow
    BY <1>4 DEF Swap, Swaps, Entered, Windows
  <2> QED
    BY <1>1, <2>1 DEF HasARow, SessionsTell, JobsTell
<1>5. CASE Export(p) \/ Download(p) \/ NothingToPull(p) \/ PullFails(p)
  <2>1. UNCHANGED db
    BY <1>5 DEF Export, Download, NothingToPull, PullFails
  <2> QED
    BY <1>2, <2>1
<1> QED
  BY <1>2, <1>3, <1>4, <1>5 DEF PullStep

LEMMA SessionTells ==
  ASSUME StateTypeOK, SessionsRowed, "replaced" \notin windows, NEW s \in Sessions,
         CreateSession(s) \/ Register(s) \/ SessionStep(s) \/ Deregister(s),
         SessionsTell, JobsTell
  PROVE  SessionsTell' /\ JobsTell'
<1>1. UNCHANGED restore
  BY DEF CreateSession, Register, SessionStep, MarkRunning, EndSession, Push, Deregister
<1>2. CASE CreateSession(s)
  <2>1. db.backups \in Seq(Statuses)
    BY DEF StateTypeOK, Tables
  <2>2. db'.jobs = db.jobs /\ db'.backups = Append(db.backups, "pending")
    BY <1>2 DEF CreateSession, StateTypeOK, Tables
  <2>3. session'[s].at = "created" /\ \A t \in Sessions \ {s} : session'[t] = session[t]
    BY <1>2 DEF CreateSession, StateTypeOK
  <2>4. SessionsAside
    BY <2>1, <2>2, <2>3, Appended DEF SessionsAside
  <2>5. JobsAside
    BY <1>1, <2>2 DEF JobsAside
  <2> QED
    BY <2>4, <2>5, AsideTells
<1>3. CASE Register(s) \/ Push(s) \/ Deregister(s)
  <2>1. UNCHANGED db /\ \A t \in Sessions \ {s} : session'[t] = session[t]
    BY <1>3 DEF Register, Push, Deregister, Goes, StateTypeOK
  <2>2. session'[s].at # "working"
    BY <1>3, IdleTypes DEF Register, Push, Deregister, Goes, StateTypeOK, SessionRecords
  <2>3. SessionsAside /\ JobsAside
    BY <1>1, <2>1, <2>2 DEF SessionsAside, JobsAside
  <2> QED
    BY <2>3, AsideTells
<1>4. CASE MarkRunning(s) \/ EndSession(s)
  <2>1. PICK status \in {"running", "over"} :
          /\ SetBackup(session[s].id, status)
          /\ status = "running" <=> MarkRunning(s)
    BY <1>4 DEF MarkRunning, EndSession, SetBackup
  <2>2. /\ \A t \in Sessions \ {s} : session'[t] = session[t]
        /\ session'[s].id = session[s].id
    BY <1>4 DEF MarkRunning, EndSession, Goes, StateTypeOK, SessionRecords
  <2>3. session'[s].at = "working" => MarkRunning(s)
    BY <1>4 DEF EndSession, Goes, StateTypeOK, SessionRecords
  <2>4. session[s].id \in DOMAIN db.backups /\ session[s].at \in {"registered", "working"}
    BY <1>4 DEF MarkRunning, EndSession, SessionsRowed, Live
  <2>5. \A t \in Sessions \ {s} : session[t].at = "working" => session[t].id # session[s].id
    BY <2>4 DEF SessionsRowed, Live
  <2>6. SessionsTell'
    BY <2>1, <2>2, <2>3, <2>4, <2>5, SetBackupRow DEF SessionsTell
  <2>7. JobsAside
    BY <1>1, <2>1, SetBackupRow DEF JobsAside
  <2> QED
    BY <2>6, <2>7, AsideTells
<1> QED
  BY <1>2, <1>3, <1>4 DEF SessionStep

LEMMA RestoreTells ==
  ASSUME StateTypeOK, JobsRowed, "replaced" \notin windows, NEW r \in Restores,
         CheckJob(r) \/ RestoreStep(r),
         SessionsTell, JobsTell
  PROVE  SessionsTell' /\ JobsTell'
<1>1. UNCHANGED session
  BY DEF CheckJob, RestoreStep, CreateJob, CreateJobFails, StartJob, RunJob, RunJobFails,
     EndJob, ForgetJob
<1>2. CASE CreateJob(r)
  <2>1. db.jobs \in Seq(Statuses)
    BY DEF StateTypeOK, Tables
  <2>2. db'.backups = db.backups /\ db'.jobs = Append(db.jobs, "pending")
    BY <1>2 DEF CreateJob, StateTypeOK, Tables
  <2>3. restore'[r].at = "inserted" /\ \A q \in Restores \ {r} : restore'[q] = restore[q]
    BY <1>2 DEF CreateJob, StateTypeOK, RestoreRecords
  <2>4. JobsAside
    BY <2>1, <2>2, <2>3, Appended DEF JobsAside
  <2>5. SessionsAside
    BY <1>1, <2>2 DEF SessionsAside
  <2> QED
    BY <2>4, <2>5, AsideTells
<1>3. CASE CheckJob(r) \/ CreateJobFails(r) \/ StartJob(r) \/ RunJobFails(r) \/ ForgetJob(r)
  <2>1. UNCHANGED db /\ \A q \in Restores \ {r} : restore'[q] = restore[q]
    BY <1>3 DEF CheckJob, CreateJobFails, StartJob, RunJobFails, ForgetJob, StateTypeOK
  <2>2. restore'[r].at # "working"
    BY <1>3, IdleTypes DEF CheckJob, CreateJobFails, StartJob, RunJobFails, ForgetJob,
       StateTypeOK, RestoreRecords
  <2>3. SessionsAside /\ JobsAside
    BY <1>1, <2>1, <2>2 DEF SessionsAside, JobsAside
  <2> QED
    BY <2>3, AsideTells
<1>4. CASE RunJob(r) \/ EndJob(r)
  <2>1. PICK status \in {"running", "over"} :
          /\ SetJob(restore[r].id, status)
          /\ RunJob(r) => status = "running"
    BY <1>4 DEF RunJob, EndJob
  <2>2. /\ \A q \in Restores \ {r} : restore'[q] = restore[q]
        /\ restore'[r].id = restore[r].id
    BY <1>4 DEF RunJob, EndJob, StateTypeOK, RestoreRecords
  <2>3. restore'[r].at = "working" => RunJob(r)
    BY <1>4 DEF EndJob, StateTypeOK, RestoreRecords
  <2>4. WithRow(r) /\ restore[r].id \in DOMAIN db.jobs
    BY <1>4 DEF RunJob, EndJob, JobsRowed, WithRow, HasRow
  <2>5. \A q \in Restores \ {r} : restore[q].at = "working" => restore[q].id # restore[r].id
    BY <2>4 DEF JobsRowed, WithRow
  <2>6. JobsTell'
    BY <2>1, <2>2, <2>3, <2>4, <2>5, SetJobRow DEF JobsTell, HasRow
  <2>7. SessionsAside
    BY <1>1, <2>1, SetJobRow DEF SessionsAside
  <2> QED
    BY <2>6, <2>7, AsideTells
<1> QED
  BY <1>2, <1>3, <1>4 DEF RestoreStep

LEMMA CancelTells ==
  ASSUME StateTypeOK, SessionsRowed, JobsRowed, "replaced" \notin windows, "failed" \notin Entered,
         \/ (\E id \in 1..MaxJobs : CancelJob(id)) \/ (\E id \in 1..MaxBackups : CancelById(id))
         \/ CancelRunning \/ FindNoneRunning \/ CancelStale,
         SessionsTell, JobsTell
  PROVE  SessionsTell' /\ JobsTell'
<1>1. ASSUME NEW id \in 1..MaxJobs, CancelJob(id) PROVE SessionsTell' /\ JobsTell'
  <2> DEFINE q == jobCancels[id]
  <2>1. q \in Restores /\ restore' = [restore EXCEPT ![q].cancelled = TRUE]
    BY <1>1 DEF CancelJob, StateTypeOK
  <2>2. /\ \A r \in Restores : restore'[r].at = restore[r].at /\ restore'[r].id = restore[r].id
        /\ restore'[q].cancelled
        /\ \A r \in Restores \ {q} : restore'[r] = restore[r]
    BY <2>1 DEF StateTypeOK, RestoreRecords
  <2>3. SetJob(id, "over") /\ UNCHANGED session
    BY <1>1 DEF CancelJob
  <2>4. \A r \in Restores \ {q} : restore[r].at = "working" => restore[r].id # id
    BY <2>1, JobsAssumption DEF JobsRowed
  <2> HIDE DEF q
  <2>5. JobsTell'
    BY <2>2, <2>3, <2>4, SetJobRow DEF JobsTell, HasRow
  <2>6. SessionsTell'
    BY <2>3, SetJobRow DEF SessionsTell
  <2> QED
    BY <2>5, <2>6
<1>2. ASSUME NEW id \in 1..MaxBackups, cancels[id] # None, Cancelled(id), UNCHANGED <<db, restore>>
      PROVE  SessionsTell' /\ JobsTell'
  <2>1. \A s \in Sessions : session'[s].at = "working" =>
          session[s].at = "working" /\ session'[s].id = session[s].id
    BY <1>2, SessionIsCancelled DEF SessionStays, Cancelled, StateTypeOK, SessionRecords
  <2>2. SessionsAside /\ JobsAside
    BY <1>2, <2>1 DEF SessionsAside, JobsAside
  <2> QED
    BY <2>2, AsideTells
<1>3. ASSUME NEW id \in 1..MaxBackups, CancelById(id) PROVE SessionsTell' /\ JobsTell'
  <2>1. CASE cancels[id] # None
    BY <1>2, <1>3, <2>1 DEF CancelById
  <2>2. CASE cancels[id] = None
    <3>1. SetBackup(id, "over") /\ UNCHANGED <<session, restore>>
      BY <1>3, <2>2 DEF CancelById
    <3>2. \A s \in Sessions : session[s].at = "working" => session[s].id # id
      BY <2>2, JobsAssumption DEF SessionsRowed, InMemory
    <3>3. SessionsTell'
      BY <3>1, <3>2, SetBackupRow DEF SessionsTell
    <3>4. JobsAside
      BY <3>1, SetBackupRow DEF JobsAside
    <3> QED
      BY <3>3, <3>4, AsideTells
  <2> QED
    BY <2>1, <2>2
<1>4. CASE CancelRunning
  <2>1. running \in 1..MaxBackups
    BY <1>4 DEF CancelRunning, StateTypeOK
  <2> QED
    BY <1>2, <1>4, <2>1 DEF CancelRunning
<1>5. CASE FindNoneRunning
  BY <1>5 DEF FindNoneRunning, SessionsTell, JobsTell, HasRow
<1>6. CASE CancelStale
  <2>1. UNCHANGED <<session, restore>> /\ staleCancel /\ ~staleCancel'
    BY <1>6 DEF CancelStale
  <2>2. CASE UNCHANGED db
    BY <2>1, <2>2 DEF SessionsTell, JobsTell, HasRow
  <2>3. CASE db' # db
    <3>1. \A s \in Sessions : session[s].at # "working"
      BY <2>1, <2>3 DEF Entered, Windows, FailsItsRow
    <3>2. PICK id : SetBackup(id, "over")
      BY <1>6, <2>3 DEF CancelStale
    <3>3. JobsAside
      BY <2>1, <3>2, SetBackupRow DEF JobsAside
    <3> QED
      BY <2>1, <3>1, <3>3, AsideTells DEF SessionsTell
  <2> QED
    BY <2>2, <2>3
<1> QED
  BY <1>1, <1>3, <1>4, <1>5, <1>6

LEMMA TellNext ==
  ASSUME JobsTypeOK, Next, SessionsRowed, JobsRowed, RowsTellOfWork
  PROVE  RowsTellOfWork'
<1> SUFFICES ASSUME windows' \cap {"replaced", "failed"} = {} PROVE SessionsTell' /\ JobsTell'
  BY DEF RowsTellOfWork, SessionsTell, JobsTell
<1>1. CASE ~Underway'
  BY <1>1 DEF Underway, SessionsTell, JobsTell
<1>2. CASE Underway'
  <2>1. /\ "replaced" \notin windows /\ "replaced" \notin Entered
        /\ "failed" \notin windows /\ "failed" \notin Entered
    BY <1>2, WindowsGrow
  <2>2. Step /\ StateTypeOK /\ SessionsTell /\ JobsTell
    BY <2>1 DEF Next, JobsTypeOK, RowsTellOfWork, SessionsTell, JobsTell
  <2>3. CASE StartBackup \/ CreateFails \/ Refresh \/ StartReconcile \/ PushFixes
    <3>1. UNCHANGED <<db, session, restore>>
      BY <2>3 DEF StartBackup, CreateFails, Refresh, StartReconcile, PushFixes
    <3> QED
      BY <2>2, <3>1 DEF SessionsTell, JobsTell, HasRow
  <2>4. CASE Restart
    BY <2>4, IdleTypes DEF Restart, SessionsTell, JobsTell
  <2> QED
    BY <2>1, <2>2, <2>3, <2>4, PullTells, SessionTells, RestoreTells, CancelTells DEF Step
<1> QED
  BY <1>1, <1>2

LEMMA TellInit == Init => RowsTellOfWork
BY IdleTypes DEF Init, RowsTellOfWork

LEMMA TellStep ==
  ASSUME JobsTypeOK, [Next]_hvars, SessionsRowed, JobsRowed, RowsTellOfWork
  PROVE  RowsTellOfWork'
<1>1. CASE UNCHANGED hvars
  BY <1>1 DEF hvars, vars, RowsTellOfWork, HasRow
<1> QED
  BY <1>1, TellNext

(***************************************************************************)
(* Unless a pull replaced the row or a late cancel request failed it, the  *)
(* row of a session or a job at work says that it is running: no other     *)
(* start, end, cancellation, refresh or reconciliation takes it away.      *)
(***************************************************************************)
THEOREM RowsTellOfWorkCorrect == Spec => []RowsTellOfWork
BY TellInit, TellStep, RowedAlways, JobsTypeCorrect, PTL DEF Spec

-----------------------------------------------------------------------------
(* Exclusion, outside every window. *)

Apart ==
  windows = {} =>
    /\ \A q, r \in Restores : Active(q) /\ Active(r) => q = r
    /\ \A r \in Restores : Active(r) =>
         MutexFree /\ \A s \in Sessions : session[s].at \notin {"created", "registered", "working"}

\* A check that passes, outside the windows, finds no restore job and no session at
\* work, and none on its way.
LEMMA CheckFindsNone ==
  ASSUME StateTypeOK, windows = {}, RowsTellOfWork, CheckPasses, Entered = {},
         QueriesFail \/ ~IsRunning(db.jobs)
  PROVE  /\ ~QueriesFail /\ MutexFree
         /\ \A r \in Restores : ~Active(r)
         /\ \A s \in Sessions : session[s].at \notin {"created", "registered"}
<1>1. ~OnTheWay /\ ~CancelledAtWork /\ ~QueriesFail
  BY DEF Entered, Windows
<1>2. \A r \in Restores : restore[r].at # "working"
  BY <1>1 DEF CancelledAtWork, RowsTellOfWork, HasRow, IsRunning
<1> QED
  BY <1>1, <1>2 DEF OnTheWay, Active, WithRow

LEMMA ApartNext ==
  ASSUME JobsTypeOK, Next, RowsTellOfWork, Apart
  PROVE  Apart'
<1> SUFFICES ASSUME windows' = {} PROVE Apart'
  BY DEF Apart
<1>1. CASE ~Underway'
  BY <1>1 DEF Underway, Apart, Active, WithRow
<1>2. CASE Underway'
  <2>1. windows = {} /\ Entered = {} /\ Step /\ StateTypeOK
    BY <1>2, WindowsGrow DEF Next, JobsTypeOK
  <2>2. ASSUME NEW r \in Restores, CheckJob(r) PROVE Apart'
    <3>1. restore[r].at = "idle" /\ restore'[r].at = "checked" /\ UNCHANGED <<session, pull>>
      BY <2>1, <2>2 DEF CheckJob, StateTypeOK, RestoreRecords
    <3>2. \A q \in Restores \ {r} : restore'[q] = restore[q]
      BY <2>1, <2>2 DEF CheckJob, StateTypeOK
    <3>3. CheckPasses
      BY <3>1 DEF CheckPasses, JobPasses
    <3>4. /\ ~QueriesFail /\ MutexFree
          /\ \A q \in Restores : ~Active(q)
          /\ \A s \in Sessions : session[s].at \notin {"created", "registered"}
      BY <2>1, <2>2, <3>3, CheckFindsNone DEF CheckJob
    <3>5. ~IsRunning(db.backups)
      BY <2>2, <3>4 DEF CheckJob
    <3>6. \A s \in Sessions : session[s].at # "working"
      BY <2>1, <3>5 DEF RowsTellOfWork, IsRunning
    <3> QED
      BY <3>1, <3>2, <3>4, <3>6 DEF Apart, Active, WithRow, MutexFree
  <2>3. CASE StartBackup
    <3>1. CheckPasses
      BY <2>1, <2>3 DEF StartBackup, CheckPasses, StartPasses, StateTypeOK, MutexFree, Pullers,
         PullRecords
    <3>2. \A q \in Restores : ~Active(q)
      BY <2>1, <2>3, <3>1, CheckFindsNone DEF StartBackup, PreBackupCheck
    <3> QED
      BY <2>3, <3>2 DEF StartBackup, Apart, Active, WithRow
  <2>4. CASE Restart
    BY <2>4, IdleTypes DEF Restart, Apart, Active, WithRow
  <2>5. ASSUME \A r \in Restores : Active(r)' => Active(r), ~StartBackup, ~Restart PROVE Apart'
    <3>1. ASSUME NEW r \in Restores, Active(r)'
          PROVE  /\ MutexFree'
                 /\ \A s \in Sessions : session'[s].at \notin {"created", "registered", "working"}
      <4>1. MutexFree /\ \A s \in Sessions : session[s].at \notin {"created", "registered", "working"}
        BY <2>1, <2>5, <3>1 DEF Apart
      <4>2. ASSUME NEW s \in Sessions, CreateSession(s) PROVE FALSE
        BY <4>1, <4>2 DEF CreateSession, MutexFree
      <4>3. ASSUME NEW s \in Sessions, Register(s) PROVE FALSE
        BY <4>1, <4>3 DEF Register
      <4>4. ASSUME NEW s \in Sessions, Deregister(s)
            PROVE  /\ MutexFree'
                   /\ \A t \in Sessions : session'[t].at \notin {"created", "registered", "working"}
        <5>1. session'[s].at = "idle" /\ \A t \in Sessions \ {s} : session'[t] = session[t]
          BY <2>1, <4>4, IdleTypes DEF Deregister, StateTypeOK
        <5> QED
          BY <4>1, <4>4, <5>1 DEF Deregister, MutexFree
      <4>5. CASE SessionsCarryOn
        BY <2>5, <4>1, <4>5 DEF SessionsCarryOn, SessionStays
      <4> QED
        BY <2>1, <2>5, <4>2, <4>3, <4>4, <4>5, SessionCases
    <3>2. \A q, r \in Restores : Active(q)' /\ Active(r)' => q = r
      BY <2>1, <2>5 DEF Apart
    <3> QED
      BY <3>1, <3>2 DEF Apart
  <2>6. ASSUME NEW r \in Restores, CreateJob(r) \/ StartJob(r)
        PROVE  \A q \in Restores : Active(q)' => Active(q)
    <3>1. Active(r) /\ \A q \in Restores \ {r} : restore'[q] = restore[q]
      BY <2>1, <2>6 DEF CreateJob, StartJob, StateTypeOK, Active, WithRow
    <3> QED
      BY <3>1 DEF Active, WithRow
  <2>7. CASE JobsCarryOn
    <3>1. \A r \in Restores : Active(r)' => Active(r)
      BY <2>7 DEF JobsCarryOn, JobStays, Active, WithRow
    <3> QED
      BY <2>3, <2>4, <2>5, <3>1
  <2>8. ASSUME NEW r \in Restores, CreateJob(r) \/ StartJob(r) PROVE Apart'
    BY <2>3, <2>4, <2>5, <2>6, <2>8
  <2> QED
    BY <2>1, <2>2, <2>4, <2>7, <2>8, JobCases
<1> QED
  BY <1>1, <1>2

LEMMA ApartInit == Init => Apart
BY IdleTypes DEF Init, Apart, Active, WithRow

LEMMA ApartStep ==
  ASSUME JobsTypeOK, [Next]_hvars, RowsTellOfWork, Apart
  PROVE  Apart'
<1>1. CASE UNCHANGED hvars
  BY <1>1 DEF hvars, vars, Apart, Active, WithRow, MutexFree
<1> QED
  BY <1>1, ApartNext

LEMMA ApartAlways == Spec => []Apart
BY ApartInit, ApartStep, RowsTellOfWorkCorrect, JobsTypeCorrect, PTL DEF Spec

LEMMA ApartExcludes == Alone /\ Apart => OneAtATime
BY DEF Alone, Apart, OneAtATime, Exclusive, WorkingSessions, WorkingRestores, Live, Active, WithRow

(***************************************************************************)
(* preBackupCheck and CreateJob let one session or one restore job work at *)
(* a time, however requests interleave, as long as none of the windows was *)
(* entered since there was last nothing at work.                           *)
(***************************************************************************)
THEOREM OneAtATimeCorrect == Spec => []OneAtATime
BY MemoryAlways, ApartAlways, ApartExcludes, PTL

=============================================================================
