------------------------------ MODULE Settings ------------------------------
(***************************************************************************)
(* The settings and the scheduler.  Directories, exclusion rules and the   *)
(* key-value settings are tables of the local database (db/config_repo.go) *)
(* that handlers write one statement at a time, that every pull of the     *)
(* snapshot replaces and then restores from what it exported before        *)
(* (backup/engine.go), and that the start of the process replaces without  *)
(* restoring.  The schedule is in two places: in the table, and in the     *)
(* scheduler (scheduler/scheduler.go), whose mutex a Stop holds until the  *)
(* scheduled backup under way has ended.                                   *)
(***************************************************************************)
EXTENDS Naturals

CONSTANTS
  Handlers,              \* concurrent requests
  None,
  DirKeys, RuleKeys,     \* paths of the directories, patterns of the rules
  Exprs, Invalid,        \* cron expressions of requests, those that do not parse
  YamlDirs, YamlRules,   \* what config.yaml lists
  YamlCron,              \* the expression of config.yaml, None when not enabled
  MaxRequests, MaxPulls, MaxTroubles   \* bounds; a trouble is a failure or a restart

ASSUME SettingsAssumption ==
  /\ YamlDirs \subseteq DirKeys /\ YamlRules \subseteq RuleKeys
  /\ Invalid \subseteq Exprs /\ None \notin Exprs /\ YamlCron \notin Invalid
  /\ {MaxRequests, MaxPulls, MaxTroubles} \subseteq Nat

VARIABLES
  local,     \* the three tables of the local database
  snapshot,  \* those of the snapshot in the bucket, None before the first push
  req,       \* the locals of each handler
  cron,      \* Scheduler.cron: None, or the expression of its entry
  session,   \* the backup under way: none, pulling or working, by hand or scheduled
  pull,      \* the locals of each pull
  want,      \* history: the tables the accepted changes amount to
  asked,     \* history: a schedule was saved since the process started
  lost,      \* history: why settings may differ from what was asked for
  count      \* what is left of each bound

vars == <<local, snapshot, req, cron, session, pull, want, asked, lost, count>>
ghosts == <<want, asked>>

Row == BOOLEAN  \* whether it is enabled; the other columns fare alike
Keys == [dirs |-> DirKeys, rules |-> RuleKeys, kv |-> {"enabled", "expr"}]
Values == [dirs |-> Row, rules |-> Row, kv |-> BOOLEAN \cup Exprs]
Tables == DOMAIN Keys
IsDatabase(d) == /\ d = [t \in Tables |-> d[t]]
                 /\ \A t \in Tables : d[t] \in [Keys[t] -> Values[t] \cup {None}]
IsEmpty(table) == \A k \in DOMAIN table : table[k] = None

Pullers == {"session", "refresh", "startup"}
NoPull == [step |-> "idle", saved |-> None]
NoRequest == [step |-> "idle"]
NoSession == [step |-> "idle", scheduled |-> FALSE]
ScheduleSteps == {"expr", "ask", "update", "start", "stop", "waiting"}
Reasons == {"overlap", "failure", "emptied", "restart"}

Requests ==
  {NoRequest}
    \cup [step : {"patch"}, table : {"dirs"}, key : DirKeys, old : Row]
    \cup [step : {"patch"}, table : {"rules"}, key : RuleKeys, old : Row]
    \cup [step : ScheduleSteps, on : BOOLEAN, expr : Exprs]

\* Types, and: a session pulls exactly while the pull it began is under way.
TypeOK ==
  /\ IsDatabase(local) /\ IsDatabase(want) /\ (snapshot # None => IsDatabase(snapshot))
  /\ req \in [Handlers -> Requests]
  /\ cron \in Exprs \cup {YamlCron, None}
  /\ session \in [step : {"idle", "pull", "work"}, scheduled : BOOLEAN]
  /\ pull = [p \in Pullers |-> [step |-> pull[p].step, saved |-> pull[p].saved]]
  /\ \A p \in Pullers :
       /\ pull[p].step \in {"idle", "fetch"} \cup (IF p = "startup" THEN {} ELSE {"import"})
       /\ IF p = "startup" \/ pull[p].step = "idle"
          THEN pull[p].saved = None ELSE IsDatabase(pull[p].saved)
  /\ (session.step = "pull") = (pull["session"].step # "idle")
  /\ asked \in BOOLEAN /\ lost \subseteq Reasons
  /\ count \in [{"requests", "pulls", "troubles"} -> Nat]

\* seedConfigFromYAML fills a table that is empty.
Seeded(db) ==
  LET fill(t, listed) ==
        IF IsEmpty(db[t])
        THEN [k \in Keys[t] |-> IF k \in listed THEN TRUE ELSE None]
        ELSE db[t]
  IN [db EXCEPT !.dirs = fill("dirs", YamlDirs), !.rules = fill("rules", YamlRules)]

Fresh == Seeded([t \in Tables |-> [k \in Keys[t] |-> None]])

\* The first start of a new installation, or one whose snapshot has the settings of
\* config.yaml.
Init ==
  /\ local = Fresh /\ want = Fresh /\ snapshot \in {None, Fresh}
  /\ req = [h \in Handlers |-> NoRequest]
  /\ cron = YamlCron /\ session = NoSession
  /\ pull = [p \in Pullers |-> IF p = "startup" THEN [NoPull EXCEPT !.step = "fetch"] ELSE NoPull]
  /\ asked = FALSE /\ lost = {}
  /\ count = [requests |-> MaxRequests, pulls |-> MaxPulls, troubles |-> MaxTroubles]

Spend(bound) == count[bound] > 0 /\ count' = [count EXCEPT ![bound] = @ - 1]
Lose(reasons) == lost' = lost \cup reasons
Because(reason, condition) == IF condition THEN {reason} ELSE {}

-----------------------------------------------------------------------------
(* Writing a table. *)

\* A pull has exported the tables and not imported them yet.
Preserving == Pullers \ {"startup"}
InPull == \E p \in Preserving : pull[p].step # "idle"

\* Another handler has read the row and will write all of it back.
HeldByOther(h, t, k) ==
  \E o \in Handlers \ {h} : req[o].step = "patch" /\ req[o].table = t /\ req[o].key = k

Store(h, t, k, value) ==
  /\ local' = [local EXCEPT ![t][k] = value]
  /\ want' = [want EXCEPT ![t][k] = value]
  /\ Lose(Because("overlap", InPull \/ HeldByOther(h, t, k)))

Request(h) == req[h].step = "idle" /\ Spend("requests")
Goto(h, s) == req' = [req EXCEPT ![h].step = s]
Answer(h) == req' = [req EXCEPT ![h] = NoRequest]

\* AddDirectory, AddExclusionRule: one insert; the path or pattern is unique.
Add(h, t, k) ==
  /\ Request(h) /\ local[t][k] = None /\ ~HeldByOther(h, t, k)
  /\ \E row \in Row : Store(h, t, k, row)
  /\ UNCHANGED <<snapshot, req, cron, session, pull, asked>>

DeleteExclusionRule(h, k) ==
  /\ Request(h) /\ local.rules[k] # None
  /\ Store(h, "rules", k, None)
  /\ UNCHANGED <<snapshot, req, cron, session, pull, asked>>

\* handleUpdateDirectory, handleUpdateExclusion: read the row, ...
ReadRow(h, t, k) ==
  /\ Request(h) /\ local[t][k] # None
  /\ req' = [req EXCEPT ![h] = [step |-> "patch", table |-> t, key |-> k, old |-> local[t][k]]]
  /\ Lose(Because("overlap", InPull))
  /\ UNCHANGED <<local, snapshot, cron, session, pull, ghosts>>

\* ... then write all its columns; an error when it is no longer there.
UpdateRow(h) ==
  /\ req[h].step = "patch" /\ Answer(h)
  /\ LET t == req[h].table  k == req[h].key
     IN IF local[t][k] = None
        THEN UNCHANGED <<local, want, lost>>
        ELSE Store(h, t, k, ~req[h].old)
  /\ UNCHANGED <<snapshot, cron, session, pull, asked, count>>

-----------------------------------------------------------------------------
(* The schedule. *)

\* Stop holds the scheduler's mutex while it waits.
Locked == \E h \in Handlers : req[h].step = "waiting"
Stopping == Locked

Scheduling(h) == req[h].step \in ScheduleSteps

\* handleUpdateSchedule: three statements, each of which may fail, ...
SaveEnabled(h) ==
  /\ Request(h)
  /\ \E on \in BOOLEAN, x \in Exprs :
       /\ req' = [req EXCEPT ![h] = [step |-> "expr", on |-> on, expr |-> x]]
       /\ local' = [local EXCEPT !.kv["enabled"] = on]
       /\ want' = [want EXCEPT !.kv["enabled"] = on]
  /\ Lose(Because("overlap", InPull \/ \E o \in Handlers : Scheduling(o)))
  /\ asked' = TRUE
  /\ UNCHANGED <<snapshot, cron, session, pull>>

SaveExpr(h) ==
  /\ req[h].step = "expr"
  /\ \/ Store(h, "kv", "expr", req[h].expr) /\ Goto(h, "ask") /\ UNCHANGED count
     \/ /\ local' \in {local, [local EXCEPT !.kv["expr"] = req[h].expr]}
        /\ want' = local' /\ Answer(h) /\ Spend("troubles") /\ Lose({"failure"})
  /\ UNCHANGED <<snapshot, cron, session, pull, asked>>

\* ... then IsEnabled, which decides what to call.
AskIsEnabled(h) ==
  /\ req[h].step = "ask" /\ ~Locked
  /\ LET step == CASE req[h].on /\ cron # None -> "update"
                   [] req[h].on /\ cron = None -> "start"
                   [] ~req[h].on /\ cron # None -> "stop"
                   [] OTHER -> "none"
     IN IF step = "none" THEN Answer(h) ELSE Goto(h, step)
  /\ UNCHANGED <<local, snapshot, cron, session, pull, ghosts, lost, count>>

\* UpdateSchedule: the entry is replaced, unless the expression does not parse.
UpdateSchedule(h) ==
  /\ req[h].step = "update" /\ ~Locked /\ Answer(h)
  /\ IF cron # None /\ req[h].expr \notin Invalid
     THEN cron' = req[h].expr /\ UNCHANGED lost
     ELSE UNCHANGED cron /\ Lose({"failure"})
  /\ UNCHANGED <<local, snapshot, session, pull, ghosts, count>>

StartWithCron(h) ==
  /\ req[h].step = "start" /\ ~Locked /\ Answer(h)
  /\ IF cron = None /\ req[h].expr \notin Invalid
     THEN cron' = req[h].expr /\ UNCHANGED lost
     ELSE UNCHANGED cron /\ Lose({"failure"})
  /\ UNCHANGED <<local, snapshot, session, pull, ghosts, count>>

\* Stop: no further run is started, ...
BeginStop(h) ==
  /\ req[h].step = "stop" /\ ~Locked
  /\ IF cron = None THEN Answer(h) ELSE Goto(h, "waiting")
  /\ UNCHANGED <<local, snapshot, cron, session, pull, ghosts, lost, count>>

\* Mutant: Stop does not wait for the run under way.
StopAtOnce(h) ==
  /\ req[h].step = "waiting"
  /\ cron' = None /\ Answer(h)
  /\ UNCHANGED <<local, snapshot, session, pull, ghosts, lost, count>>

\* Mutant: the scheduler keeps its cron when it has been stopped.
EndStopKeepCron(h) ==
  /\ req[h].step = "waiting" /\ ~session.scheduled
  /\ Answer(h)
  /\ UNCHANGED <<local, snapshot, cron, session, pull, ghosts, lost, count>>

\* ... and it returns when the one under way has ended.
EndStop(h) ==
  /\ req[h].step = "waiting" /\ ~session.scheduled
  /\ cron' = None /\ Answer(h)
  /\ UNCHANGED <<local, snapshot, session, pull, ghosts, lost, count>>

-----------------------------------------------------------------------------
(* Pulls: pullAndPreserveRestoreJobs and InitFromOSS. *)

\* Another pull has replaced the tables and has not restored them.
Foreign(p) == \E o \in Preserving \ {p} : pull[o].step = "import"

\* The tables a statement fails for.
AtMostOne == {{}} \cup {{t} : t \in Tables}

\* A table that cannot be read is taken for empty.
Exported(t, failed) == IF t \in failed THEN [k \in Keys[t] |-> None] ELSE local[t]

Export(p) ==
  \E F \in AtMostOne :
    /\ pull' = [pull EXCEPT ![p] = [step |-> "fetch", saved |-> [t \in Tables |-> Exported(t, F)]]]
    /\ IF F = {}
       THEN count' = [count EXCEPT !.pulls = @ - 1]
       ELSE /\ count.troubles > 0
            /\ count' = [count EXCEPT !.pulls = @ - 1, !.troubles = @ - 1]
    /\ Lose(Because("failure", F # {})
              \cup Because("overlap", Foreign(p)))

\* StartBackup when the engine is ready, RunBackup at any time the scheduler runs.
BeginSession ==
  /\ session.step = "idle" /\ count.pulls > 0
  /\ \E scheduled \in BOOLEAN :
       /\ IF scheduled THEN cron # None /\ ~Stopping ELSE pull["startup"].step = "idle"
       /\ session' = [step |-> "pull", scheduled |-> scheduled]
  /\ Export("session")
  /\ UNCHANGED <<local, snapshot, req, cron, ghosts>>

\* handleRefreshOSSDB asks for nothing.
BeginRefresh ==
  /\ pull["refresh"].step = "idle" /\ count.pulls > 0
  /\ Export("refresh")
  /\ UNCHANGED <<local, snapshot, req, cron, session, ghosts>>

\* Mutant: the session that cannot pull stays registered.
LeaveRegistered(p, ok) ==
  /\ pull' = [pull EXCEPT ![p] = NoPull]
  /\ session' = IF p = "session" /\ ok THEN [session EXCEPT !.step = "work"] ELSE session

\* The end of the pull; a session goes on, or gives up when the pull failed.
Leave(p, ok) ==
  /\ pull' = [pull EXCEPT ![p] = NoPull]
  /\ session' = IF p # "session" THEN session
                ELSE IF ok THEN [session EXCEPT !.step = "work"] ELSE NoSession

\* PullOSSDB and Reopen.  The pull at the start keeps nothing of the local tables.
Fetch(p) ==
  /\ pull[p].step = "fetch"
  /\ \/ Leave(p, FALSE) /\ Spend("troubles") /\ UNCHANGED <<local, lost>>
     \/ snapshot = None /\ Leave(p, TRUE) /\ UNCHANGED <<local, lost, count>>
     \/ /\ snapshot # None /\ local' = snapshot /\ UNCHANGED count
        /\ IF p = "startup"
           THEN Leave(p, TRUE) /\ Lose(Because("restart", local # snapshot))
           ELSE pull' = [pull EXCEPT ![p].step = "import"] /\ UNCHANGED <<session, lost>>
  /\ UNCHANGED <<snapshot, req, cron, ghosts>>

\* Mutant: what the pull exported is put back where the snapshot has nothing.
ImportMissing(p) ==
  /\ pull[p].step = "import" /\ Leave(p, TRUE)
  /\ local' = [t \in Tables |->
       [k \in Keys[t] |-> IF local[t][k] = None THEN pull[p].saved[t][k] ELSE local[t][k]]]
  /\ UNCHANGED <<snapshot, req, cron, ghosts, count, lost>>

\* ImportDirectories, ImportExclusionRules, ImportConfigKV: one transaction each that
\* replaces the table, skipped when nothing was exported.
Imported(t, saved, failed) == IF t \in failed \/ IsEmpty(saved) THEN local[t] ELSE saved

\* All three tables; a failure is only logged.
Import(p) ==
  /\ pull[p].step = "import" /\ Leave(p, TRUE)
  /\ \E failed \in AtMostOne :
       LET skipped == {t \in Tables : IsEmpty(pull[p].saved[t])} IN
       /\ local' = [t \in Tables |-> Imported(t, pull[p].saved[t], failed)]
       /\ IF failed = {} THEN UNCHANGED count ELSE Spend("troubles")
       /\ Lose(Because("failure", failed # {})
                 \cup Because("emptied", \E t \in skipped : ~IsEmpty(local[t])))
  /\ UNCHANGED <<snapshot, req, cron, ghosts>>

\* Mutant: the run asks the scheduler for its next run before it ends.
EndSessionAskNextRun ==
  /\ session.step = "work" /\ session' = NoSession /\ ~Locked
  /\ snapshot' \in {snapshot, local}
  /\ UNCHANGED <<local, req, cron, pull, ghosts, lost, count>>

\* The work of a session; a session that completes pushes the local database.
EndSession ==
  /\ session.step = "work" /\ session' = NoSession
  /\ snapshot' \in {snapshot, local}
  /\ UNCHANGED <<local, req, cron, pull, ghosts, lost, count>>

-----------------------------------------------------------------------------

\* The process stops and starts: main seeds empty tables, starts the scheduler as
\* config.yaml says, and pulls in the background.
Restart ==
  /\ Spend("troubles")
  /\ local' = Seeded(local)
  /\ req' = [h \in Handlers |-> NoRequest] /\ session' = NoSession
  /\ cron' = YamlCron /\ asked' = FALSE
  /\ pull' = [p \in Pullers |-> IF p = "startup" THEN [NoPull EXCEPT !.step = "fetch"] ELSE NoPull]
  /\ Lose(Because("emptied", local' # local)
            \cup Because("failure", \E h \in Handlers : Scheduling(h))
            \cup Because("overlap", \E p \in Preserving : pull[p].step = "import"))
  /\ UNCHANGED <<snapshot, want>>

Schedule(h) ==
  \/ SaveEnabled(h) \/ SaveExpr(h) \/ AskIsEnabled(h)
  \/ UpdateSchedule(h) \/ StartWithCron(h) \/ BeginStop(h) \/ EndStop(h)

Edit(h) ==
  \/ \E t \in {"dirs", "rules"} : \E k \in Keys[t] : Add(h, t, k) \/ ReadRow(h, t, k)
  \/ \E k \in RuleKeys : DeleteExclusionRule(h, k)
  \/ UpdateRow(h)

Pulling(p) == Fetch(p) \/ Import(p)

Next ==
  \/ \E h \in Handlers : Edit(h) \/ Schedule(h)
  \/ BeginSession \/ BeginRefresh \/ EndSession \/ Restart
  \/ \E p \in Pullers : Pulling(p)

Spec == Init /\ [][Next]_vars

\* A request and a backup go on once they have begun; new ones need not come, and a
\* refresh may take for ever.
Continue(h) ==
  \/ UpdateRow(h) \/ SaveExpr(h) \/ AskIsEnabled(h)
  \/ UpdateSchedule(h) \/ StartWithCron(h) \/ BeginStop(h) \/ EndStop(h)

Fairness ==
  /\ \A h \in Handlers : WF_vars(Continue(h))
  /\ WF_vars(Pulling("session") \/ EndSession)

FairSpec == Spec /\ Fairness

-----------------------------------------------------------------------------
(* Properties. *)

\* No pull has replaced the tables without having put them back.
InPlace == \A p \in Preserving : pull[p].step # "import"

\* Every table the operator edits is what the accepted requests amount to, whatever
\* pulls came in between, and a session's and a refresh's may both have replaced the
\* tables before either puts them back - unless a write fell between the export and
\* the import of a pull, an export between the replacement and the import of another,
\* a statement failed, a table was emptied, or the process started on an older
\* snapshot.
SettingsKept == lost = {} => (InPlace => local = want)

\* Once a schedule was saved since the start, and no request is at it, the scheduler
\* runs what was saved last, under the same reservations.
ScheduleRuns ==
  lost = {} /\ asked /\ (\A h \in Handlers : ~Scheduling(h))
    => cron = IF want.kv["enabled"] THEN want.kv["expr"] ELSE None

\* A scheduler that is off has no backup of its own under way: who is told that the
\* schedule is off, or starts it again, finds the last run ended.
StoppedIsQuiet == cron = None => ~session.scheduled

\* Every request is answered, those that wait for the scheduler's mutex while a Stop
\* waits for a backup included.
RequestsAnswered == \A h \in Handlers : []<>(req[h].step = "idle")

\* docs/TEST_CASES.md TC-STRAT-002: what was saved is still in effect after a restart.
SettingsSurviveRestart ==
  lost \subseteq {"restart"} => (InPlace => local = want)

\* The comment of ImportExclusionRules: the local settings always win over those of
\* the snapshot.
LocalSettingsWin ==
  lost \subseteq {"emptied"} => (InPlace => local = want)
=============================================================================
