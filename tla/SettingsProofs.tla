--------------------------- MODULE SettingsProofs ---------------------------
(***************************************************************************)
(* Theorems about module Settings, for any keys, expressions, handlers and *)
(* bounds: what a pull does to the settings an operator saved, what the    *)
(* scheduler does with the schedule that was saved, and when it is quiet.  *)
(***************************************************************************)
EXTENDS Settings, TLAPS

-----------------------------------------------------------------------------
(* Tables. *)

LEMMA TableFacts ==
  /\ Tables = {"dirs", "rules", "kv"}
  /\ Keys["dirs"] = DirKeys /\ Keys["rules"] = RuleKeys /\ Keys["kv"] = {"enabled", "expr"}
  /\ Values["dirs"] = Row /\ Values["rules"] = Row /\ Values["kv"] = BOOLEAN \cup Exprs
BY DEF Tables, Keys, Values

LEMMA CellType ==
  ASSUME NEW d, IsDatabase(d), NEW t \in Tables, NEW k \in Keys[t],
         NEW v \in Values[t] \cup {None}
  PROVE  IsDatabase([d EXCEPT ![t][k] = v])
BY DEF IsDatabase

LEMMA SameDatabase ==
  ASSUME NEW c, NEW d, IsDatabase(c), IsDatabase(d),
         \A t \in Tables : \A k \in Keys[t] : c[t][k] = d[t][k]
  PROVE  c = d
<1>1. ASSUME NEW t \in Tables PROVE c[t] = d[t]
  BY <1>1 DEF IsDatabase
<1> QED
  BY <1>1 DEF IsDatabase

LEMMA SeededType ==
  ASSUME NEW d, IsDatabase(d)
  PROVE  IsDatabase(Seeded(d))
BY SettingsAssumption, TableFacts DEF IsDatabase, Seeded, Row

LEMMA FreshType == IsDatabase(Fresh)
<1> DEFINE nothing == [t \in Tables |-> [k \in Keys[t] |-> None]]
<1>1. IsDatabase(nothing)
  BY DEF IsDatabase
<1> QED
  BY <1>1, SeededType DEF Fresh

-----------------------------------------------------------------------------
(* Types. *)

LEMMA InitType == Init => TypeOK
<1> SUFFICES ASSUME Init PROVE TypeOK
  OBVIOUS
<1>1. IsDatabase(local) /\ IsDatabase(want) /\ (snapshot # None => IsDatabase(snapshot))
  BY FreshType DEF Init
<1>2. req \in [Handlers -> Requests]
  BY DEF Init, Requests
<1>3. pull = [p \in Pullers |-> [step |-> pull[p].step, saved |-> pull[p].saved]]
      /\ (\A p \in Pullers : pull[p].saved = None /\ pull[p].step = IF p = "startup" THEN "fetch" ELSE "idle")
  BY DEF Init, NoPull
<1>4. count \in [{"requests", "pulls", "troubles"} -> Nat]
  BY SettingsAssumption DEF Init
<1>5. session \in [step : {"idle", "pull", "work"}, scheduled : BOOLEAN] /\ session.step = "idle"
  BY DEF Init, NoSession
<1> QED
  BY <1>1, <1>2, <1>3, <1>4, <1>5 DEF Init, TypeOK, Pullers

LEMMA SpendType ==
  ASSUME TypeOK, NEW bound \in {"requests", "pulls", "troubles"}, Spend(bound)
  PROVE  count' \in [{"requests", "pulls", "troubles"} -> Nat]
BY DEF TypeOK, Spend

LEMMA LoseType ==
  ASSUME lost \subseteq Reasons, NEW reasons, reasons \subseteq Reasons, Lose(reasons)
  PROVE  lost' \subseteq Reasons
BY DEF Lose

LEMMA BecauseType ==
  ASSUME NEW reason \in Reasons, NEW condition
  PROVE  Because(reason, condition) \subseteq Reasons
BY DEF Because

LEMMA StoreType ==
  ASSUME TypeOK, NEW h, NEW t \in Tables, NEW k \in Keys[t], NEW v \in Values[t] \cup {None},
         Store(h, t, k, v)
  PROVE  IsDatabase(local)' /\ IsDatabase(want)' /\ (lost \subseteq Reasons)'
<1>1. IsDatabase(local') /\ IsDatabase(want')
  BY CellType DEF TypeOK, Store
<1>2. lost' \subseteq Reasons
  BY LoseType, BecauseType DEF TypeOK, Store, Reasons
<1> QED
  BY <1>1, <1>2

\* TypeOK in the parts that actions change.
TablesTyped ==
  IsDatabase(local) /\ IsDatabase(want) /\ (snapshot # None => IsDatabase(snapshot))
CronTyped == cron \in Exprs \cup {YamlCron, None}
PullsTyped ==
  /\ session \in [step : {"idle", "pull", "work"}, scheduled : BOOLEAN]
  /\ pull = [p \in Pullers |-> [step |-> pull[p].step, saved |-> pull[p].saved]]
  /\ \A p \in Pullers :
       /\ pull[p].step \in {"idle", "fetch"} \cup (IF p = "startup" THEN {} ELSE {"import"})
       /\ IF p = "startup" \/ pull[p].step = "idle"
          THEN pull[p].saved = None ELSE IsDatabase(pull[p].saved)
  /\ (session.step = "pull") = (pull["session"].step # "idle")
RequestsTyped == req \in [Handlers -> Requests]
CountTyped == count \in [{"requests", "pulls", "troubles"} -> Nat]
RestTyped == asked \in BOOLEAN /\ lost \subseteq Reasons

LEMMA TypeParts ==
  TypeOK <=> TablesTyped /\ CronTyped /\ PullsTyped /\ RequestsTyped /\ CountTyped /\ RestTyped
BY DEF TypeOK, TablesTyped, CronTyped, PullsTyped, RequestsTyped, CountTyped, RestTyped

LEMMA TypePartsNext ==
  TypeOK' <=> /\ TablesTyped' /\ CronTyped' /\ PullsTyped'
              /\ RequestsTyped' /\ CountTyped' /\ RestTyped'
BY DEF TypeOK, TablesTyped, CronTyped, PullsTyped, RequestsTyped, CountTyped, RestTyped

LEMMA SamePulls == PullsTyped /\ UNCHANGED <<session, pull>> => PullsTyped'
BY DEF PullsTyped

LEMMA SameRest ==
  /\ TablesTyped /\ UNCHANGED <<local, want, snapshot>> => TablesTyped'
  /\ CronTyped /\ UNCHANGED cron => CronTyped'
  /\ RequestsTyped /\ UNCHANGED req => RequestsTyped'
  /\ CountTyped /\ UNCHANGED count => CountTyped'
  /\ RestTyped /\ UNCHANGED <<asked, lost>> => RestTyped'
BY DEF TablesTyped, CronTyped, RequestsTyped, CountTyped, RestTyped

\* A request that goes away, or on to its next step, is still a request.
LEMMA RequestType ==
  ASSUME RequestsTyped, NEW h \in Handlers
  PROVE  /\ Answer(h) => RequestsTyped'
         /\ \A s \in ScheduleSteps : Scheduling(h) /\ Goto(h, s) => RequestsTyped'
<1>1. Answer(h) => RequestsTyped'
  BY DEF Answer, RequestsTyped, Requests
<1>2. ASSUME NEW s \in ScheduleSteps, Scheduling(h), Goto(h, s) PROVE RequestsTyped'
  <2>1. req[h] \in [step : ScheduleSteps, on : BOOLEAN, expr : Exprs]
    BY <1>2 DEF RequestsTyped, Requests, Scheduling, ScheduleSteps, NoRequest
  <2>2. [req[h] EXCEPT !.step = s] \in [step : ScheduleSteps, on : BOOLEAN, expr : Exprs]
    BY <1>2, <2>1
  <2> QED
    BY <1>2, <2>2 DEF RequestsTyped, Requests, Goto
<1> QED
  BY <1>1, <1>2

\* An update stores one row or, when the row is no longer there, nothing.
LEMMA UpdateStores ==
  ASSUME TypeOK, NEW h \in Handlers, UpdateRow(h)
  PROVE  \E t \in {"dirs", "rules"} : \E k \in Keys[t] : \E v \in BOOLEAN :
           UNCHANGED <<local, want, lost>> \/ Store(h, t, k, v)
<1>1. /\ req[h].table \in {"dirs", "rules"} /\ req[h].old \in BOOLEAN
      /\ req[h].key \in IF req[h].table = "dirs" THEN DirKeys ELSE RuleKeys
  BY DEF UpdateRow, TypeOK, Requests, NoRequest, ScheduleSteps, Row
<1>2. req[h].key \in Keys[req[h].table]
  BY <1>1, TableFacts
<1>3. (~req[h].old) \in BOOLEAN
  BY <1>1, Zenon
<1>4. \/ UNCHANGED <<local, want, lost>>
      \/ Store(h, req[h].table, req[h].key, ~req[h].old)
  BY Zenon DEF UpdateRow
<1> QED
  BY <1>1, <1>2, <1>3, <1>4, Zenon

LEMMA EditType ==
  ASSUME TypeOK, NEW h \in Handlers, Edit(h)
  PROVE  TypeOK'
<1> USE TypeParts, TypePartsNext, SamePulls, SameRest
<1>1. ASSUME NEW t \in {"dirs", "rules"}, NEW k \in Keys[t], Add(h, t, k) PROVE TypeOK'
  <2>1. PICK row \in Row : Store(h, t, k, row)
    BY <1>1 DEF Add
  <2>2. t \in Tables /\ row \in Values[t]
    BY TableFacts
  <2>3. IsDatabase(local)' /\ IsDatabase(want)' /\ (lost \subseteq Reasons)'
    BY <2>1, <2>2, StoreType
  <2>4. CountTyped'
    BY <1>1, SpendType DEF Add, Request, CountTyped
  <2> QED
    BY <1>1, <2>3, <2>4 DEF Add, TablesTyped, RestTyped
<1>2. ASSUME NEW t \in {"dirs", "rules"}, NEW k \in Keys[t], ReadRow(h, t, k) PROVE TypeOK'
  <2>1. local[t][k] \in Row
    BY <1>2, TableFacts DEF TypeOK, IsDatabase, ReadRow
  <2>2. k \in IF t = "dirs" THEN DirKeys ELSE RuleKeys
    BY <1>2, TableFacts
  <2>3. RequestsTyped'
    BY <1>2, <2>1, <2>2 DEF ReadRow, RequestsTyped, Requests
  <2>4. CountTyped'
    BY <1>2, SpendType DEF ReadRow, Request, CountTyped
  <2>5. RestTyped'
    BY <1>2, LoseType, BecauseType DEF ReadRow, RestTyped, Reasons, ghosts
  <2> QED
    BY <1>2, <2>3, <2>4, <2>5 DEF ReadRow, ghosts
<1>3. ASSUME NEW k \in RuleKeys, DeleteExclusionRule(h, k) PROVE TypeOK'
  <2>1. "rules" \in Tables /\ k \in Keys["rules"]
    BY TableFacts
  <2>2. IsDatabase(local)' /\ IsDatabase(want)' /\ (lost \subseteq Reasons)'
    BY <1>3, <2>1, StoreType DEF DeleteExclusionRule
  <2>3. CountTyped'
    BY <1>3, SpendType DEF DeleteExclusionRule, Request, CountTyped
  <2> QED
    BY <1>3, <2>2, <2>3 DEF DeleteExclusionRule, TablesTyped, RestTyped
<1>4. ASSUME UpdateRow(h) PROVE TypeOK'
  <2>0. PICK t \in {"dirs", "rules"} : \E k \in Keys[t] : \E v \in BOOLEAN :
          UNCHANGED <<local, want, lost>> \/ Store(h, t, k, v)
    BY <1>4, UpdateStores
  <2>1. PICK k \in Keys[t], v \in BOOLEAN :
          UNCHANGED <<local, want, lost>> \/ Store(h, t, k, v)
    BY <2>0
  <2>2. t \in Tables /\ v \in Values[t]
    BY TableFacts DEF Row
  <2>3. RequestsTyped'
    BY <1>4, RequestType DEF UpdateRow
  <2>4. IsDatabase(local)' /\ IsDatabase(want)' /\ (lost \subseteq Reasons)'
    BY <2>1, <2>2, StoreType DEF TypeOK
  <2> QED
    BY <1>4, <2>3, <2>4 DEF UpdateRow, TablesTyped, RestTyped
<1> QED
  BY <1>1, <1>2, <1>3, <1>4, TableFacts DEF Edit

LEMMA RequestOf ==
  ASSUME RequestsTyped, NEW h \in Handlers, Scheduling(h)
  PROVE  req[h] \in [step : ScheduleSteps, on : BOOLEAN, expr : Exprs]
BY DEF RequestsTyped, Requests, Scheduling, ScheduleSteps, NoRequest

LEMMA ScheduleType ==
  ASSUME TypeOK, NEW h \in Handlers, Schedule(h)
  PROVE  TypeOK'
<1> USE TypeParts, TypePartsNext, SamePulls, SameRest
<1>1. ASSUME SaveEnabled(h) PROVE TypeOK'
  <2>1. PICK on \in BOOLEAN, x \in Exprs :
          /\ req' = [req EXCEPT ![h] = [step |-> "expr", on |-> on, expr |-> x]]
          /\ local' = [local EXCEPT !.kv["enabled"] = on]
          /\ want' = [want EXCEPT !.kv["enabled"] = on]
    BY <1>1 DEF SaveEnabled
  <2>2. RequestsTyped'
    BY <2>1 DEF RequestsTyped, Requests, ScheduleSteps
  <2>3. "kv" \in Tables /\ "enabled" \in Keys["kv"] /\ on \in Values["kv"]
    BY TableFacts
  <2>4. IsDatabase(local') /\ IsDatabase(want')
    BY <2>1, <2>3, CellType DEF TypeOK
  <2>5. CountTyped'
    BY <1>1, SpendType DEF SaveEnabled, Request, CountTyped
  <2>6. RestTyped'
    BY <1>1, LoseType, BecauseType DEF SaveEnabled, RestTyped, Reasons
  <2> QED
    BY <1>1, <2>2, <2>4, <2>5, <2>6 DEF SaveEnabled, TablesTyped
<1>2. ASSUME SaveExpr(h) PROVE TypeOK'
  <2>1. Scheduling(h)
    BY <1>2 DEF SaveExpr, Scheduling, ScheduleSteps
  <2>2. PICK x \in Exprs : x = req[h].expr
    BY <2>1, RequestOf
  <2>3. "kv" \in Tables /\ "expr" \in Keys["kv"] /\ x \in Values["kv"]
    BY TableFacts
  <2>4. CASE Store(h, "kv", "expr", req[h].expr) /\ Goto(h, "ask") /\ UNCHANGED count
    <3>1. IsDatabase(local)' /\ IsDatabase(want)' /\ (lost \subseteq Reasons)'
      BY <2>2, <2>3, <2>4, StoreType
    <3>2. RequestsTyped'
      BY <2>1, <2>4, RequestType DEF ScheduleSteps
    <3> QED
      BY <1>2, <2>4, <3>1, <3>2 DEF SaveExpr, TablesTyped, RestTyped
  <2>5. CASE /\ local' \in {local, [local EXCEPT !.kv["expr"] = req[h].expr]}
             /\ want' = local' /\ Answer(h) /\ Spend("troubles") /\ Lose({"failure"})
    <3>0. IsDatabase([local EXCEPT !["kv"]["expr"] = x])
      BY <2>3, CellType DEF TypeOK
    <3>1. IsDatabase(local') /\ IsDatabase(want')
      BY <2>2, <2>5, <3>0 DEF TypeOK
    <3>2. RequestsTyped' /\ CountTyped'
      BY <2>5, RequestType, SpendType DEF CountTyped
    <3>3. RestTyped'
      BY <1>2, <2>5, LoseType DEF SaveExpr, RestTyped, Reasons
    <3> QED
      BY <1>2, <3>1, <3>2, <3>3 DEF SaveExpr, TablesTyped
  <2> QED
    BY <1>2, <2>4, <2>5 DEF SaveExpr
<1>3. ASSUME AskIsEnabled(h) PROVE TypeOK'
  <2>1. Scheduling(h)
    BY <1>3 DEF AskIsEnabled, Scheduling, ScheduleSteps
  <2>2. Answer(h) \/ \E s \in ScheduleSteps : Goto(h, s)
    BY <1>3 DEF AskIsEnabled, ScheduleSteps
  <2>3. RequestsTyped'
    BY <2>1, <2>2, RequestType
  <2> QED
    BY <1>3, <2>3 DEF AskIsEnabled, ghosts
<1>4. ASSUME UpdateSchedule(h) \/ StartWithCron(h) PROVE TypeOK'
  <2>1. Scheduling(h)
    BY <1>4 DEF UpdateSchedule, StartWithCron, Scheduling, ScheduleSteps
  <2>2. RequestsTyped' /\ RestTyped'
    BY <1>4, RequestType, LoseType DEF UpdateSchedule, StartWithCron, RestTyped, Reasons, ghosts
  <2>3. CronTyped'
    BY <1>4, <2>1, RequestOf DEF UpdateSchedule, StartWithCron, CronTyped
  <2> QED
    BY <1>4, <2>2, <2>3 DEF UpdateSchedule, StartWithCron, ghosts
<1>5. ASSUME BeginStop(h) \/ EndStop(h) PROVE TypeOK'
  <2>1. Scheduling(h)
    BY <1>5 DEF BeginStop, EndStop, Scheduling, ScheduleSteps
  <2>2. RequestsTyped'
    BY <1>5, <2>1, RequestType DEF BeginStop, EndStop, ScheduleSteps
  <2>3. CronTyped'
    BY <1>5 DEF BeginStop, EndStop, CronTyped
  <2> QED
    BY <1>5, <2>2, <2>3 DEF BeginStop, EndStop, ghosts
<1> QED
  BY <1>1, <1>2, <1>3, <1>4, <1>5 DEF Schedule

LEMMA ExportType ==
  ASSUME TypeOK, NEW p \in Preserving, pull[p].step = "idle", count.pulls > 0, Export(p)
  PROVE  /\ \E saved : IsDatabase(saved) /\ pull' = [pull EXCEPT ![p] = [step |-> "fetch", saved |-> saved]]
         /\ CountTyped' /\ lost' \subseteq Reasons
<1>1. PICK F \in AtMostOne :
        /\ pull' = [pull EXCEPT ![p] = [step |-> "fetch", saved |-> [t \in Tables |-> Exported(t, F)]]]
        /\ IF F = {}
           THEN count' = [count EXCEPT !.pulls = @ - 1]
           ELSE /\ count.troubles > 0
                /\ count' = [count EXCEPT !.pulls = @ - 1, !.troubles = @ - 1]
        /\ Lose(Because("failure", F # {}) \cup Because("overlap", Foreign(p)))
  BY DEF Export
<1>2. IsDatabase([t \in Tables |-> Exported(t, F)])
  BY DEF TypeOK, IsDatabase, Exported
<1>3. CountTyped'
  <2>1. count \in [{"requests", "pulls", "troubles"} -> Nat]
    BY DEF TypeOK
  <2>2. CASE F = {}
    BY <1>1, <2>1, <2>2 DEF CountTyped
  <2>3. CASE F # {}
    <3>1. /\ count["troubles"] > 0
          /\ count' = [count EXCEPT !["pulls"] = count["pulls"] - 1,
                                    !["troubles"] = count["troubles"] - 1]
      BY <1>1, <2>3
    <3>2. count["pulls"] - 1 \in Nat /\ count["troubles"] - 1 \in Nat
      BY <2>1, <3>1
    <3>3. [count EXCEPT !["pulls"] = count["pulls"] - 1]
            \in [{"requests", "pulls", "troubles"} -> Nat]
      BY <2>1, <3>2
    <3> QED
      BY <3>1, <3>2, <3>3, <2>1 DEF CountTyped
  <2> QED
    BY <2>2, <2>3
<1>4. lost' \subseteq Reasons
  BY <1>1, LoseType, BecauseType DEF TypeOK, Reasons
<1> QED
  BY <1>1, <1>2, <1>3, <1>4

LEMMA BeginType ==
  ASSUME TypeOK, BeginSession \/ BeginRefresh
  PROVE  TypeOK'
<1> USE TypeParts, TypePartsNext, SamePulls, SameRest
<1>1. ASSUME BeginSession PROVE TypeOK'
  <2>1. PICK scheduled \in BOOLEAN : session' = [step |-> "pull", scheduled |-> scheduled]
    BY <1>1 DEF BeginSession
  <2>2. pull["session"].step = "idle" /\ "session" \in Preserving
    BY <1>1 DEF BeginSession, PullsTyped, Preserving, Pullers
  <2>3. PICK saved : IsDatabase(saved) /\ pull' = [pull EXCEPT !["session"] = [step |-> "fetch", saved |-> saved]]
    BY <1>1, <2>2, ExportType DEF BeginSession
  <2>4. CountTyped' /\ lost' \subseteq Reasons
    BY <1>1, <2>2, ExportType DEF BeginSession
  <2>5. PullsTyped'
    BY <2>1, <2>3 DEF PullsTyped, Pullers
  <2> QED
    BY <1>1, <2>4, <2>5 DEF BeginSession, RestTyped, ghosts
<1>2. ASSUME BeginRefresh PROVE TypeOK'
  <2>1. "refresh" \in Preserving
    BY DEF Preserving, Pullers
  <2>2. PICK saved : IsDatabase(saved) /\ pull' = [pull EXCEPT !["refresh"] = [step |-> "fetch", saved |-> saved]]
    BY <1>2, <2>1, ExportType DEF BeginRefresh
  <2>3. CountTyped' /\ lost' \subseteq Reasons
    BY <1>2, <2>1, ExportType DEF BeginRefresh
  <2>4. PullsTyped'
    BY <1>2, <2>2 DEF BeginRefresh, PullsTyped, Pullers
  <2> QED
    BY <1>2, <2>3, <2>4 DEF BeginRefresh, RestTyped, ghosts
<1> QED
  BY <1>1, <1>2

LEMMA LeaveType ==
  ASSUME PullsTyped, NEW p \in Pullers, pull[p].step # "idle", NEW ok \in BOOLEAN, Leave(p, ok)
  PROVE  PullsTyped'
<1>1. CASE p = "session"
  <2>1. session' \in [step : {"idle", "work"}, scheduled : BOOLEAN]
    BY <1>1 DEF Leave, PullsTyped, NoSession
  <2> QED
    BY <1>1, <2>1 DEF Leave, PullsTyped, NoPull, Pullers
<1>2. CASE p # "session"
  BY <1>2 DEF Leave, PullsTyped, NoPull, Pullers
<1> QED
  BY <1>1, <1>2

LEMMA PullingType ==
  ASSUME TypeOK, NEW p \in Pullers, Pulling(p)
  PROVE  TypeOK'
<1> USE TypeParts, TypePartsNext, SamePulls, SameRest
<1>1. ASSUME Fetch(p) PROVE TypeOK'
  <2>1. pull[p].step # "idle"
    BY <1>1 DEF Fetch
  <2>2. CASE Leave(p, FALSE) /\ Spend("troubles") /\ UNCHANGED <<local, lost>>
    <3>1. PullsTyped' /\ CountTyped'
      BY <2>1, <2>2, LeaveType, SpendType DEF CountTyped
    <3> QED
      BY <1>1, <2>2, <3>1 DEF Fetch, ghosts
  <2>3. CASE snapshot = None /\ Leave(p, TRUE) /\ UNCHANGED <<local, lost, count>>
    <3>1. PullsTyped'
      BY <2>1, <2>3, LeaveType
    <3> QED
      BY <1>1, <2>3, <3>1 DEF Fetch, ghosts
  <2>4. CASE /\ snapshot # None /\ local' = snapshot /\ UNCHANGED count
             /\ IF p = "startup"
                THEN Leave(p, TRUE) /\ Lose(Because("restart", local # snapshot))
                ELSE pull' = [pull EXCEPT ![p].step = "import"] /\ UNCHANGED <<session, lost>>
    <3>1. TablesTyped'
      BY <1>1, <2>4 DEF Fetch, TablesTyped, ghosts
    <3>2. RestTyped'
      BY <1>1, <2>4, LoseType, BecauseType DEF Fetch, RestTyped, Reasons, ghosts
    <3>3. CASE p = "startup"
      <4>1. PullsTyped'
        BY <2>1, <2>4, <3>3, LeaveType
      <4> QED
        BY <1>1, <2>4, <3>1, <3>2, <4>1 DEF Fetch, ghosts
    <3>4. CASE p # "startup"
      <4>1. pull' = [pull EXCEPT ![p] = [step |-> "import", saved |-> pull[p].saved]]
        BY <2>4, <3>4 DEF PullsTyped
      <4>2. IsDatabase(pull[p].saved) /\ UNCHANGED session
        BY <1>1, <2>4, <3>4 DEF Fetch, PullsTyped
      <4>3. /\ pull'[p] = [step |-> "import", saved |-> pull[p].saved]
            /\ \A q \in Pullers \ {p} : pull'[q] = pull[q]
            /\ pull' = [q \in Pullers |-> pull'[q]]
        BY <4>1 DEF PullsTyped
      <4>4. PullsTyped'
        BY <1>1, <3>4, <4>2, <4>3 DEF Fetch, PullsTyped, Pullers
      <4> QED
        BY <1>1, <2>4, <3>1, <3>2, <4>4 DEF Fetch, ghosts
    <3> QED
      BY <3>3, <3>4
  <2> QED
    BY <1>1, <2>2, <2>3, <2>4 DEF Fetch
<1>2. ASSUME Import(p) PROVE TypeOK'
  <2>1. pull[p].step # "idle" /\ IsDatabase(pull[p].saved)
    BY <1>2 DEF Import, PullsTyped
  <2>2. PullsTyped'
    BY <1>2, <2>1, LeaveType DEF Import
  <2>3. PICK failed \in AtMostOne :
       LET skipped == {t \in Tables : IsEmpty(pull[p].saved[t])} IN
       /\ local' = [t \in Tables |-> Imported(t, pull[p].saved[t], failed)]
       /\ IF failed = {} THEN UNCHANGED count ELSE Spend("troubles")
       /\ Lose(Because("failure", failed # {})
                 \cup Because("emptied", \E t \in skipped : ~IsEmpty(local[t])))
    BY <1>2 DEF Import
  <2>4. IsDatabase(local')
    BY <2>1, <2>3 DEF TablesTyped, IsDatabase, Imported
  <2>5. CountTyped'
    BY <2>3, SpendType DEF CountTyped
  <2>6. RestTyped'
    BY <1>2, <2>3, LoseType, BecauseType DEF Import, RestTyped, Reasons, ghosts
  <2> QED
    BY <1>2, <2>2, <2>4, <2>5, <2>6 DEF Import, TablesTyped, ghosts
<1> QED
  BY <1>1, <1>2 DEF Pulling

LEMMA EndSessionType == TypeOK /\ EndSession => TypeOK'
<1> USE TypeParts, TypePartsNext, SamePulls, SameRest
<1> SUFFICES ASSUME TypeOK, EndSession PROVE TypeOK'
  OBVIOUS
<1>1. PullsTyped'
  BY DEF EndSession, PullsTyped, NoSession
<1>2. TablesTyped'
  BY DEF EndSession, TablesTyped, ghosts
<1> QED
  BY <1>1, <1>2 DEF EndSession, ghosts

LEMMA RestartType == TypeOK /\ Restart => TypeOK'
<1> USE TypeParts, TypePartsNext, SamePulls, SameRest
<1> SUFFICES ASSUME TypeOK, Restart PROVE TypeOK'
  OBVIOUS
<1>1. PullsTyped'
  <2>1. session' \in [step : {"idle"}, scheduled : BOOLEAN]
    BY DEF Restart, NoSession
  <2> QED
    BY <2>1 DEF Restart, PullsTyped, NoPull, Pullers
<1>2. TablesTyped'
  BY SeededType DEF Restart, TablesTyped
<1>3. RequestsTyped' /\ CronTyped'
  BY DEF Restart, RequestsTyped, Requests, CronTyped
<1>4. CountTyped'
  BY SpendType DEF Restart, CountTyped
<1>5. RestTyped'
  BY LoseType, BecauseType DEF Restart, RestTyped, Reasons
<1> QED
  BY <1>1, <1>2, <1>3, <1>4, <1>5

LEMMA NextType == TypeOK /\ [Next]_vars => TypeOK'
<1> SUFFICES ASSUME TypeOK, [Next]_vars PROVE TypeOK'
  OBVIOUS
<1>1. CASE UNCHANGED vars
  BY <1>1 DEF TypeOK, vars
<1>2. CASE Next
  BY <1>2, EditType, ScheduleType, BeginType, PullingType, EndSessionType, RestartType DEF Next
<1> QED
  BY <1>1, <1>2

\* The settings, the scheduler and the pulls are well typed: a pull has exported
\* tables exactly while it is under way, and a session pulls through its own.
THEOREM SettingsTypeCorrect == Spec => []TypeOK
<1>1. Init => TypeOK
  BY InitType
<1>2. TypeOK /\ [Next]_vars => TypeOK'
  BY NextType
<1> QED
  BY <1>1, <1>2, PTL DEF Spec

-----------------------------------------------------------------------------
(* The scheduler at rest. *)

\* A scheduler that is off has no backup of its own under way: a run begins only
\* while it is on, and a Stop ends only when the run has ended.
THEOREM StoppedIsQuietCorrect == Spec => []StoppedIsQuiet
<1>1. Init => StoppedIsQuiet
  BY DEF Init, StoppedIsQuiet, NoSession
<1>2. TypeOK /\ StoppedIsQuiet /\ [Next]_vars => StoppedIsQuiet'
  <2> SUFFICES ASSUME TypeOK, StoppedIsQuiet, [Next]_vars PROVE StoppedIsQuiet'
    OBVIOUS
  <2>1. CASE UNCHANGED vars
    BY <2>1 DEF StoppedIsQuiet, vars
  <2>2. ASSUME NEW h \in Handlers, Edit(h) PROVE StoppedIsQuiet'
    BY <2>2 DEF Edit, Add, ReadRow, DeleteExclusionRule, UpdateRow, StoppedIsQuiet
  <2>3. ASSUME NEW h \in Handlers, Schedule(h) PROVE StoppedIsQuiet'
    <3>1. CASE SaveEnabled(h) \/ SaveExpr(h) \/ AskIsEnabled(h) \/ BeginStop(h)
      BY <3>1 DEF SaveEnabled, SaveExpr, AskIsEnabled, BeginStop, StoppedIsQuiet
    <3>2. CASE UpdateSchedule(h) \/ StartWithCron(h)
      <4>1. Scheduling(h)
        BY <3>2 DEF UpdateSchedule, StartWithCron, Scheduling, ScheduleSteps
      <4>2. req[h].expr # None
        BY <4>1, RequestOf, TypeParts, SettingsAssumption
      <4> QED
        BY <3>2, <4>2 DEF UpdateSchedule, StartWithCron, StoppedIsQuiet
    <3>3. CASE EndStop(h)
      BY <3>3 DEF EndStop, StoppedIsQuiet
    <3> QED
      BY <2>3, <3>1, <3>2, <3>3 DEF Schedule
  <2>4. CASE BeginSession
    BY <2>4 DEF BeginSession, StoppedIsQuiet
  <2>5. CASE BeginRefresh
    BY <2>5 DEF BeginRefresh, StoppedIsQuiet
  <2>6. CASE EndSession \/ Restart
    BY <2>6 DEF EndSession, Restart, StoppedIsQuiet, NoSession
  <2>7. ASSUME NEW p \in Pullers, Pulling(p) PROVE StoppedIsQuiet'
    <3>1. \/ session' = session \/ session' = NoSession
          \/ session' = [session EXCEPT !.step = "work"]
      BY <2>7 DEF Pulling, Fetch, Import, Leave
    <3>2. session'.scheduled = session.scheduled \/ session'.scheduled = FALSE
      BY <3>1 DEF NoSession, TypeOK
    <3>3. UNCHANGED cron
      BY <2>7 DEF Pulling, Fetch, Import
    <3> QED
      BY <3>2, <3>3 DEF StoppedIsQuiet
  <2> QED
    BY <2>1, <2>2, <2>3, <2>4, <2>5, <2>6, <2>7 DEF Next
<1> QED
  BY <1>1, <1>2, SettingsTypeCorrect, PTL DEF Spec

-----------------------------------------------------------------------------
(* The settings over pulls. *)

\* While the tables may be trusted, a pull under way holds what they amount to.
Kept ==
  lost = {} => /\ InPlace => local = want
               /\ \A p \in Preserving : pull[p].step # "idle" => pull[p].saved = want

LEMMA LostNothing ==
  ASSUME NEW reasons, Lose(reasons), lost' = {}
  PROVE  lost = {} /\ reasons = {}
BY DEF Lose

\* A cell is written in both tables, while no pull is under way.
LEMMA WriteKept ==
  ASSUME Kept, lost' = {} => lost = {} /\ ~InPull, UNCHANGED pull,
         local = want => local' = want'
  PROVE  Kept'
BY DEF Kept, InPull, InPlace

LEMMA StoreKept ==
  ASSUME NEW h, NEW t, NEW k, NEW v, Store(h, t, k, v)
  PROVE  /\ lost' = {} => lost = {} /\ ~InPull
         /\ local = want => local' = want'
<1>1. ASSUME lost' = {} PROVE lost = {} /\ ~InPull
  <2>1. lost = {} /\ Because("overlap", InPull \/ HeldByOther(h, t, k)) = {}
    BY <1>1, LostNothing DEF Store
  <2> QED
    BY <2>1 DEF Because
<1> QED
  BY <1>1 DEF Store

LEMMA EditKept ==
  ASSUME TypeOK, Kept, NEW h \in Handlers, Edit(h)
  PROVE  Kept'
<1>1. ASSUME NEW t \in {"dirs", "rules"}, NEW k \in Keys[t], Add(h, t, k) PROVE Kept'
  BY <1>1, StoreKept, WriteKept DEF Add
<1>2. ASSUME NEW t \in {"dirs", "rules"}, NEW k \in Keys[t], ReadRow(h, t, k) PROVE Kept'
  <2>1. lost' = {} => lost = {} /\ ~InPull
    BY <1>2 DEF ReadRow, Lose, Because
  <2> QED
    BY <1>2, <2>1, WriteKept DEF ReadRow, ghosts
<1>3. ASSUME NEW k \in RuleKeys, DeleteExclusionRule(h, k) PROVE Kept'
  BY <1>3, StoreKept, WriteKept DEF DeleteExclusionRule
<1>4. ASSUME UpdateRow(h) PROVE Kept'
  <2>1. PICK t \in {"dirs", "rules"} : \E k \in Keys[t] : \E v \in BOOLEAN :
          UNCHANGED <<local, want, lost>> \/ Store(h, t, k, v)
    BY <1>4, UpdateStores
  <2>2. PICK k \in Keys[t], v \in BOOLEAN :
          UNCHANGED <<local, want, lost>> \/ Store(h, t, k, v)
    BY <2>1
  <2>3. CASE UNCHANGED <<local, want, lost>>
    BY <1>4, <2>3 DEF UpdateRow, Kept, InPlace
  <2>4. CASE Store(h, t, k, v)
    BY <1>4, <2>4, StoreKept, WriteKept DEF UpdateRow
  <2> QED
    BY <2>2, <2>3, <2>4
<1> QED
  BY <1>1, <1>2, <1>3, <1>4 DEF Edit

LEMMA ScheduleKept ==
  ASSUME TypeOK, Kept, NEW h \in Handlers, Schedule(h)
  PROVE  Kept'
<1>1. CASE SaveEnabled(h)
  <2>1. lost' = {} => lost = {} /\ ~InPull
    BY <1>1 DEF SaveEnabled, Lose, Because
  <2> QED
    BY <1>1, <2>1, WriteKept DEF SaveEnabled
<1>2. CASE SaveExpr(h)
  <2>1. CASE Store(h, "kv", "expr", req[h].expr)
    <3>1. PICK x : x = req[h].expr
      OBVIOUS
    <3> QED
      BY <1>2, <2>1, <3>1, StoreKept, WriteKept DEF SaveExpr
  <2>2. CASE Lose({"failure"})
    BY <2>2 DEF Lose, Kept
  <2> QED
    BY <1>2, <2>1, <2>2 DEF SaveExpr
<1>3. CASE AskIsEnabled(h) \/ UpdateSchedule(h) \/ StartWithCron(h) \/ BeginStop(h) \/ EndStop(h)
  <2>1. UNCHANGED <<local, want, pull>> /\ (lost' = {} => lost = {})
    BY <1>3 DEF AskIsEnabled, UpdateSchedule, StartWithCron, BeginStop, EndStop, ghosts, Lose
  <2> QED
    BY <2>1 DEF Kept, InPlace
<1> QED
  BY <1>1, <1>2, <1>3 DEF Schedule

\* An export that lost nothing was made while every table was in place.
LEMMA ExportKept ==
  ASSUME TypeOK, Kept, NEW p \in Preserving, pull[p].step = "idle", Export(p),
         UNCHANGED <<local, want>>
  PROVE  Kept'
<1> SUFFICES ASSUME lost' = {} PROVE Kept'
  BY DEF Kept
<1>1. PICK F \in AtMostOne :
        /\ pull' = [pull EXCEPT ![p] = [step |-> "fetch", saved |-> [t \in Tables |-> Exported(t, F)]]]
        /\ Lose(Because("failure", F # {}) \cup Because("overlap", Foreign(p)))
  BY DEF Export
<1>2. lost = {} /\ F = {} /\ ~Foreign(p)
  BY <1>1 DEF Lose, Because
<1>3. InPlace
  BY <1>2 DEF Foreign, InPlace
<1>4. local = want /\ \A q \in Preserving : pull[q].step # "idle" => pull[q].saved = want
  BY <1>2, <1>3 DEF Kept
<1>5. [t \in Tables |-> Exported(t, F)] = local
  BY <1>2 DEF Exported, TypeOK, IsDatabase
<1>6. /\ pull'[p].saved = want' /\ pull'[p].step = "fetch"
      /\ \A q \in Preserving \ {p} : pull'[q] = pull[q]
  BY <1>1, <1>4, <1>5 DEF TypeOK, Preserving
<1> QED
  BY <1>4, <1>6 DEF Kept, InPlace

LEMMA PullingKept ==
  ASSUME TypeOK, Kept, NEW p \in Pullers, Pulling(p)
  PROVE  Kept'
<1> SUFFICES ASSUME lost' = {} PROVE Kept'
  BY DEF Kept
<1>1. ASSUME Fetch(p) PROVE Kept'
  <2>1. lost = {}
    BY <1>1 DEF Fetch, Lose
  <2>2. ASSUME NEW ok \in BOOLEAN, Leave(p, ok) PROVE
          \A q \in Preserving : /\ q = p => pull'[q].step = "idle"
                                /\ q # p => pull'[q] = pull[q]
    BY <2>2 DEF Leave, NoPull, Preserving, TypeOK
  <2>3. CASE \E ok \in BOOLEAN : Leave(p, ok) /\ local' = local
    <3>1. InPlace' => InPlace
      BY <1>1, <2>2, <2>3 DEF Fetch, InPlace
    <3> QED
      BY <1>1, <2>1, <2>2, <2>3, <3>1 DEF Fetch, Kept, ghosts
  <2>4. CASE p # "startup" /\ pull' = [pull EXCEPT ![p].step = "import"]
    <3>1. /\ p \in Preserving /\ pull'[p].step = "import" /\ pull'[p].saved = pull[p].saved
          /\ \A q \in Preserving \ {p} : pull'[q] = pull[q]
      BY <2>4 DEF Preserving, TypeOK
    <3> QED
      BY <1>1, <2>1, <3>1 DEF Fetch, Kept, InPlace, ghosts
  <2>5. CASE p = "startup" /\ snapshot # None /\ local' = snapshot /\ Leave(p, TRUE)
             /\ Lose(Because("restart", local # snapshot))
    <3>1. local' = local
      BY <2>5 DEF Lose, Because
    <3> QED
      BY <2>3, <2>5, <3>1
  <2> QED
    BY <1>1, <2>3, <2>4, <2>5 DEF Fetch
<1>2. ASSUME Import(p) PROVE Kept'
  <2> DEFINE skipped == {t \in Tables : IsEmpty(pull[p].saved[t])}
  <2>1. PICK failed \in AtMostOne :
       /\ local' = [t \in Tables |-> Imported(t, pull[p].saved[t], failed)]
       /\ Lose(Because("failure", failed # {})
                 \cup Because("emptied", \E t \in skipped : ~IsEmpty(local[t])))
    BY <1>2 DEF Import
  <2>2. lost = {} /\ failed = {} /\ \A t \in skipped : IsEmpty(local[t])
    BY <2>1 DEF Lose, Because
  <2>3. p \in Preserving /\ IsDatabase(pull[p].saved)
    BY <1>2 DEF Import, TypeOK, Preserving
  <2>4. pull[p].saved = want
    BY <1>2, <2>2, <2>3 DEF Import, Kept
  <2>5. ASSUME NEW t \in Tables PROVE local'[t] = want[t]
    <3>1. CASE t \in skipped
      <4>1. IsEmpty(local[t]) /\ IsEmpty(want[t])
        BY <2>2, <2>4, <3>1
      <4>2. /\ local[t] \in [Keys[t] -> Values[t] \cup {None}]
            /\ want[t] \in [Keys[t] -> Values[t] \cup {None}]
        BY DEF TypeOK, IsDatabase
      <4>3. local[t] = want[t]
        BY <4>1, <4>2 DEF IsEmpty
      <4> QED
        BY <2>1, <2>2, <3>1, <4>3 DEF Imported
    <3>2. CASE t \notin skipped
      BY <2>1, <2>2, <2>4, <3>2 DEF Imported
    <3> QED
      BY <3>1, <3>2
  <2>6. local' = want
    BY <2>1, <2>5 DEF TypeOK, IsDatabase
  <2>7. \A q \in Preserving : /\ q = p => pull'[q].step = "idle"
                              /\ q # p => pull'[q] = pull[q]
    BY <1>2 DEF Import, Leave, NoPull, Preserving, TypeOK
  <2> QED
    BY <1>2, <2>2, <2>6, <2>7 DEF Import, Kept, ghosts
<1> QED
  BY <1>1, <1>2 DEF Pulling

LEMMA RestartKept ==
  ASSUME TypeOK, Kept, Restart
  PROVE  Kept'
<1> SUFFICES ASSUME lost' = {} PROVE Kept'
  BY DEF Kept
<1>1. lost = {} /\ local' = local /\ ~(\E p \in Preserving : pull[p].step = "import")
  BY DEF Restart, Lose, Because
<1>2. local = want
  BY <1>1 DEF Kept, InPlace
<1>3. \A p \in Preserving : pull'[p].step = "idle"
  BY DEF Restart, NoPull, Preserving
<1> QED
  BY <1>1, <1>2, <1>3 DEF Restart, Kept

\* The settings are what the accepted requests amount to, whatever pulls came in
\* between and whichever of them run at once: a pull under way holds them, and no
\* other pull exports what it has put in their place.
THEOREM SettingsKeptCorrect == Spec => []SettingsKept
<1>1. Init => Kept
  BY DEF Init, Kept, NoPull, Preserving
<1>2. TypeOK /\ Kept /\ [Next]_vars => Kept'
  <2> SUFFICES ASSUME TypeOK, Kept, [Next]_vars PROVE Kept'
    OBVIOUS
  <2>1. CASE UNCHANGED vars
    BY <2>1 DEF vars, Kept, InPlace
  <2>2. CASE BeginSession
    <3>1. "session" \in Preserving /\ pull["session"].step = "idle"
      BY <2>2 DEF BeginSession, Preserving, Pullers, TypeOK
    <3> QED
      BY <2>2, <3>1, ExportKept DEF BeginSession, ghosts
  <2>3. CASE BeginRefresh
    <3>1. "refresh" \in Preserving
      BY DEF Preserving, Pullers
    <3> QED
      BY <2>3, <3>1, ExportKept DEF BeginRefresh, ghosts
  <2>4. CASE EndSession
    BY <2>4 DEF EndSession, Kept, InPlace, ghosts
  <2>5. CASE Next /\ ~BeginSession /\ ~BeginRefresh /\ ~EndSession
    BY <2>5, EditKept, ScheduleKept, PullingKept, RestartKept DEF Next
  <2> QED
    BY <2>1, <2>2, <2>3, <2>4, <2>5
<1>3. Kept => SettingsKept
  BY DEF Kept, SettingsKept
<1> QED
  BY <1>1, <1>2, <1>3, SettingsTypeCorrect, PTL DEF Spec

-----------------------------------------------------------------------------
(* The schedule that was saved. *)

\* How far a schedule request has come, and what its table holds meanwhile.
Followed(h) ==
  /\ want["kv"]["enabled"] = req[h].on
  /\ req[h].step # "expr" => want["kv"]["expr"] = req[h].expr
  /\ req[h].step \in {"update", "start"} => req[h].on
  /\ req[h].step \in {"stop", "waiting"} => ~req[h].on

\* One schedule request at a time is at work; the scheduler follows the last.
Alone == \A h, o \in Handlers : Scheduling(h) /\ Scheduling(o) => h = o
Following == \A h \in Handlers : Scheduling(h) => Followed(h)
AsSaved ==
  asked /\ (\A h \in Handlers : ~Scheduling(h))
    => cron = IF want["kv"]["enabled"] THEN want["kv"]["expr"] ELSE None
Agreed == lost = {} => Alone /\ Following /\ AsSaved

\* A step that is no schedule request's leaves all of it alone.
LEMMA SameSchedule ==
  ASSUME Agreed, lost' = {} => lost = {}, UNCHANGED <<cron, asked>>,
         want'["kv"] = want["kv"],
         \A h \in Handlers : /\ Scheduling(h)' = Scheduling(h)
                             /\ Scheduling(h) => req'[h] = req[h]
  PROVE  Agreed'
BY DEF Agreed, Alone, Following, Followed, AsSaved

LEMMA EditAgreed ==
  ASSUME TypeOK, Agreed, NEW h \in Handlers, Edit(h)
  PROVE  Agreed'
<1>1. /\ ~Scheduling(h) /\ ~Scheduling(h)'
      /\ \A o \in Handlers \ {h} : req'[o] = req[o]
      /\ UNCHANGED <<cron, asked>>
  BY DEF Edit, Add, ReadRow, DeleteExclusionRule, UpdateRow, Answer, Request, Scheduling,
         ScheduleSteps, NoRequest, TypeOK, ghosts
<1>2. want'["kv"] = want["kv"] /\ (lost' = {} => lost = {})
  <2>1. ASSUME NEW t \in {"dirs", "rules"}, NEW k, NEW v, Store(h, t, k, v)
        PROVE  want'["kv"] = want["kv"] /\ (lost' = {} => lost = {})
    BY <2>1 DEF Store, Lose, TypeOK, IsDatabase
  <2>2. ASSUME NEW t \in {"dirs", "rules"}, NEW k \in Keys[t], Add(h, t, k) \/ ReadRow(h, t, k)
        PROVE  want'["kv"] = want["kv"] /\ (lost' = {} => lost = {})
    BY <2>1, <2>2 DEF Add, ReadRow, ghosts, Lose
  <2>3. ASSUME NEW k \in RuleKeys, DeleteExclusionRule(h, k)
        PROVE  want'["kv"] = want["kv"] /\ (lost' = {} => lost = {})
    BY <2>1, <2>3 DEF DeleteExclusionRule
  <2>4. ASSUME UpdateRow(h)
        PROVE  want'["kv"] = want["kv"] /\ (lost' = {} => lost = {})
    <3>1. PICK t \in {"dirs", "rules"} : \E k \in Keys[t] : \E v \in BOOLEAN :
            UNCHANGED <<local, want, lost>> \/ Store(h, t, k, v)
      BY <2>4, UpdateStores
    <3> QED
      BY <2>1, <3>1
  <2> QED
    BY <2>2, <2>3, <2>4 DEF Edit
<1>3. \A o \in Handlers : /\ Scheduling(o)' = Scheduling(o)
                         /\ Scheduling(o) => req'[o] = req[o]
  BY <1>1 DEF Scheduling
<1> QED
  BY <1>1, <1>2, <1>3, SameSchedule DEF Scheduling

\* What the only schedule request does, when it goes on and when it is answered.
LEMMA GoesOnAgreed ==
  ASSUME Agreed, lost' = {} => lost = {}, NEW h \in Handlers,
         Scheduling(h), Scheduling(h)', Followed(h) => Followed(h)',
         \A o \in Handlers \ {h} : req'[o] = req[o]
  PROVE  Agreed'
<1>1. \A o \in Handlers \ {h} : Scheduling(o)' = Scheduling(o)
  BY DEF Scheduling
<1>2. ASSUME lost' = {} PROVE Alone' /\ Following' /\ AsSaved'
  <2>1. \A o \in Handlers \ {h} : ~Scheduling(o) /\ ~Scheduling(o)'
    BY <1>1, <1>2 DEF Agreed, Alone
  <2>2. Followed(h)'
    BY <1>2 DEF Agreed, Following
  <2>3. Alone'
    BY <2>1 DEF Alone
  <2>4. Following'
    BY <2>1, <2>2 DEF Following
  <2> QED
    BY <2>3, <2>4 DEF AsSaved
<1> QED
  BY <1>2 DEF Agreed

LEMMA AnswerAgreed ==
  ASSUME RequestsTyped, Agreed, NEW h \in Handlers, Scheduling(h), Answer(h),
         lost' = {} => lost = {},
         lost' = {} /\ Followed(h) => AsSaved'
  PROVE  Agreed'
<1>1. ~Scheduling(h)' /\ \A o \in Handlers \ {h} : req'[o] = req[o]
  BY DEF RequestsTyped, Answer, Scheduling, ScheduleSteps, NoRequest
<1>2. lost' = {} => \A o \in Handlers : ~Scheduling(o)'
  BY <1>1 DEF Agreed, Alone, Scheduling
<1> QED
  BY <1>2 DEF Agreed, Alone, Following

LEMMA KvCells ==
  ASSUME NEW d, IsDatabase(d)
  PROVE  /\ DOMAIN d = Tables /\ "kv" \in Tables
         /\ DOMAIN d["kv"] = {"enabled", "expr"}
BY TableFacts DEF IsDatabase

LEMMA SaveEnabledAgreed ==
  ASSUME TypeOK, Agreed, NEW h \in Handlers, SaveEnabled(h)
  PROVE  Agreed'
<1> SUFFICES ASSUME lost' = {} PROVE Agreed'
  BY DEF Agreed
<1>1. \A o \in Handlers : ~Scheduling(o)
  BY DEF SaveEnabled, Lose, Because
<1>2. PICK on \in BOOLEAN, x \in Exprs :
        /\ req' = [req EXCEPT ![h] = [step |-> "expr", on |-> on, expr |-> x]]
        /\ want' = [want EXCEPT !["kv"]["enabled"] = on]
  BY DEF SaveEnabled
<1>3. /\ req'[h] = [step |-> "expr", on |-> on, expr |-> x]
      /\ \A o \in Handlers \ {h} : req'[o] = req[o]
  BY <1>2 DEF TypeOK
<1>4. want'["kv"]["enabled"] = on
  BY <1>2, KvCells DEF TypeOK
<1>5. Scheduling(h)' /\ \A o \in Handlers \ {h} : ~Scheduling(o)'
  BY <1>1, <1>3 DEF Scheduling, ScheduleSteps
<1>6. Followed(h)'
  BY <1>3, <1>4 DEF Followed
<1> QED
  BY <1>5, <1>6 DEF Agreed, Alone, Following, AsSaved

LEMMA SaveExprAgreed ==
  ASSUME TypeOK, Agreed, NEW h \in Handlers, SaveExpr(h)
  PROVE  Agreed'
<1>1. CASE Lose({"failure"})
  BY <1>1 DEF Lose, Agreed
<1>2. CASE Store(h, "kv", "expr", req[h].expr) /\ Goto(h, "ask")
  <2>1. Scheduling(h) /\ req[h].step = "expr"
    BY DEF SaveExpr, Scheduling, ScheduleSteps
  <2>2. req[h] \in [step : ScheduleSteps, on : BOOLEAN, expr : Exprs]
    BY <2>1, RequestOf, TypeParts
  <2>3. /\ req'[h].step = "ask" /\ req'[h].on = req[h].on /\ req'[h].expr = req[h].expr
        /\ \A o \in Handlers \ {h} : req'[o] = req[o]
    BY <1>2, <2>2 DEF Goto, TypeOK
  <2>4. want' = [want EXCEPT !["kv"]["expr"] = req[h].expr]
    BY <1>2 DEF Store
  <2>5. want'["kv"]["expr"] = req[h].expr /\ want'["kv"]["enabled"] = want["kv"]["enabled"]
    BY <2>4, KvCells DEF TypeOK
  <2>6. Scheduling(h)' /\ (Followed(h) => Followed(h)')
    BY <2>3, <2>5 DEF Scheduling, ScheduleSteps, Followed
  <2>7. lost' = {} => lost = {}
    BY <1>2 DEF Store, Lose
  <2> QED
    BY <2>1, <2>3, <2>6, <2>7, GoesOnAgreed
<1> QED
  BY <1>1, <1>2 DEF SaveExpr

LEMMA AskAgreed ==
  ASSUME TypeOK, Agreed, NEW h \in Handlers, AskIsEnabled(h)
  PROVE  Agreed'
<1>1. Scheduling(h) /\ req[h].step = "ask" /\ UNCHANGED <<want, asked, cron, lost>>
  BY DEF AskIsEnabled, Scheduling, ScheduleSteps, ghosts
<1>2. req[h] \in [step : ScheduleSteps, on : BOOLEAN, expr : Exprs]
  BY <1>1, RequestOf, TypeParts
<1>3. \/ Answer(h) /\ ~req[h].on /\ cron = None
      \/ \E s \in {"update", "start"} : Goto(h, s) /\ req[h].on
      \/ Goto(h, "stop") /\ ~req[h].on
  BY <1>2 DEF AskIsEnabled
<1>4. CASE Answer(h) /\ ~req[h].on /\ cron = None
  <2>1. Followed(h) => AsSaved'
    BY <1>1, <1>4 DEF Followed, AsSaved
  <2> QED
    BY <1>1, <1>4, <2>1, AnswerAgreed, TypeParts
<1>5. ASSUME NEW s \in {"update", "start", "stop"}, Goto(h, s),
             s = "stop" => ~req[h].on, s # "stop" => req[h].on
      PROVE  Agreed'
  <2>1. /\ req'[h].step = s /\ req'[h].on = req[h].on /\ req'[h].expr = req[h].expr
        /\ \A o \in Handlers \ {h} : req'[o] = req[o]
    BY <1>2, <1>5 DEF Goto, TypeOK
  <2>2. Scheduling(h)' /\ (Followed(h) => Followed(h)')
    BY <1>1, <1>5, <2>1 DEF Scheduling, ScheduleSteps, Followed
  <2> QED
    BY <1>1, <2>1, <2>2, GoesOnAgreed
<1> QED
  BY <1>3, <1>4, <1>5

LEMMA TellAgreed ==
  ASSUME TypeOK, Agreed, NEW h \in Handlers, UpdateSchedule(h) \/ StartWithCron(h)
  PROVE  Agreed'
<1> SUFFICES ASSUME lost' = {} PROVE Agreed'
  BY DEF Agreed
<1>1. /\ Scheduling(h) /\ req[h].step \in {"update", "start"} /\ Answer(h)
      /\ UNCHANGED <<want, asked>>
  BY DEF UpdateSchedule, StartWithCron, Scheduling, ScheduleSteps, ghosts
<1>2. lost = {} /\ cron' = req[h].expr
  BY DEF UpdateSchedule, StartWithCron, Lose
<1>3. Followed(h) => AsSaved'
  BY <1>1, <1>2 DEF Followed, AsSaved
<1> QED
  BY <1>1, <1>2, <1>3, AnswerAgreed, TypeParts

LEMMA StopAgreed ==
  ASSUME TypeOK, Agreed, NEW h \in Handlers, BeginStop(h) \/ EndStop(h)
  PROVE  Agreed'
<1>1. /\ Scheduling(h) /\ req[h].step \in {"stop", "waiting"} /\ UNCHANGED <<want, asked, lost>>
      /\ \/ Answer(h) /\ cron' = None
         \/ Goto(h, "waiting") /\ UNCHANGED cron
  BY DEF BeginStop, EndStop, Scheduling, ScheduleSteps, ghosts
<1>2. req[h] \in [step : ScheduleSteps, on : BOOLEAN, expr : Exprs]
  BY <1>1, RequestOf, TypeParts
<1>3. CASE Answer(h) /\ cron' = None
  <2>1. Followed(h) => AsSaved'
    BY <1>1, <1>3 DEF Followed, AsSaved
  <2> QED
    BY <1>1, <1>3, <2>1, AnswerAgreed, TypeParts
<1>4. CASE Goto(h, "waiting") /\ UNCHANGED cron
  <2>1. /\ req'[h].step = "waiting" /\ req'[h].on = req[h].on /\ req'[h].expr = req[h].expr
        /\ \A o \in Handlers \ {h} : req'[o] = req[o]
    BY <1>2, <1>4 DEF Goto, TypeOK
  <2>2. Scheduling(h)' /\ (Followed(h) => Followed(h)')
    BY <1>1, <2>1 DEF Scheduling, ScheduleSteps, Followed
  <2> QED
    BY <1>1, <2>1, <2>2, GoesOnAgreed
<1> QED
  BY <1>1, <1>3, <1>4

LEMMA OutsideAgreed ==
  ASSUME TypeOK, Agreed,
         BeginSession \/ BeginRefresh \/ EndSession \/ \E p \in Pullers : Pulling(p)
  PROVE  Agreed'
<1>1. UNCHANGED <<req, cron, want, asked>> /\ (lost' = {} => lost = {})
  <2>1. ASSUME NEW p, Export(p) PROVE lost' = {} => lost = {}
    BY <2>1 DEF Export, Lose
  <2>2. ASSUME NEW p \in Pullers, Pulling(p)
        PROVE  UNCHANGED <<req, cron, want, asked>> /\ (lost' = {} => lost = {})
    BY <2>2 DEF Pulling, Fetch, Import, Lose, ghosts
  <2> QED
    BY <2>1, <2>2 DEF BeginSession, BeginRefresh, EndSession, ghosts
<1> QED
  BY <1>1, SameSchedule DEF Scheduling

\* The scheduler runs the schedule that was saved last: a request is followed from
\* its first statement to the call that tells the scheduler, and no pull, and no
\* other request, comes between.
THEOREM ScheduleRunsCorrect == Spec => []ScheduleRuns
<1>1. Init => Agreed
  BY DEF Init, Agreed, Alone, Following, AsSaved, Scheduling, ScheduleSteps, NoRequest
<1>2. TypeOK /\ Agreed /\ [Next]_vars => Agreed'
  <2> SUFFICES ASSUME TypeOK, Agreed, [Next]_vars PROVE Agreed'
    OBVIOUS
  <2>1. CASE UNCHANGED vars
    BY <2>1, SameSchedule DEF vars, Scheduling
  <2>2. ASSUME NEW h \in Handlers, Schedule(h) PROVE Agreed'
    BY <2>2, SaveEnabledAgreed, SaveExprAgreed, AskAgreed, TellAgreed, StopAgreed DEF Schedule
  <2>3. CASE Restart
    BY <2>3 DEF Restart, Agreed, Alone, Following, AsSaved, Scheduling, ScheduleSteps, NoRequest
  <2> QED
    BY <2>1, <2>2, <2>3, EditAgreed, OutsideAgreed DEF Next
<1>3. Agreed => ScheduleRuns
  BY DEF Agreed, AsSaved, ScheduleRuns
<1> QED
  BY <1>1, <1>2, <1>3, SettingsTypeCorrect, PTL DEF Spec
=============================================================================
