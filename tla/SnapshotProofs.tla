--------------------------- MODULE SnapshotProofs ---------------------------
(***************************************************************************)
(* Theorems about the snapshot in the bucket, for every number of pushes,  *)
(* minutes and failures and every set of concurrent pulls: its two objects *)
(* behave as the register SnapshotRegister describes, and the archive      *)
(* covers for them while they do not match.                                *)
(***************************************************************************)
EXTENDS OssDb, TLAPS

\* A push under way is numbered.
Numbered == push.step # "idle" => latest # 0

\* What the bucket holds is among what a pull under way may read.
Watched ==
  \A r \in Readers : /\ (window[r] = {}) = (pull[r].step = "idle")
                     /\ window[r] # {} => Value \in window[r]

\* A pull whose IV matches the object it has downloaded has seen the whole snapshot.
Matched ==
  \A r \in Readers :
    pull[r].step = "iv" =>
      pull[r].enc # 0 /\ (iv = pull[r].enc => pull[r].enc \in window[r])

Inv == TypeOK /\ Numbered /\ Watched /\ Matched

USE DEF Minutes, PushSteps, PullSteps, NoPush, NoPull

LEMMA ValueType ==
  ASSUME NEW e \in Nat, NEW i \in Nat
  PROVE  Snapshot(e, i) \in {e, Broken, Absent} /\ Snapshot(e, i) \in Nat \cup {Absent, Broken}
BY DEF Snapshot

LEMMA InitInv == Init => Inv
<1> SUFFICES ASSUME Init PROVE Inv
  OBVIOUS
<1>1. 1 \in Minutes
  BY OssDbAssumption DEF Init
<1> QED
  BY <1>1 DEF Init, Inv, TypeOK, Numbered, Watched, Matched

-----------------------------------------------------------------------------
(* Steps that leave the two objects and the pulls alone. *)

aside == <<enc, iv, pull, latest, window, got>>

LEMMA AsideInv ==
  ASSUME Inv, TypeOK', UNCHANGED aside, push.step = "idle" => push'.step = "idle"
  PROVE  Inv'
BY DEF Inv, aside, Numbered, Watched, Matched, Value

LEMMA FaultType ==
  ASSUME TypeOK, Fault \/ NoFault
  PROVE  faults' \in Nat
BY DEF TypeOK, Fault, NoFault

\* The archive stays a function of the minutes.
LEMMA PutEncType ==
  ASSUME TypeOK, NEW failed \in BOOLEAN, Put(archEnc, push.prevEnc, failed)
  PROVE  archEnc' \in [Minutes -> Nat] /\ faults' \in Nat
<1>1. push.minute \in Minutes /\ push.prevEnc \in Nat /\ archEnc \in [Minutes -> Nat]
  BY DEF TypeOK
<1>2. \/ archEnc' = archEnc
      \/ archEnc' = [archEnc EXCEPT ![push.minute] = push.prevEnc]
  BY DEF Put
<1>3. Fault \/ NoFault
  BY DEF Put
<1> QED
  BY <1>1, <1>2, <1>3, FaultType

LEMMA PutIVType ==
  ASSUME TypeOK, NEW failed \in BOOLEAN, Put(archIV, push.prevIV, failed)
  PROVE  archIV' \in [Minutes -> Nat] /\ faults' \in Nat
<1>1. push.minute \in Minutes /\ push.prevIV \in Nat /\ archIV \in [Minutes -> Nat]
  BY DEF TypeOK
<1>2. \/ archIV' = archIV
      \/ archIV' = [archIV EXCEPT ![push.minute] = push.prevIV]
  BY DEF Put
<1>3. Fault \/ NoFault
  BY DEF Put
<1> QED
  BY <1>1, <1>2, <1>3, FaultType

LEMMA CheckPreviousInv == Inv /\ CheckPrevious => Inv'
<1> SUFFICES ASSUME Inv, CheckPrevious PROVE Inv'
  OBVIOUS
<1>1. push' \in [step : PushSteps, minute : Minutes, prevEnc : Nat, prevIV : Nat]
  BY DEF Inv, TypeOK, CheckPrevious, GoTo
<1>2. push'.step \in {"fetch", "enc"} /\ UNCHANGED aside
  BY DEF Inv, TypeOK, CheckPrevious, GoTo, aside, bucket, history
<1>3. TypeOK'
  BY <1>1, <1>2, FaultType DEF Inv, TypeOK, CheckPrevious, bucket, history, aside
<1> QED
  BY <1>2, <1>3, AsideInv DEF CheckPrevious

LEMMA FetchPreviousInv == Inv /\ FetchPrevious => Inv'
<1> SUFFICES ASSUME Inv, FetchPrevious PROVE Inv'
  OBVIOUS
<1>1. push' \in [step : PushSteps, minute : Minutes, prevEnc : Nat, prevIV : Nat]
  BY DEF Inv, TypeOK, FetchPrevious, GoTo
<1>2. push'.step \in {"archiveEnc", "enc"} /\ UNCHANGED aside
  BY DEF Inv, TypeOK, FetchPrevious, GoTo, aside, bucket, history
<1>3. faults' \in Nat
  BY FaultType DEF Inv, FetchPrevious
<1>4. TypeOK'
  BY <1>1, <1>2, <1>3 DEF Inv, TypeOK, FetchPrevious, bucket, history, aside
<1> QED
  BY <1>2, <1>4, AsideInv DEF FetchPrevious

LEMMA ArchiveEncInv == Inv /\ ArchiveEnc => Inv'
<1> SUFFICES ASSUME Inv, ArchiveEnc PROVE Inv'
  OBVIOUS
<1>1. push' \in [step : PushSteps, minute : Minutes, prevEnc : Nat, prevIV : Nat]
  BY DEF Inv, TypeOK, ArchiveEnc, GoTo
<1>2. push'.step \in {"archiveIV", "enc"} /\ UNCHANGED aside
  BY DEF Inv, TypeOK, ArchiveEnc, GoTo, aside, history
<1>3. archEnc' \in [Minutes -> Nat] /\ faults' \in Nat
  BY PutEncType DEF Inv, ArchiveEnc
<1>4. crowded' \in BOOLEAN
  BY DEF Inv, TypeOK, ArchiveEnc
<1>5. TypeOK'
  BY <1>1, <1>2, <1>3, <1>4 DEF Inv, TypeOK, ArchiveEnc, history, aside
<1> QED
  BY <1>2, <1>5, AsideInv DEF ArchiveEnc

LEMMA ArchiveIVInv == Inv /\ ArchiveIV => Inv'
<1> SUFFICES ASSUME Inv, ArchiveIV PROVE Inv'
  OBVIOUS
<1>1. push' \in [step : PushSteps, minute : Minutes, prevEnc : Nat, prevIV : Nat]
  BY DEF Inv, TypeOK, ArchiveIV, GoTo
<1>2. push'.step = "enc" /\ UNCHANGED aside
  BY DEF Inv, TypeOK, ArchiveIV, GoTo, aside, history
<1>3. archIV' \in [Minutes -> Nat] /\ faults' \in Nat
  BY PutIVType DEF Inv, ArchiveIV
<1>4. archEnc' \in [Minutes -> Nat]
  <2>1. push.minute \in Minutes /\ archEnc \in [Minutes -> Nat]
    BY DEF Inv, TypeOK
  <2>2. archEnc' = archEnc \/ archEnc' = [archEnc EXCEPT ![push.minute] = 0]
    BY DEF ArchiveIV
  <2> QED
    BY <2>1, <2>2
<1>5. TypeOK'
  BY <1>1, <1>2, <1>3, <1>4 DEF Inv, TypeOK, ArchiveIV, history, aside
<1> QED
  BY <1>2, <1>5, AsideInv DEF ArchiveIV

LEMMA PruneInv == Inv /\ PruneBkups => Inv'
<1> SUFFICES ASSUME Inv, PruneBkups PROVE Inv'
  OBVIOUS
<1>1. push' = NoPush /\ UNCHANGED aside
  BY DEF PruneBkups, aside, history
<1>2. archEnc' \in [Minutes -> Nat] /\ archIV' \in [Minutes -> Nat]
  <2>1. PICK E \in SUBSET Superseded, G \in SUBSET Superseded :
          /\ archEnc' = [m \in Minutes |-> IF m \in E THEN 0 ELSE archEnc[m]]
          /\ archIV' = [m \in Minutes |-> IF m \in G THEN 0 ELSE archIV[m]]
    BY DEF PruneBkups
  <2> QED
    BY <2>1 DEF Inv, TypeOK
<1>3. faults' \in Nat
  BY FaultType DEF Inv, PruneBkups
<1>4. 1 \in Minutes
  BY OssDbAssumption
<1>5. TypeOK'
  BY <1>1, <1>2, <1>3, <1>4 DEF Inv, TypeOK, PruneBkups, history, aside
<1> QED
  BY <1>1, <1>5, AsideInv

LEMMA TickInv == Inv /\ Tick => Inv'
<1> SUFFICES ASSUME Inv, Tick PROVE Inv'
  OBVIOUS
<1>1. clock' \in Minutes
  BY OssDbAssumption DEF Inv, TypeOK, Tick
<1>2. TypeOK' /\ UNCHANGED aside /\ push' = push
  BY <1>1 DEF Inv, TypeOK, Tick, aside, bucket, history
<1> QED
  BY <1>2, AsideInv

LEMMA BeginPushInv == Inv /\ BeginPush => Inv'
<1> SUFFICES ASSUME Inv, BeginPush PROVE Inv'
  OBVIOUS
<1>1. push' \in [step : PushSteps, minute : Minutes, prevEnc : Nat, prevIV : Nat]
      /\ push'.step = "check"
  BY DEF Inv, TypeOK, BeginPush, GoTo
<1>2. latest' \in Nat /\ latest' # 0
  BY DEF Inv, TypeOK, BeginPush
<1>3. TypeOK'
  BY <1>1, <1>2 DEF Inv, TypeOK, BeginPush, bucket, history
<1>4. Numbered'
  BY <1>2 DEF Numbered
<1>5. Watched' /\ Matched'
  BY DEF Inv, Watched, Matched, Value, BeginPush, bucket, history
<1> QED
  BY <1>3, <1>4, <1>5 DEF Inv

-----------------------------------------------------------------------------
(* Steps that change the snapshot. *)

\* What every pull under way sees.
LEMMA SeenInv ==
  ASSUME Inv, Seen, UNCHANGED pull, enc' \in Nat, iv' \in Nat
  PROVE  /\ Watched'
         /\ window' \in [Readers -> SUBSET (Nat \cup {Absent, Broken})]
         /\ \A r \in Readers : window[r] \subseteq window'[r]
<1>1. Value' \in Nat \cup {Absent, Broken}
  BY ValueType DEF Value
<1> QED
  BY <1>1 DEF Inv, TypeOK, Watched, Seen

LEMMA UploadEncInv == Inv /\ UploadEnc => Inv'
<1> SUFFICES ASSUME Inv, UploadEnc PROVE Inv'
  OBVIOUS
<1>1. push' \in [step : PushSteps, minute : Minutes, prevEnc : Nat, prevIV : Nat]
      /\ (push'.step = "iv" => enc' = latest)
  <2>1. CASE enc' = latest /\ GoTo("iv")
    BY <2>1 DEF Inv, TypeOK, GoTo
  <2>2. CASE push' = NoPush
    BY <2>2, OssDbAssumption
  <2> QED
    BY <2>1, <2>2 DEF UploadEnc
<1>2. enc' \in Nat /\ iv' = iv /\ latest' = latest /\ pull' = pull
  BY DEF Inv, TypeOK, UploadEnc
<1>3. faults' \in Nat
  BY FaultType DEF Inv, UploadEnc
<1>4. /\ Watched' /\ window' \in [Readers -> SUBSET (Nat \cup {Absent, Broken})]
      /\ \A r \in Readers : window[r] \subseteq window'[r]
  BY <1>2, SeenInv DEF UploadEnc, Inv, TypeOK
<1>5. TypeOK'
  BY <1>1, <1>2, <1>3, <1>4 DEF Inv, TypeOK, UploadEnc
<1>6. Numbered'
  BY <1>2 DEF Inv, TypeOK, Numbered, UploadEnc
<1>7. Matched'
  BY <1>2, <1>4 DEF Inv, Matched
<1> QED
  BY <1>4, <1>5, <1>6, <1>7 DEF Inv

LEMMA UploadIVInv == Inv /\ UploadIV => Inv'
<1> SUFFICES ASSUME Inv, UploadIV PROVE Inv'
  OBVIOUS
<1>1. push' \in [step : PushSteps, minute : Minutes, prevEnc : Nat, prevIV : Nat]
      /\ push'.step \in {"prune", "cleanup"}
  BY DEF Inv, TypeOK, UploadIV, GoTo
<1>2. iv' \in {iv, latest} /\ enc' = enc /\ latest' = latest /\ pull' = pull /\ enc = latest
      /\ latest # 0
  BY DEF Inv, TypeOK, UploadIV, Numbered
<1>3. faults' \in Nat
  BY FaultType DEF Inv, UploadIV
<1>4. /\ Watched' /\ window' \in [Readers -> SUBSET (Nat \cup {Absent, Broken})]
      /\ \A r \in Readers : window[r] \subseteq window'[r]
  BY <1>2, SeenInv DEF UploadIV, Inv, TypeOK
<1>5. published' \in Nat
  BY DEF Inv, TypeOK, UploadIV
<1>6. TypeOK'
  BY <1>1, <1>2, <1>3, <1>4, <1>5 DEF Inv, TypeOK, UploadIV
<1>7. Numbered'
  BY <1>2 DEF Numbered
<1>8. Matched'
  <2> SUFFICES ASSUME NEW r \in Readers, pull[r].step = "iv"
               PROVE  pull[r].enc # 0
                        /\ (iv' = pull[r].enc => pull[r].enc \in window'[r])
    BY <1>2 DEF Matched
  <2>1. pull[r].enc # 0 /\ (iv = pull[r].enc => pull[r].enc \in window'[r])
    BY <1>4 DEF Inv, Matched
  <2>2. CASE iv' = latest
    <3>1. Value' = latest
      BY <1>2, <2>2 DEF Value, Snapshot
    <3>2. Value' \in window'[r]
      BY <1>2, <1>4 DEF Watched
    <3> QED
      BY <2>1, <2>2, <3>1, <3>2
  <2> QED
    BY <1>2, <2>1, <2>2
<1> QED
  BY <1>4, <1>6, <1>7, <1>8 DEF Inv

LEMMA DeleteOrphanedEncInv == Inv /\ DeleteOrphanedEnc => Inv'
<1> SUFFICES ASSUME Inv, DeleteOrphanedEnc PROVE Inv'
  OBVIOUS
<1>1. push' = NoPush /\ 1 \in Minutes
  BY OssDbAssumption DEF DeleteOrphanedEnc
<1>2. enc' \in Nat /\ iv' = iv /\ latest' = latest /\ pull' = pull
  BY DEF Inv, TypeOK, DeleteOrphanedEnc
<1>3. /\ Watched' /\ window' \in [Readers -> SUBSET (Nat \cup {Absent, Broken})]
      /\ \A r \in Readers : window[r] \subseteq window'[r]
  BY <1>2, SeenInv DEF DeleteOrphanedEnc, Inv, TypeOK
<1>4. TypeOK'
  BY <1>1, <1>2, <1>3 DEF Inv, TypeOK, DeleteOrphanedEnc
<1>5. Numbered' /\ Matched'
  BY <1>1, <1>2, <1>3 DEF Inv, Numbered, Matched
<1> QED
  BY <1>3, <1>4, <1>5 DEF Inv

LEMMA CrashInv == Inv /\ Crash => Inv'
<1> SUFFICES ASSUME Inv, Crash PROVE Inv'
  OBVIOUS
<1>1. push' = NoPush /\ pull' = [r \in Readers |-> NoPull] /\ window' = [r \in Readers |-> {}]
      /\ faults' \in Nat /\ 1 \in Minutes
  BY OssDbAssumption, FaultType DEF Inv, Crash
<1>2. TypeOK'
  BY <1>1 DEF Inv, TypeOK, Crash, bucket
<1> QED
  BY <1>1, <1>2 DEF Inv, Numbered, Watched, Matched

-----------------------------------------------------------------------------
(* Pulls. *)

LEMMA BeginPullInv ==
  ASSUME Inv, NEW r \in Readers, BeginPull(r)
  PROVE  Inv'
<1>1. Value \in Nat \cup {Absent, Broken}
  BY ValueType DEF Inv, TypeOK, Value
<1>2. Value' = Value
  BY DEF BeginPull, bucket, Value
<1>3. CASE enc = 0
  <2>1. got' = [got EXCEPT ![r] = Absent] /\ UNCHANGED <<pull, window>>
        /\ UNCHANGED <<bucket, push, latest, clock, faults, published, crowded>>
    BY <1>3 DEF BeginPull
  <2>2. TypeOK'
    BY <2>1 DEF Inv, TypeOK, bucket
  <2> QED
    BY <1>2, <2>1, <2>2 DEF Inv, Numbered, Watched, Matched, bucket
<1>4. CASE enc # 0
  <2>1. /\ pull' = [pull EXCEPT ![r].step = "enc"]
        /\ window' = [window EXCEPT ![r] = {Value}]
        /\ UNCHANGED <<bucket, push, latest, clock, faults, published, crowded, got>>
    BY <1>4 DEF BeginPull
  <2>2. pull'[r].step = "enc" /\ window'[r] = {Value}
        /\ \A o \in Readers \ {r} : pull'[o] = pull[o] /\ window'[o] = window[o]
    BY <2>1 DEF Inv, TypeOK
  <2>3. pull' \in [Readers -> [step : PullSteps, enc : Nat]]
    BY <2>1 DEF Inv, TypeOK
  <2>4. window' \in [Readers -> SUBSET (Nat \cup {Absent, Broken})]
    BY <1>1, <2>1 DEF Inv, TypeOK
  <2>5. TypeOK'
    BY <2>1, <2>3, <2>4 DEF Inv, TypeOK, bucket
  <2>6. Numbered' /\ Watched'
    BY <1>2, <2>1, <2>2 DEF Inv, Numbered, Watched
  <2>7. Matched'
    BY <2>1, <2>2 DEF Inv, Matched, bucket
  <2> QED
    BY <2>5, <2>6, <2>7 DEF Inv
<1> QED
  BY <1>3, <1>4

LEMMA DownloadEncInv ==
  ASSUME Inv, NEW r \in Readers, DownloadEnc(r)
  PROVE  Inv'
<1>1. Value' = Value
  BY DEF DownloadEnc, bucket, Value
<1>2. TypeOK'
  BY DEF Inv, TypeOK, DownloadEnc, bucket, history
<1>3. Numbered'
  BY DEF Inv, Numbered, DownloadEnc
<1>4. Watched'
  BY <1>1 DEF Inv, TypeOK, Watched, DownloadEnc, history
<1>5. enc # 0 /\ (iv = enc => enc \in window[r])
  BY DEF Inv, Watched, DownloadEnc, Value, Snapshot
<1>6. Matched'
  BY <1>5 DEF Inv, TypeOK, Matched, DownloadEnc, bucket, history
<1> QED
  BY <1>2, <1>3, <1>4, <1>6 DEF Inv

\* The end of a pull, whatever it answers.
LEMMA EndPullInv ==
  ASSUME Inv, NEW r \in Readers, DownloadIV(r) \/ PullFails(r)
  PROVE  Inv'
<1>1. /\ pull' = [pull EXCEPT ![r] = NoPull] /\ window' = [window EXCEPT ![r] = {}]
      /\ UNCHANGED <<bucket, push, latest, clock, faults, published, crowded>>
  BY DEF DownloadIV, PullFails
<1>2. got' \in [Readers -> Nat \cup {Absent}]
  BY DEF Inv, TypeOK, DownloadIV, PullFails
<1>3. TypeOK'
  BY <1>1, <1>2 DEF Inv, TypeOK, bucket
<1>4. Numbered' /\ Watched' /\ Matched'
  BY <1>1 DEF Inv, TypeOK, Numbered, Watched, Matched, bucket, Value
<1> QED
  BY <1>3, <1>4 DEF Inv

LEMMA NextInv == Inv /\ [Next]_vars => Inv'
<1> SUFFICES ASSUME Inv, [Next]_vars PROVE Inv'
  OBVIOUS
<1>1. CASE UNCHANGED vars
  BY <1>1 DEF vars, bucket, history, Inv, TypeOK, Numbered, Watched, Matched, Value
<1>2. CASE Push
  BY <1>2, BeginPushInv, CheckPreviousInv, FetchPreviousInv, ArchiveEncInv, ArchiveIVInv,
     UploadEncInv, UploadIVInv, DeleteOrphanedEncInv, PruneInv DEF Push
<1>3. CASE \E r \in Readers : Pull(r)
  BY <1>3, BeginPullInv, DownloadEncInv, EndPullInv DEF Pull
<1>4. CASE Tick \/ Crash
  BY <1>4, TickInv, CrashInv
<1> QED
  BY <1>1, <1>2, <1>3, <1>4 DEF Next

\* Every reachable state is well typed, and an IV is only uploaded over the object it
\* belongs to (db_backup.go, PushOSSDB), whatever fails and however many pulls run.
THEOREM SnapshotTypeCorrect == Spec => []TypeOK
<1>1. Inv => TypeOK
  BY DEF Inv
<1> QED
  BY InitInv, NextInv, <1>1, PTL DEF Spec

-----------------------------------------------------------------------------
(* The refinement. *)

\* Only the upload of the two objects and the deletion of an orphan change the
\* register, and each of them leaves the version being pushed, or nothing readable.
LEMMA WriteStep ==
  ASSUME Inv, Seen, UNCHANGED <<latest, got>>, push.step # "idle",
         Value' \in {latest, Broken, Absent}
  PROVE  Register!Write
<1>1. window' = [r \in Readers |->
                   IF Register!Reading(r) THEN window[r] \cup {Value'} ELSE {}]
  BY DEF Seen, Register!Reading
<1> QED
  BY <1>1 DEF Register!Write

\* A step of a push under way that does not change the two objects.
LEMMA IdleStep ==
  ASSUME Inv, UNCHANGED <<enc, iv, latest, window, got>>, push.step # "idle"
  PROVE  Register!End \/ UNCHANGED Register!regvars
BY DEF Register!End, Register!regvars, Value

\* Nobody sees a step that changes neither object.
LEMMA SeenNothing ==
  ASSUME Inv, Seen, UNCHANGED <<enc, iv>>
  PROVE  window' = window
<1>1. Value' = Value
  BY DEF Value
<1> QED
  BY <1>1 DEF Inv, TypeOK, Watched, Seen

LEMMA PushStep ==
  ASSUME Inv, Push
  PROVE  [Register!Next]_(Register!regvars)
<1>1. CASE BeginPush
  BY <1>1 DEF BeginPush, GoTo, bucket, history, Inv, TypeOK, Value,
     Register!Next, Register!Begin
<1>2. CASE CheckPrevious \/ FetchPrevious \/ ArchiveEnc \/ ArchiveIV \/ PruneBkups
  <2>1. UNCHANGED <<enc, iv, latest, window, got>> /\ push.step # "idle"
    BY <1>2 DEF CheckPrevious, FetchPrevious, ArchiveEnc, ArchiveIV, PruneBkups, bucket, history
  <2> QED
    BY <2>1, IdleStep DEF Register!Next
<1>3. CASE UploadEnc
  <2>1. CASE enc' = enc
    BY <1>3, <2>1, SeenNothing, IdleStep DEF UploadEnc, Register!Next
  <2>2. CASE enc' = latest
    <3>1. Value' \in {latest, Broken, Absent}
      BY <1>3, <2>2, ValueType DEF UploadEnc, Value, Inv, TypeOK
    <3> QED
      BY <1>3, <3>1, WriteStep DEF UploadEnc, Register!Next
  <2> QED
    BY <1>3, <2>1, <2>2 DEF UploadEnc
<1>4. CASE UploadIV
  <2>1. enc' = latest /\ iv' \in Nat
    BY <1>4 DEF UploadIV, Inv, TypeOK
  <2>2. Value' \in {latest, Broken, Absent}
    BY <2>1, ValueType DEF Value, Inv, TypeOK
  <2> QED
    BY <1>4, <2>2, WriteStep DEF UploadIV, Register!Next
<1>5. CASE DeleteOrphanedEnc
  <2>1. CASE enc' = enc
    BY <1>5, <2>1, SeenNothing, IdleStep DEF DeleteOrphanedEnc, Register!Next
  <2>2. CASE enc' = 0
    <3>1. Value' = Absent
      BY <2>2 DEF Value, Snapshot
    <3> QED
      BY <1>5, <3>1, WriteStep DEF DeleteOrphanedEnc, Register!Next
  <2> QED
    BY <1>5, <2>1, <2>2 DEF DeleteOrphanedEnc
<1> QED
  BY <1>1, <1>2, <1>3, <1>4, <1>5 DEF Push

LEMMA PullStep ==
  ASSUME Inv, NEW r \in Readers, Pull(r)
  PROVE  [Register!Next]_(Register!regvars)
<1>1. CASE BeginPull(r)
  <2>1. ~Register!Reading(r) /\ Value' = Value /\ UNCHANGED <<latest, push>>
    BY <1>1 DEF Inv, Watched, BeginPull, bucket, Value, Register!Reading
  <2>2. CASE enc = 0
    <3>1. Value = Absent /\ Absent # Broken
      BY <2>2, OssDbAssumption DEF Value, Snapshot
    <3> QED
      BY <1>1, <2>1, <2>2, <3>1 DEF BeginPull, Register!AnswerAtOnce, Register!Next
  <2>3. CASE enc # 0
    BY <1>1, <2>1, <2>3 DEF BeginPull, Register!Read, Register!Next
  <2> QED
    BY <2>2, <2>3
<1>2. CASE DownloadEnc(r)
  BY <1>2 DEF DownloadEnc, bucket, history, Register!regvars, Value
<1>3. CASE DownloadIV(r)
  <2>1. pull[r].enc \in window[r] \ {Broken}
    BY <1>3, OssDbAssumption DEF DownloadIV, Inv, TypeOK, Matched
  <2>2. Value' = Value /\ UNCHANGED <<push, latest>>
    BY <1>3 DEF DownloadIV, bucket, Value
  <2> QED
    BY <1>3, <2>1, <2>2 DEF DownloadIV, Register!Answer, Register!Next
<1>4. CASE PullFails(r)
  <2>1. Register!Reading(r) /\ Value' = Value /\ UNCHANGED <<push, latest>>
    BY <1>4 DEF PullFails, Inv, Watched, bucket, Value, Register!Reading
  <2> QED
    BY <1>4, <2>1 DEF PullFails, Register!Refuse, Register!Next
<1> QED
  BY <1>1, <1>2, <1>3, <1>4 DEF Pull

LEMMA RegisterStep == Inv /\ [Next]_vars => [Register!Next]_(Register!regvars)
<1> SUFFICES ASSUME Inv, [Next]_vars PROVE [Register!Next]_(Register!regvars)
  OBVIOUS
<1>1. CASE UNCHANGED vars \/ Tick
  BY <1>1 DEF vars, Tick, bucket, history, Register!regvars, Value
<1>2. CASE Crash
  BY <1>2 DEF Crash, bucket, Value, Register!Die, Register!Next
<1> QED
  BY <1>1, <1>2, PushStep, PullStep DEF Next

\* The two objects behave as the register: what a pull answers was readable, whole, at
\* one moment while it ran, and no push, failure or crash brings an older version back
\* (db_backup.go, PushOSSDB and PullOSSDB).
THEOREM SnapshotIsRegister == Spec => IsRegister
<1>1. Init => Register!Init
  BY DEF Init, Register!Init, Value, Snapshot
<1> QED
  BY <1>1, InitInv, NextInv, RegisterStep, PTL DEF Spec, IsRegister, Register!Spec
-----------------------------------------------------------------------------
(* The archive covers for the two uploads. *)

\* The pair in use, or the pair of some minute, is one snapshot, the published one
\* or a later one.
ReadableAt(m) == archEnc[m] = archIV[m] /\ archEnc[m] >= published
Current == enc = iv /\ enc >= published
Archived == \E m \in Minutes : ReadableAt(m)

\* Before the first failure the pair in use is the published one until a push
\* replaces it, which it does only with a copy of that pair in the archive.
Orderly ==
  /\ iv = published
  /\ push.step # "iv" => enc = published
  /\ push.step # "cleanup"
  /\ push.step \in {"fetch", "archiveEnc", "archiveIV"} => published # 0
  /\ push.step \in {"archiveEnc", "archiveIV"} => push.prevEnc = published /\ push.prevIV = published
  /\ \A m \in Minutes : archEnc[m] = 0 => archIV[m] = 0
  /\ push.step = "archiveIV" => archEnc[push.minute] = published /\ archIV[push.minute] = 0
  /\ push.step \in {"enc", "iv"} /\ published # 0 => Archived

\* After it a copy is left wherever a push may still end without a second one.
Covered ==
  /\ push.step \in {"idle", "check", "fetch", "archiveEnc", "enc"} => Current \/ Archived
  /\ push.step = "archiveIV" => Current \/ \E m \in Minutes \ {push.minute} : ReadableAt(m)
  /\ push.step = "cleanup" => Archived
  /\ push.step = "prune" => Current

Guarded ==
  /\ faults = 0 /\ ~crowded => Orderly
  /\ faults <= 1 /\ ~crowded /\ published # 0 => Covered

LEMMA FaultCount ==
  ASSUME TypeOK, Fault \/ NoFault
  PROVE  /\ faults' \in {faults, faults + 1} /\ faults \in Nat
         /\ NoFault => faults' = faults
         /\ Fault => faults' # 0
BY DEF TypeOK, Fault, NoFault

\* A step that leaves both pairs alone.
LEMMA ArchiveStays ==
  ASSUME UNCHANGED <<bucket, published>>
  PROVE  (Archived <=> Archived') /\ (Current <=> Current') /\ (\A m : ReadableAt(m) <=> ReadableAt(m)')
BY DEF Archived, Current, ReadableAt, bucket

LEMMA CheckPreviousGuarded == TypeOK /\ Guarded /\ CheckPrevious => Guarded'
<1> SUFFICES ASSUME TypeOK, Guarded, CheckPrevious PROVE Guarded'
  OBVIOUS
<1>1. /\ push.step = "check" /\ UNCHANGED <<bucket, published, crowded>> /\ (Fault \/ NoFault)
      /\ push'.step \in {"enc", "fetch"}
      /\ push'.step = "fetch" => enc # 0
      /\ push'.step = "enc" => enc = 0 \/ Fault
  BY DEF CheckPrevious, GoTo, TypeOK
<1>2. faults' \in {faults, faults + 1} /\ faults \in Nat /\ (NoFault => faults' = faults) /\ (Fault => faults' # 0)
  BY <1>1, FaultCount
<1>3. (Archived <=> Archived') /\ (Current <=> Current')
  BY <1>1, ArchiveStays
<1>4. Orderly => Current
  BY <1>1 DEF Orderly, Current, TypeOK
<1>5. ASSUME faults' = 0, ~crowded' PROVE Orderly'
  BY <1>1, <1>2, <1>5 DEF Guarded, Orderly, bucket
<1>6. ASSUME faults' <= 1, ~crowded', published' # 0 PROVE Covered'
  BY <1>1, <1>2, <1>3, <1>6 DEF Guarded, Covered
<1> QED
  BY <1>5, <1>6 DEF Guarded

LEMMA FetchPreviousGuarded == TypeOK /\ Guarded /\ FetchPrevious => Guarded'
<1> SUFFICES ASSUME TypeOK, Guarded, FetchPrevious PROVE Guarded'
  OBVIOUS
<1>1. /\ push.step = "fetch" /\ UNCHANGED <<bucket, published, crowded>> /\ (Fault \/ NoFault)
      /\ push'.step \in {"enc", "archiveEnc"}
      /\ push'.step = "archiveEnc" => push'.prevEnc = enc /\ push'.prevIV = iv
      /\ push'.step = "enc" => iv = 0 \/ Fault
  BY DEF FetchPrevious, GoTo, TypeOK
<1>2. faults' \in {faults, faults + 1} /\ faults \in Nat /\ (NoFault => faults' = faults) /\ (Fault => faults' # 0)
  BY <1>1, FaultCount
<1>3. (Archived <=> Archived') /\ (Current <=> Current')
  BY <1>1, ArchiveStays
<1>4. ASSUME faults' = 0, ~crowded' PROVE Orderly'
  BY <1>1, <1>2, <1>4 DEF Guarded, Orderly, bucket
<1>5. ASSUME faults' <= 1, ~crowded', published' # 0 PROVE Covered'
  BY <1>1, <1>2, <1>3, <1>5 DEF Guarded, Covered
<1> QED
  BY <1>4, <1>5 DEF Guarded

LEMMA ArchiveEncGuarded == TypeOK /\ Guarded /\ ArchiveEnc => Guarded'
<1> SUFFICES ASSUME TypeOK, Guarded, ArchiveEnc, ~crowded' PROVE Guarded'
  BY DEF Guarded
<1>1. /\ push.step = "archiveEnc" /\ UNCHANGED <<enc, iv, archIV, published>> /\ ~crowded
      /\ push.minute \in Minutes /\ archEnc[push.minute] = 0 /\ archEnc \in [Minutes -> Nat]
      /\ push'.minute = push.minute /\ push'.prevEnc = push.prevEnc /\ push'.prevIV = push.prevIV
      /\ push'.step \in {"archiveIV", "enc"}
  BY DEF ArchiveEnc, GoTo, TypeOK
<1>2. /\ Fault \/ NoFault
      /\ archEnc' \in {archEnc, [archEnc EXCEPT ![push.minute] = push.prevEnc]}
      /\ NoFault => /\ push'.step = "archiveIV"
                    /\ archEnc' = [archEnc EXCEPT ![push.minute] = push.prevEnc]
  BY <1>1 DEF ArchiveEnc, Put, GoTo, TypeOK, Fault, NoFault
<1>3. faults' \in {faults, faults + 1} /\ faults \in Nat /\ (NoFault => faults' = faults) /\ (Fault => faults' # 0)
  BY <1>2, FaultCount
<1>4. /\ \A m \in Minutes \ {push.minute} : archEnc'[m] = archEnc[m] /\ (ReadableAt(m) <=> ReadableAt(m)')
      /\ published # 0 => ~ReadableAt(push.minute)
      /\ Current <=> Current'
  <2>1. \A m \in Minutes \ {push.minute} : archEnc'[m] = archEnc[m]
    BY <1>1, <1>2
  <2>2. published # 0 => ~(0 >= published)
    BY DEF TypeOK
  <2> QED
    BY <1>1, <2>1, <2>2 DEF ReadableAt, Current
<1>5. ASSUME faults' = 0 PROVE Orderly'
  BY <1>1, <1>2, <1>3, <1>4, <1>5 DEF Guarded, Orderly
<1>6. ASSUME faults' <= 1, published' # 0 PROVE Covered'
  BY <1>1, <1>3, <1>4, <1>6 DEF Guarded, Covered, Archived
<1> QED
  BY <1>5, <1>6 DEF Guarded

LEMMA ArchiveIVGuarded == TypeOK /\ Guarded /\ ArchiveIV => Guarded'
<1> SUFFICES ASSUME TypeOK, Guarded, ArchiveIV PROVE Guarded'
  OBVIOUS
<1>1. /\ push.step = "archiveIV" /\ UNCHANGED <<enc, iv, published, crowded>>
      /\ push.minute \in Minutes /\ archEnc \in [Minutes -> Nat] /\ archIV \in [Minutes -> Nat]
      /\ push'.minute = push.minute /\ push'.step = "enc"
  BY DEF ArchiveIV, GoTo, TypeOK
<1>2. /\ Fault \/ NoFault
      /\ archIV' \in {archIV, [archIV EXCEPT ![push.minute] = push.prevIV]}
      /\ archEnc' \in {archEnc, [archEnc EXCEPT ![push.minute] = 0]}
      /\ NoFault /\ archIV[push.minute] = 0 =>
           archEnc' = archEnc /\ archIV' = [archIV EXCEPT ![push.minute] = push.prevIV]
  <2>1. \/ Put(archIV, push.prevIV, FALSE) /\ UNCHANGED archEnc
        \/ /\ Put(archIV, push.prevIV, TRUE)
           /\ archEnc' \in {archEnc, [archEnc EXCEPT ![push.minute] = 0]}
    BY DEF ArchiveIV
  <2>2. \A b \in BOOLEAN : Put(archIV, push.prevIV, b) =>
          /\ Fault \/ NoFault
          /\ archIV' \in {archIV, [archIV EXCEPT ![push.minute] = push.prevIV]}
          /\ NoFault /\ archIV[push.minute] = 0 =>
               ~b /\ archIV' = [archIV EXCEPT ![push.minute] = push.prevIV]
    BY DEF Put, TypeOK, Fault, NoFault
  <2> QED
    BY <2>1, <2>2
<1>3. faults' \in {faults, faults + 1} /\ faults \in Nat /\ (NoFault => faults' = faults) /\ (Fault => faults' # 0)
  BY <1>2, FaultCount
<1>4. /\ \A m \in Minutes \ {push.minute} : ReadableAt(m) <=> ReadableAt(m)'
      /\ \A m \in Minutes \ {push.minute} : archEnc'[m] = archEnc[m] /\ archIV'[m] = archIV[m]
      /\ Current <=> Current'
  BY <1>1, <1>2 DEF ReadableAt, Current
<1>5. ASSUME faults' = 0, ~crowded' PROVE Orderly'
  <2>1. Orderly /\ NoFault /\ archEnc' = archEnc /\ archIV' = [archIV EXCEPT ![push.minute] = push.prevIV]
    BY <1>1, <1>2, <1>3, <1>5 DEF Guarded, Orderly
  <2>2. ReadableAt(push.minute)'
    BY <1>1, <2>1 DEF ReadableAt, Orderly, TypeOK
  <2>3. Archived'
    BY <1>1, <2>2 DEF Archived
  <2> QED
    BY <1>1, <2>1, <2>3 DEF Orderly
<1>6. ASSUME faults' <= 1, ~crowded', published' # 0 PROVE Covered'
  BY <1>1, <1>3, <1>4, <1>6 DEF Guarded, Covered, Archived
<1> QED
  BY <1>5, <1>6 DEF Guarded

LEMMA UploadEncGuarded == TypeOK /\ Guarded /\ UploadEnc => Guarded'
<1> SUFFICES ASSUME TypeOK, Guarded, UploadEnc PROVE Guarded'
  OBVIOUS
<1>1. /\ push.step = "enc" /\ UNCHANGED <<iv, archEnc, archIV, published, crowded>> /\ (Fault \/ NoFault)
      /\ \/ push'.step = "iv" /\ NoFault
         \/ push'.step = "idle" /\ Fault
  BY DEF UploadEnc, GoTo, TypeOK
<1>2. faults' \in {faults, faults + 1} /\ faults \in Nat /\ (NoFault => faults' = faults)
      /\ (Fault => faults' = faults + 1)
  BY <1>1, FaultCount DEF Fault
<1>3. Archived <=> Archived'
  BY <1>1 DEF Archived, ReadableAt
<1>4. ASSUME faults' = 0, ~crowded' PROVE Orderly'
  BY <1>1, <1>2, <1>3, <1>4 DEF Guarded, Orderly
<1>5. ASSUME faults' <= 1, ~crowded', published' # 0 PROVE Covered'
  BY <1>1, <1>2, <1>3, <1>5 DEF Guarded, Covered, Orderly
<1> QED
  BY <1>4, <1>5 DEF Guarded

LEMMA UploadIVGuarded == TypeOK /\ Guarded /\ UploadIV => Guarded'
<1> SUFFICES ASSUME TypeOK, Guarded, UploadIV PROVE Guarded'
  OBVIOUS
<1>1. /\ push.step = "iv" /\ enc = latest /\ UNCHANGED <<enc, archEnc, archIV, crowded>> /\ (Fault \/ NoFault)
      /\ \/ push'.step = "prune" /\ NoFault /\ iv' = latest /\ published' = latest
         \/ push'.step = "cleanup" /\ Fault /\ published' = published
  BY DEF UploadIV, GoTo, TypeOK
<1>2. faults' \in {faults, faults + 1} /\ faults \in Nat /\ (NoFault => faults' = faults)
      /\ (Fault => faults' = faults + 1)
  BY <1>1, FaultCount DEF Fault
<1>3. ASSUME faults' = 0, ~crowded' PROVE Orderly'
  BY <1>1, <1>2, <1>3 DEF Guarded, Orderly
<1>4. ASSUME faults' <= 1, ~crowded', published' # 0 PROVE Covered'
  <2>1. CASE push'.step = "prune"
    <3>1. Current'
      BY <1>1, <2>1 DEF Current, TypeOK
    <3> QED
      BY <2>1, <3>1 DEF Covered
  <2>2. CASE push'.step = "cleanup"
    <3>1. Archived
      BY <1>1, <1>2, <1>4, <2>2 DEF Guarded, Orderly
    <3>2. Archived'
      BY <1>1, <2>2, <3>1 DEF Archived, ReadableAt
    <3> QED
      BY <2>2, <3>2 DEF Covered
  <2> QED
    BY <1>1, <2>1, <2>2
<1> QED
  BY <1>3, <1>4 DEF Guarded

LEMMA OtherStepsGuarded ==
  TypeOK /\ Guarded /\ (BeginPush \/ DeleteOrphanedEnc \/ PruneBkups \/ Crash) => Guarded'
<1> SUFFICES ASSUME TypeOK, Guarded PROVE BeginPush \/ DeleteOrphanedEnc \/ PruneBkups \/ Crash => Guarded'
  OBVIOUS
<1>1. CASE BeginPush
  <2>1. push.step = "idle" /\ push'.step = "check" /\ UNCHANGED <<bucket, published, crowded, faults>>
    BY <1>1 DEF BeginPush, GoTo, TypeOK
  <2>2. (Archived <=> Archived') /\ (Current <=> Current')
    BY <2>1, ArchiveStays
  <2> QED
    BY <2>1, <2>2 DEF Guarded, Orderly, Covered, bucket
<1>2. CASE DeleteOrphanedEnc
  <2>1. /\ push.step = "cleanup" /\ push'.step = "idle"
        /\ UNCHANGED <<archEnc, archIV, published, crowded, faults>>
    BY <1>2 DEF DeleteOrphanedEnc
  <2>2. Archived <=> Archived'
    BY <2>1 DEF Archived, ReadableAt
  <2> QED
    BY <2>1, <2>2 DEF Guarded, Orderly, Covered
<1>3. CASE PruneBkups
  <2>1. /\ push.step = "prune" /\ push'.step = "idle" /\ UNCHANGED <<enc, iv, published, crowded>>
        /\ Fault \/ NoFault
    BY <1>3 DEF PruneBkups
  <2>2. faults' \in {faults, faults + 1} /\ faults \in Nat /\ (Fault => faults' # 0)
    BY <2>1, FaultCount
  <2>3. ASSUME faults' = 0, ~crowded' PROVE Orderly'
    <3>1. archEnc' = [m \in Minutes |-> IF m \in Superseded THEN 0 ELSE archEnc[m]]
          /\ archIV' = [m \in Minutes |-> IF m \in Superseded THEN 0 ELSE archIV[m]]
      BY <1>3, <2>2, <2>3 DEF PruneBkups
    <3>2. Orderly
      BY <2>1, <2>2, <2>3 DEF Guarded
    <3>3. \A m \in Minutes : archEnc'[m] = 0 => archIV'[m] = 0
      BY <3>1, <3>2 DEF Orderly
    <3> QED
      BY <2>1, <3>2, <3>3 DEF Orderly
  <2>4. ASSUME faults' <= 1, ~crowded', published' # 0 PROVE Covered'
    BY <2>1, <2>2, <2>4 DEF Guarded, Covered, Current
  <2> QED
    BY <2>3, <2>4 DEF Guarded
<1>4. CASE Crash
  <2>1. /\ push.step # "idle" /\ push'.step = "idle" /\ UNCHANGED <<bucket, published, crowded>>
        /\ faults' = faults + 1 /\ faults \in Nat
    BY <1>4 DEF Crash, Fault, TypeOK
  <2>2. (Archived <=> Archived') /\ (Current <=> Current')
    BY <2>1, ArchiveStays
  <2>3. Orderly /\ published # 0 => Current \/ Archived
    BY DEF Orderly, Current, TypeOK
  <2>4. ASSUME faults' <= 1, ~crowded', published' # 0 PROVE Covered'
    BY <2>1, <2>2, <2>3, <2>4 DEF Guarded, Covered
  <2> QED
    BY <2>1, <2>4 DEF Guarded
<1> QED
  BY <1>1, <1>2, <1>3, <1>4

LEMMA NextGuarded == TypeOK /\ Guarded /\ [Next]_vars => Guarded'
<1> SUFFICES ASSUME TypeOK, Guarded, [Next]_vars PROVE Guarded'
  OBVIOUS
<1>1. ASSUME UNCHANGED <<bucket, push, faults, published, crowded>> PROVE Guarded'
  BY <1>1, ArchiveStays DEF Guarded, Orderly, Covered, bucket
<1>2. CASE Tick \/ UNCHANGED vars
  BY <1>1, <1>2 DEF Tick, vars
<1>3. ASSUME NEW r \in Readers, Pull(r) PROVE Guarded'
  BY <1>1, <1>3 DEF Pull, BeginPull, DownloadEnc, DownloadIV, PullFails
<1> QED
  BY <1>2, <1>3, CheckPreviousGuarded, FetchPreviousGuarded, ArchiveEncGuarded, ArchiveIVGuarded,
     UploadEncGuarded, UploadIVGuarded, OtherStepsGuarded DEF Next, Push

\* Between pushes, after one failure or crash anywhere in a push, and unless two pushes
\* shared a minute, a copy at least as new as the published snapshot can still be read:
\* the archive that PushOSSDB makes before it overwrites covers for its two uploads.
THEOREM ArchiveCovers == Spec => []NothingLost
<1>1. Init => Guarded
  BY DEF Init, Guarded, Orderly, Covered, Current
<1>2. Inv /\ Guarded => NothingLost
  <2> SUFFICES ASSUME Inv, Guarded, push.step = "idle", faults <= 1, ~crowded, published # 0
               PROVE  \E v \in Copies \ {Absent, Broken} : v >= published
    BY DEF NothingLost
  <2>1. published \in Nat /\ enc \in Nat /\ \A m \in Minutes : archEnc[m] \in Nat
    BY DEF Inv, TypeOK
  <2>2. CASE Current
    <3>1. enc # 0 /\ Snapshot(enc, iv) = enc
      BY <2>1, <2>2 DEF Current, Snapshot
    <3>2. enc \in Copies \ {Absent, Broken} /\ enc >= published
      BY <2>1, <2>2, <3>1, OssDbAssumption DEF Copies, Current
    <3> QED
      BY <3>2
  <2>3. CASE Archived
    <3>1. PICK m \in Minutes : archEnc[m] = archIV[m] /\ archEnc[m] >= published
      BY <2>3 DEF Archived, ReadableAt
    <3>2. Snapshot(archEnc[m], archIV[m]) = archEnc[m]
      BY <2>1, <3>1 DEF Snapshot
    <3>3. archEnc[m] \in Copies \ {Absent, Broken}
      BY <2>1, <3>2, OssDbAssumption DEF Copies
    <3> QED
      BY <3>1, <3>3
  <2> QED
    BY <2>2, <2>3 DEF Guarded, Covered
<1>3. Inv => TypeOK
  BY DEF Inv
<1> QED
  BY <1>1, <1>2, <1>3, InitInv, NextInv, NextGuarded, PTL DEF Spec
=============================================================================
