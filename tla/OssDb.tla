-------------------------------- MODULE OssDb --------------------------------
(***************************************************************************)
(* The snapshot of the database in the bucket (internal/backup/            *)
(* db_backup.go): one snapshot is two objects, oss.db.enc and oss.db.iv,   *)
(* and every transfer of one of them may fail, have happened all the same  *)
(* or be the last before a crash.  A push keeps the previous pair as       *)
(* .bkup.enc and .bkup.iv under the minute of the day it runs in.          *)
(***************************************************************************)
EXTENDS Integers, FiniteSets

CONSTANTS
  Readers,    \* concurrent pulls, each of its own instance: two of one share their files
  Absent, Broken,
  KeepCount,  \* db_bkup_keep_count
  MaxPush, MaxMinute, MaxFaults  \* bounds: pushes, minutes, failures

ASSUME OssDbAssumption ==
  /\ {KeepCount, MaxMinute} \subseteq Nat \ {0} /\ {MaxPush, MaxFaults} \subseteq Nat
  /\ Absent \notin Nat /\ Broken \notin Nat /\ Absent # Broken

Minutes == 1..MaxMinute

VARIABLES
  enc, iv,          \* oss.db.enc and oss.db.iv: the push they come from, 0 for none
  archEnc, archIV,  \* the .bkup.enc and .bkup.iv of each minute
  push,             \* the locals of PushOSSDB
  pull,             \* the locals of PullOSSDB, for each reader
  latest,           \* the number of the last push that was begun
  clock,            \* the minute
  faults,           \* number of failures
  window, got,      \* history: what a pull could read, and what it read
  published,        \* history: the last push whose two objects are in the bucket
  crowded           \* history: an archive found its name taken

bucket == <<enc, iv, archEnc, archIV>>
history == <<window, got>>
vars == <<bucket, push, pull, latest, clock, faults, history, published, crowded>>

PushSteps == {"idle", "check", "fetch", "archiveEnc", "archiveIV", "enc", "iv", "cleanup", "prune"}
PullSteps == {"idle", "enc", "iv"}

NoPush == [step |-> "idle", minute |-> 1, prevEnc |-> 0, prevIV |-> 0]
NoPull == [step |-> "idle", enc |-> 0]

\* Types, and: the IV is uploaded after its object, never over another one.
TypeOK ==
  /\ enc \in Nat /\ iv \in Nat
  /\ archEnc \in [Minutes -> Nat] /\ archIV \in [Minutes -> Nat]
  /\ push \in [step : PushSteps, minute : Minutes, prevEnc : Nat, prevIV : Nat]
  /\ pull \in [Readers -> [step : PullSteps, enc : Nat]]
  /\ latest \in Nat /\ published \in Nat
  /\ clock \in Minutes /\ faults \in Nat /\ crowded \in BOOLEAN
  /\ window \in [Readers -> SUBSET (Nat \cup {Absent, Broken})]
  /\ got \in [Readers -> Nat \cup {Absent}]
  /\ push.step = "iv" => enc = latest

\* What a pull of the whole snapshot finds: DecryptFile refuses the IV of another push.
Snapshot(e, i) == IF e = 0 THEN Absent ELSE IF e = i THEN e ELSE Broken
Value == Snapshot(enc, iv)

Init ==
  /\ enc = 0 /\ iv = 0
  /\ archEnc = [m \in Minutes |-> 0] /\ archIV = [m \in Minutes |-> 0]
  /\ push = NoPush /\ pull = [r \in Readers |-> NoPull]
  /\ latest = 0 /\ clock = 1 /\ faults = 0
  /\ window = [r \in Readers |-> {}] /\ got = [r \in Readers |-> Absent]
  /\ published = 0 /\ crowded = FALSE

Fault == faults < MaxFaults /\ faults' = faults + 1
NoFault == UNCHANGED faults

\* Every pull under way may see what the bucket holds after the step.
Seen == window' = [r \in Readers |-> IF window[r] = {} THEN {} ELSE window[r] \cup {Value'}]

GoTo(s) == push' = [push EXCEPT !.step = s]

-----------------------------------------------------------------------------
(* PushOSSDB. *)

\* Checkpoint, integrity check, copy and encryption under a fresh IV.
BeginPush ==
  /\ push.step = "idle" /\ latest < MaxPush
  /\ latest' = latest + 1
  /\ GoTo("check")
  /\ UNCHANGED <<bucket, pull, clock, faults, history, published, crowded>>

\* Mutant: the answer is taken the wrong way round.
CheckPreviousNegated ==
  /\ push.step = "check"
  /\ \/ push' = [push EXCEPT !.step = IF enc = 0 THEN "fetch" ELSE "enc", !.minute = clock]
        /\ NoFault
     \/ GoTo("enc") /\ Fault
  /\ UNCHANGED <<bucket, pull, latest, clock, history, published, crowded>>

\* Is there a snapshot to archive?  If that cannot be told, nothing is archived.
CheckPrevious ==
  /\ push.step = "check"
  /\ \/ push' = [push EXCEPT !.step = IF enc = 0 THEN "enc" ELSE "fetch", !.minute = clock]
        /\ NoFault
     \/ GoTo("enc") /\ Fault
  /\ UNCHANGED <<bucket, pull, latest, clock, history, published, crowded>>

\* archivePreviousOSSDB downloads both objects; any failure of the archive is
\* logged and the push goes on.
FetchPrevious ==
  /\ push.step = "fetch"
  /\ \/ /\ iv # 0
        /\ push' = [push EXCEPT !.step = "archiveEnc", !.prevEnc = enc, !.prevIV = iv]
        /\ NoFault
     \/ GoTo("enc") /\ (IF iv = 0 THEN NoFault ELSE Fault)
  /\ UNCHANGED <<bucket, pull, latest, clock, history, published, crowded>>

\* Upload does not overwrite what is there, unless its existence check fails.
Put(arch, version, failed) ==
  LET m == push.minute IN
  \/ ~failed /\ arch[m] # 0 /\ arch' = arch /\ NoFault
  \/ ~failed /\ arch[m] = 0 /\ arch' = [arch EXCEPT ![m] = version] /\ NoFault
  \/ ~failed /\ arch[m] # 0 /\ arch' = [arch EXCEPT ![m] = version] /\ Fault
  \/ failed /\ arch' \in {arch, [arch EXCEPT ![m] = version]} /\ Fault

ArchiveEnc ==
  /\ push.step = "archiveEnc"
  /\ \/ Put(archEnc, push.prevEnc, FALSE) /\ GoTo("archiveIV")
     \/ Put(archEnc, push.prevEnc, TRUE) /\ GoTo("enc")
  /\ crowded' = (crowded \/ archEnc[push.minute] # 0)
  /\ UNCHANGED <<enc, iv, archIV, pull, latest, clock, history, published>>

\* The IV of the archive; when it cannot be written, the .bkup.enc is deleted, if
\* that works.
ArchiveIV ==
  /\ push.step = "archiveIV" /\ GoTo("enc")
  /\ \/ Put(archIV, push.prevIV, FALSE) /\ UNCHANGED archEnc
     \/ /\ Put(archIV, push.prevIV, TRUE)
        /\ archEnc' \in {archEnc, [archEnc EXCEPT ![push.minute] = 0]}
  /\ UNCHANGED <<enc, iv, pull, latest, clock, history, published, crowded>>

\* Mutant: the push goes on when the upload failed.
UploadEncAnyway ==
  /\ push.step = "enc" /\ GoTo("iv")
  /\ \/ enc' = latest /\ NoFault
     \/ enc' \in {enc, latest} /\ Fault
  /\ UNCHANGED <<iv, archEnc, archIV, pull, latest, clock, got, published, crowded>>
  /\ Seen

\* oss.db.enc is overwritten.  An upload that fails three times may have written it.
UploadEnc ==
  /\ push.step = "enc"
  /\ \/ enc' = latest /\ GoTo("iv") /\ NoFault
     \/ enc' \in {enc, latest} /\ push' = NoPush /\ Fault
  /\ UNCHANGED <<iv, archEnc, archIV, pull, latest, clock, got, published, crowded>>
  /\ Seen

\* Then oss.db.iv: from here on the new snapshot can be read.
UploadIV ==
  /\ push.step = "iv"
  /\ \/ iv' = latest /\ GoTo("prune") /\ published' = latest /\ NoFault
     \/ iv' \in {iv, latest} /\ GoTo("cleanup") /\ Fault /\ UNCHANGED published
  /\ UNCHANGED <<enc, archEnc, archIV, pull, latest, clock, got, crowded>>
  /\ Seen

\* Without its IV the new oss.db.enc is deleted - with the context that may be why
\* the upload failed, and nobody looks at the result.
DeleteOrphanedEnc ==
  /\ push.step = "cleanup" /\ push' = NoPush
  /\ enc' \in {0, enc}
  /\ UNCHANGED <<iv, archEnc, archIV, pull, latest, clock, faults, got, published, crowded>>
  /\ Seen

\* pruneBkupsKeys: all .bkup.enc but the KeepCount newest, with their IVs.
Listed == {m \in Minutes : archEnc[m] # 0}
Superseded == {m \in Listed : Cardinality({n \in Listed : n > m}) >= KeepCount}

PruneBkups ==
  /\ push.step = "prune" /\ push' = NoPush
  /\ \E E \in SUBSET Superseded : \E I \in SUBSET Superseded :  \* those whose deletion works
       /\ archEnc' = [m \in Minutes |-> IF m \in E THEN 0 ELSE archEnc[m]]
       /\ archIV' = [m \in Minutes |-> IF m \in I THEN 0 ELSE archIV[m]]
       /\ IF E = Superseded /\ I = Superseded THEN NoFault ELSE Fault
  /\ UNCHANGED <<enc, iv, pull, latest, clock, history, published, crowded>>

-----------------------------------------------------------------------------
(* PullOSSDB. *)

\* OSSDBExists: without oss.db.enc there is nothing to pull.
BeginPull(r) ==
  /\ pull[r].step = "idle"
  /\ IF enc = 0
     THEN /\ got' = [got EXCEPT ![r] = Absent]
          /\ UNCHANGED <<pull, window>>
     ELSE /\ pull' = [pull EXCEPT ![r].step = "enc"]
          /\ window' = [window EXCEPT ![r] = {Value}]
          /\ UNCHANGED got
  /\ UNCHANGED <<bucket, push, latest, clock, faults, published, crowded>>

DownloadEnc(r) ==
  /\ pull[r].step = "enc" /\ enc # 0
  /\ pull' = [pull EXCEPT ![r] = [step |-> "iv", enc |-> enc]]
  /\ UNCHANGED <<bucket, push, latest, clock, faults, history, published, crowded>>

\* Mutant: the IV is not compared with the nonce of the object.
DecryptWithAnyIV(r) ==
  /\ pull[r].step = "iv" /\ iv # 0
  /\ got' = [got EXCEPT ![r] = pull[r].enc]
  /\ pull' = [pull EXCEPT ![r] = NoPull] /\ window' = [window EXCEPT ![r] = {}]
  /\ UNCHANGED <<bucket, push, latest, clock, faults, published, crowded>>

\* The IV is downloaded, the snapshot decrypted and moved over the local database.
DownloadIV(r) ==
  /\ pull[r].step = "iv" /\ iv = pull[r].enc
  /\ got' = [got EXCEPT ![r] = pull[r].enc]
  /\ pull' = [pull EXCEPT ![r] = NoPull] /\ window' = [window EXCEPT ![r] = {}]
  /\ UNCHANGED <<bucket, push, latest, clock, faults, published, crowded>>

\* A check or download fails, an object is missing, the IV is of another push.
PullFails(r) ==
  /\ pull[r].step # "idle"
  /\ pull' = [pull EXCEPT ![r] = NoPull] /\ window' = [window EXCEPT ![r] = {}]
  /\ UNCHANGED <<bucket, push, latest, clock, faults, got, published, crowded>>

-----------------------------------------------------------------------------

Tick ==
  /\ clock < MaxMinute /\ clock' = clock + 1
  /\ UNCHANGED <<bucket, push, pull, latest, faults, history, published, crowded>>

\* The process dies: the objects stay as they are.
Crash ==
  /\ push.step # "idle" /\ Fault
  /\ push' = NoPush /\ pull' = [r \in Readers |-> NoPull]
  /\ window' = [r \in Readers |-> {}]
  /\ UNCHANGED <<bucket, latest, clock, got, published, crowded>>

Push ==
  \/ BeginPush \/ CheckPrevious \/ FetchPrevious \/ ArchiveEnc \/ ArchiveIV
  \/ UploadEnc \/ UploadIV \/ DeleteOrphanedEnc \/ PruneBkups

Pull(r) == BeginPull(r) \/ DownloadEnc(r) \/ DownloadIV(r) \/ PullFails(r)

Next == Push \/ (\E r \in Readers : Pull(r)) \/ Tick \/ Crash

Spec == Init /\ [][Next]_vars

-----------------------------------------------------------------------------
(* Properties. *)

\* The pair of objects behaves as the register: it never goes back to an older
\* version, changes only while a push is under way, and a pull gives the version
\* that was whole at one moment while it ran - never one that is half replaced,
\* although it reads the two objects at different times.
Register == INSTANCE SnapshotRegister WITH value <- Value, open <- push.step # "idle"
IsRegister == Register!Spec

\* The versions that can be read, now or after renaming an archive.
Copies == {Snapshot(enc, iv)} \cup {Snapshot(archEnc[m], archIV[m]) : m \in Minutes}

\* Between pushes, after one failure or crash anywhere, there is a readable copy at
\* least as new as the last snapshot that was published, as long as no two pushes
\* archive in the same minute: the archive covers for the two uploads.
NothingLost ==
  push.step = "idle" /\ faults <= 1 /\ ~crowded /\ published # 0
    => \E v \in Copies \ {Absent, Broken} : v >= published
=============================================================================
