------------------------------ MODULE Restorer ------------------------------
(***************************************************************************)
(* One restore job from the inside: the goroutine of executeJob, the pool  *)
(* of workers of RestoreWithOptions, thawing in the bucket, the temporary  *)
(* and the delivered files, and a cancellation                             *)
(* (internal/backup/restore_job.go, restore.go).                           *)
(***************************************************************************)
EXTENDS Naturals, FiniteSets

CONSTANTS
  Files, Workers,
  Twice,     \* the files a request names twice, by themselves and by their directory
  Cold,      \* the files whose object is in an archive tier
  Existing,  \* the files that are there at their destination
  None,
  MaxFaults  \* bound on failures of the bucket, the disk and the database

\* resolveFiles does not look for duplicates.
Items == {<<f, 1>> : f \in Files} \cup {<<f, 2>> : f \in Twice}
FileOf(i) == i[1]
Old == <<"old", 0>>  \* what was at a destination before

ASSUME RestorerAssumption ==
  /\ Twice \subseteq Files /\ Cold \subseteq Files /\ Existing \subseteq Files
  /\ Files # {} /\ Workers # {} /\ None \notin Items \cup {Old} /\ MaxFaults \in Nat

VARIABLES
  strategy,  \* what to do when a destination exists
  status,    \* restore_jobs.status
  ctx,       \* the job's context
  main,      \* where executeJob is
  cancel,    \* where CancelJob is
  queue,     \* the channel of items
  worker,    \* the locals of each worker
  tier,      \* of each object
  loaded,    \* the files whose <id>_download.enc is in the temporary directory
  plain,     \* <id>_decrypted or <id>_final: which item created it
  whole,     \* the plaintext files that are complete, named by who created them
  out,       \* what is at each destination
  restored, failed,  \* the result
  faults,
  unread,    \* history: the items whose plaintext could not be read for its hash
  unwritten  \* history: whether a status was not written

pool == <<queue, worker>>
disk == <<loaded, plain, whole, out>>
result == <<restored, failed>>
vars == <<strategy, status, ctx, main, cancel, pool, tier, disk, result, faults, unread,
          unwritten>>

\* "other" is anything else: requests are not checked, and the command line has none.
Strategies == {"skip", "overwrite", "rename", "other"}
Statuses == {"pending", "running", "completed", "failed", "cancelled"}
Mains == {"start", "pool", "flush", "broken", "leave", "done"}
Tiers == {"standard", "archived", "thawing", "thawed"}
Points == {"take", "check", "wait", "download", "waitAgain", "downloadAgain", "decrypt",
           "decrypting", "verify", "conflict", "move", "report", "gone"}

\* Where a worker is, its item, the file it writes, whether it succeeded and
\* whether it delivers under another name.
Idle == [at |-> "take", item |-> None, handle |-> None, ok |-> FALSE, aside |-> FALSE]

Locals == [at : Points, item : Items \cup {None}, handle : Items \cup {None},
           ok : BOOLEAN, aside : BOOLEAN]

\* A worker at work has an item, and one that writes a file.
HasItem ==
  \A w \in Workers : /\ worker[w].at \notin {"take", "gone"} => worker[w].item \in Items
                     /\ worker[w].at = "decrypting" => worker[w].handle \in Items

TypeOK ==
  /\ strategy \in Strategies /\ status \in Statuses
  /\ ctx \in {"live", "cancelled", "expired"}
  /\ main \in Mains /\ cancel \in {"none", "mark", "answered"}
  /\ queue \subseteq Items
  /\ worker \in [Workers -> Locals] /\ HasItem
  /\ tier \in [Files -> Tiers]
  /\ loaded \subseteq Files
  /\ plain \in [Files -> Items \cup {None}] /\ whole \subseteq Items
  /\ out \in [Files -> Items \cup {None, Old}]
  /\ restored \subseteq Items /\ failed \subseteq Items
  /\ faults \in Nat /\ unread \subseteq Items /\ unwritten \in BOOLEAN

Init ==
  /\ strategy \in Strategies
  /\ status = "pending" /\ ctx = "live" /\ main = "start" /\ cancel = "none"
  /\ queue = {} /\ worker = [w \in Workers |-> Idle]
  /\ tier = [f \in Files |-> IF f \in Cold THEN "archived" ELSE "standard"]
  /\ loaded = {} /\ plain = [f \in Files |-> None] /\ whole = {}
  /\ out = [f \in Files |-> IF f \in Existing THEN Old ELSE None]
  /\ restored = {} /\ failed = {} /\ faults = 0 /\ unread = {}
  /\ unwritten = FALSE

Fault == faults < MaxFaults /\ faults' = faults + 1
Ended == ctx # "live"

-----------------------------------------------------------------------------
(* executeJob and CancelJob. *)

\* UpdateStatus, whose errors nobody looks at but StartFails.
WriteStatus(new) ==
  \/ status' = new /\ UNCHANGED <<faults, unwritten>>
  \/ Fault /\ unwritten' = TRUE /\ UNCHANGED status

\* The row is set to running, the files are resolved and queued.
StartJob ==
  /\ main = "start" /\ main' = "pool"
  /\ status' = "running" /\ queue' = Items
  /\ UNCHANGED <<strategy, ctx, cancel, worker, tier, disk, result, faults, unread, unwritten>>

\* The row cannot be read or set to running, and nothing is done.
StartFails ==
  /\ main = "start" /\ main' = "leave"
  /\ Fault /\ unwritten' = TRUE
  /\ UNCHANGED <<strategy, status, ctx, cancel, pool, tier, disk, result, unread>>

\* Resolving the files or making the temporary directory fails: the one kind of
\* error RestoreWithOptions has.
ResolveFails ==
  /\ main = "start" /\ main' = "broken"
  /\ Fault /\ status' = "running"
  /\ UNCHANGED <<strategy, ctx, cancel, pool, tier, disk, result, unread, unwritten>>

\* wg.Wait returns; RestoreWithOptions gives no error, whatever the context says.
PoolEnds ==
  /\ main = "pool" /\ \A w \in Workers : worker[w].at = "gone"
  /\ main' = "flush"
  /\ UNCHANGED <<strategy, status, ctx, cancel, pool, tier, disk, result, faults, unread,
                 unwritten>>

\* Mutant: a job that restored nothing is completed.
VerdictLoose == IF main = "broken" THEN "failed" ELSE "completed"

Verdict ==
  IF main = "broken" THEN IF Ended THEN "cancelled" ELSE "failed"
  ELSE IF restored = {} /\ failed # {} THEN "failed" ELSE "completed"

FinishJob ==
  /\ main \in {"flush", "broken"} /\ main' = "leave"
  /\ WriteStatus(Verdict)
  /\ UNCHANGED <<strategy, ctx, cancel, pool, tier, disk, result, unread>>

\* The deferred call: the cancel function is forgotten.
LeaveJob ==
  /\ main = "leave" /\ main' = "done"
  /\ UNCHANGED <<strategy, status, ctx, cancel, pool, tier, disk, result, faults, unread,
                 unwritten>>

CancelJob ==
  /\ main # "done" /\ cancel = "none"
  /\ cancel' = "mark"
  /\ ctx' = IF Ended THEN ctx ELSE "cancelled"
  /\ UNCHANGED <<strategy, status, main, pool, tier, disk, result, faults, unread, unwritten>>

\* UpdateStatus asks for no particular status before.
MarkCancelled ==
  /\ cancel = "mark" /\ cancel' = "answered"
  /\ WriteStatus("cancelled")
  /\ UNCHANGED <<strategy, ctx, main, pool, tier, disk, result, unread>>

\* Eight hours have passed.
Expire ==
  /\ ctx = "live" /\ main \in {"pool", "flush", "broken"} /\ ctx' = "expired"
  /\ UNCHANGED <<strategy, status, main, cancel, pool, tier, disk, result, faults, unread,
                 unwritten>>

-----------------------------------------------------------------------------
(* The workers. *)

Of(w) == FileOf(worker[w].item)
Go(w, p) == worker' = [worker EXCEPT ![w].at = p]
Report(w, good) == worker' = [worker EXCEPT ![w].at = "report", ![w].ok = good]
Outside == UNCHANGED <<strategy, status, ctx, main, cancel, unread, unwritten>>

\* The next item; a worker that sees the context ended leaves with the item it took.
Take(w) ==
  /\ main = "pool" /\ worker[w].at = "take"
  /\ \/ \E i \in queue :
          /\ queue' = queue \ {i}
          /\ worker' = [worker EXCEPT ![w] =
                          [Idle EXCEPT !.at = IF Ended THEN "gone" ELSE "check", !.item = i]]
     \/ queue = {} /\ Go(w, "gone") /\ UNCHANGED queue
  /\ Outside /\ UNCHANGED <<tier, disk, result, faults>>

\* CheckRestored: the object can be downloaded.
Available(f) == tier[f] \in {"standard", "thawed"}

\* RestoreObject: accepted, or needless, or already asked for.
Thaw(f) == tier' = [tier EXCEPT ![f] = IF @ = "archived" THEN "thawing" ELSE @]

\* An object that cannot be downloaded is asked for.
CheckObject(w) ==
  /\ worker[w].at = "check"
  /\ IF Available(Of(w))
     THEN Go(w, "download") /\ UNCHANGED tier
     ELSE Go(w, "wait") /\ Thaw(Of(w))
  /\ Outside /\ UNCHANGED <<queue, disk, result, faults>>

\* Mutant: the poll looks neither at the context nor at the deadline.
WaitUntilThawed(w) ==
  /\ worker[w].at \in {"wait", "waitAgain"}
  /\ IF Available(Of(w))
     THEN Go(w, IF worker[w].at = "wait" THEN "download" ELSE "downloadAgain")
     ELSE UNCHANGED worker
  /\ Outside /\ UNCHANGED <<queue, tier, disk, result, faults>>

\* A poll finds the object thawed, the context ended, or six hours gone by.
Wait(w) ==
  /\ worker[w].at \in {"wait", "waitAgain"}
  /\ \/ Available(Of(w))
        /\ Go(w, IF worker[w].at = "wait" THEN "download" ELSE "downloadAgain")
     \/ Report(w, FALSE)
  /\ Outside /\ UNCHANGED <<queue, tier, disk, result, faults>>

\* An archived object cannot be downloaded; the first time it is thawed (again).
Download(w) ==
  /\ worker[w].at \in {"download", "downloadAgain"}
  /\ CASE Ended -> Report(w, FALSE) /\ UNCHANGED <<loaded, tier>>
       [] ~Ended /\ Available(Of(w)) ->
            Go(w, "decrypt") /\ loaded' = loaded \cup {Of(w)} /\ UNCHANGED tier
       [] OTHER ->
            /\ UNCHANGED loaded
            /\ IF worker[w].at = "download" THEN Go(w, "waitAgain") /\ Thaw(Of(w))
               ELSE Report(w, FALSE) /\ UNCHANGED tier
  /\ Outside /\ UNCHANGED <<queue, plain, whole, out, result, faults>>

\* Mutant: the file is opened without being created.
DecryptNoCreate(w) ==
  LET f == Of(w)
      n == plain[f] IN
  /\ worker[w].at = "decrypt"
  /\ IF f \in loaded
     THEN /\ plain' = [plain EXCEPT ![f] = n]
          /\ whole' = whole \ {n}
          /\ worker' = [worker EXCEPT ![w].at = "decrypting", ![w].handle = n]
     ELSE Report(w, FALSE) /\ UNCHANGED <<plain, whole>>
  /\ Outside /\ UNCHANGED <<queue, tier, loaded, out, result, faults>>

\* DecryptFile (and Decompress) truncate the file of the same name, if there is one,
\* and write it.
Decrypt(w) ==
  LET f == Of(w)
      n == IF plain[f] = None THEN worker[w].item ELSE plain[f] IN
  /\ worker[w].at = "decrypt"
  /\ IF f \in loaded
     THEN /\ plain' = [plain EXCEPT ![f] = n]
          /\ whole' = whole \ {n}
          /\ worker' = [worker EXCEPT ![w].at = "decrypting", ![w].handle = n]
     ELSE Report(w, FALSE) /\ UNCHANGED <<plain, whole>>
  /\ Outside /\ UNCHANGED <<queue, tier, loaded, out, result, faults>>

\* The file is complete when its last writer has finished, wherever it is by then.
Decrypted(w) ==
  LET n == worker[w].handle IN
  /\ worker[w].at = "decrypting" /\ Go(w, "verify")
  /\ whole' = IF \E v \in Workers \ {w} : worker[v].at = "decrypting" /\ worker[v].handle = n
              THEN whole ELSE whole \cup {n}
  /\ Outside /\ UNCHANGED <<queue, tier, loaded, plain, out, result, faults>>

\* The object decrypts to something else than the content of its hash.
Misfits(w) ==
  /\ worker[w].at = "decrypting" /\ Go(w, "verify") /\ Fault
  /\ Outside /\ UNCHANGED <<queue, tier, disk, result>>

\* Mutant: the hash is not compared before the file is delivered.
VerifyNothing(w) ==
  /\ worker[w].at = "verify" /\ Go(w, "conflict")
  /\ Outside /\ UNCHANGED <<queue, tier, disk, result, faults>>

\* The hash of what is under the name; when there is nothing, the check is skipped.
VerifyHash(w) ==
  /\ worker[w].at = "verify"
  /\ IF plain[Of(w)] \in whole \cup {None} THEN Go(w, "conflict") ELSE Report(w, FALSE)
  /\ Outside /\ UNCHANGED <<queue, tier, disk, result, faults>>

\* A file that cannot be read is delivered without the check.
HashUnread(w) ==
  /\ worker[w].at = "verify" /\ Go(w, "conflict") /\ Fault
  /\ unread' = unread \cup {worker[w].item}
  /\ UNCHANGED <<strategy, status, ctx, main, cancel, queue, tier, disk, result, unwritten>>

\* Mutant: an existing file is removed whatever the strategy.
RemoveAlways(w) ==
  LET f == Of(w) IN
  /\ worker[w].at = "conflict" /\ Go(w, "move")
  /\ out' = [out EXCEPT ![f] = None]
  /\ Outside /\ UNCHANGED <<queue, tier, loaded, plain, whole, result, faults>>

\* An existing file stops a job that skips, is removed by one that overwrites, and
\* is left alone by one that renames; nothing is done for any other strategy.
ResolveConflict(w) ==
  LET f == Of(w)
      taken == out[f] # None IN
  /\ worker[w].at = "conflict"
  /\ IF taken /\ strategy = "skip" THEN Report(w, FALSE)
     ELSE worker' = [worker EXCEPT ![w].at = "move", ![w].aside = taken /\ strategy = "rename"]
  /\ out' = IF taken /\ strategy = "overwrite" THEN [out EXCEPT ![f] = None] ELSE out
  /\ Outside /\ UNCHANGED <<queue, tier, loaded, plain, whole, result, faults>>

\* A rename, which takes the place of what is there.
Move(w) ==
  LET f == Of(w) IN
  /\ worker[w].at = "move"
  /\ plain' = [plain EXCEPT ![f] = None]
  /\ Report(w, plain[f] # None)
  /\ out' = IF plain[f] = None \/ worker[w].aside THEN out ELSE [out EXCEPT ![f] = plain[f]]
  /\ Outside /\ UNCHANGED <<queue, tier, loaded, whole, result, faults>>

\* The rename fails, or is between two devices and its copy fails: the partial copy
\* is removed, and what it had truncated with it.
MoveFails(w) ==
  LET f == Of(w) IN
  /\ worker[w].at = "move" /\ Fault
  /\ Report(w, FALSE)
  /\ out' \in IF worker[w].aside THEN {out} ELSE {out, [out EXCEPT ![f] = None]}
  /\ Outside /\ UNCHANGED <<queue, tier, loaded, plain, whole, result>>

\* A database, bucket or disk error, or a row or IV that does not fit.
Fails(w) ==
  /\ worker[w].at \in {"check", "download", "downloadAgain", "decrypt", "decrypting", "conflict"} /\ Fault
  /\ Report(w, FALSE)
  /\ Outside /\ UNCHANGED <<queue, tier, disk, result>>

\* restoreFile removes its temporary files, the worker counts the item and reports it.
Count(w) ==
  LET i == worker[w].item IN
  /\ worker[w].at = "report"
  /\ loaded' = loaded \ {Of(w)} /\ plain' = [plain EXCEPT ![Of(w)] = None]
  /\ IF worker[w].ok THEN restored' = restored \cup {i} /\ UNCHANGED failed
     ELSE failed' = failed \cup {i} /\ UNCHANGED restored
  /\ worker' = [worker EXCEPT ![w] = Idle]
  /\ Outside /\ UNCHANGED <<queue, tier, whole, out, faults>>

Step(w) ==
  \/ Take(w) \/ CheckObject(w) \/ Wait(w) \/ Download(w) \/ Decrypt(w) \/ Decrypted(w)
  \/ VerifyHash(w) \/ ResolveConflict(w) \/ Move(w) \/ Count(w)

-----------------------------------------------------------------------------
(* The bucket. *)

\* An object that was asked for is thawed; a cold one may be archived between the
\* check and the download.
Thawed(f) ==
  /\ tier[f] = "thawing" /\ tier' = [tier EXCEPT ![f] = "thawed"]
  /\ Outside /\ UNCHANGED <<pool, disk, result, faults>>

Archived(f) ==
  /\ f \in Cold /\ tier[f] = "thawed" /\ tier' = [tier EXCEPT ![f] = "archived"]
  /\ Fault
  /\ Outside /\ UNCHANGED <<pool, disk, result>>

Job == StartJob \/ StartFails \/ ResolveFails \/ PoolEnds \/ FinishJob \/ LeaveJob
Bucket == \E f \in Files : Thawed(f) \/ Archived(f)
Failure == \E w \in Workers : Fails(w) \/ Misfits(w) \/ HashUnread(w) \/ MoveFails(w)
Over == main = "done" /\ cancel # "mark" /\ UNCHANGED vars

Next ==
  \/ Job \/ CancelJob \/ MarkCancelled \/ Expire
  \/ \E w \in Workers : Step(w)
  \/ Failure \/ Bucket \/ Over

Spec == Init /\ [][Next]_vars

\* Goroutines run; a wait ends because its deadline passes.
FairSpec == Spec /\ WF_vars(Job) /\ WF_vars(MarkCancelled) /\ \A w \in Workers : WF_vars(Step(w))

-----------------------------------------------------------------------------
(* Properties. *)

\* An item that is counted as restored has been delivered: what is at its
\* destination is complete and has its hash, unless it was put under another name
\* or could not be read for the check.
DeliveredWhole ==
  \A i \in restored \ unread :
    out[FileOf(i)] \in whole \/ (out[FileOf(i)] = Old /\ strategy = "rename")

\* What was at a destination is never touched by a job that skips or renames; one that
\* overwrites puts a complete file in its place, and leaves the place empty only
\* between its two steps or when a move failed.
ExistingReplaced ==
  strategy # "other" =>
    \A f \in Existing :
      \/ out[f] = Old
      \/ /\ strategy = "overwrite"
         /\ \/ out[f] \in whole \cup unread
            \/ out[f] = None /\ faults > 0
            \/ \E w \in Workers : worker[w].at = "move" /\ Of(w) = f

\* What the comments promise: skip is the default (RestoreOptions), and an existing
\* destination is not silently overwritten (moveFile).
NeverSilently == strategy # "overwrite" => \A f \in Existing : out[f] = Old

\* A job that was left to run to its end has counted every item once; unless a status
\* was not written, it is completed when everything was delivered and failed when
\* nothing was.
Accounted ==
  ctx = "live" /\ main \in {"flush", "leave", "done"} /\ restored \cup failed # {} =>
    /\ restored \cup failed = Items /\ restored \cap failed = {}
    /\ main # "flush" /\ ~unwritten =>
         /\ status = "completed" => restored # {}
         /\ status = "failed" => failed # {}
         /\ status \in {"completed", "failed"}

\* What docs/TEST_CASES.md, TC-RSTR-013, expects: a job with failed files does not end
\* as one that restored all of them.
PartlyIsTold == main = "done" /\ failed # {} => status # "completed"

\* A job whose cancellation was answered is, and stays, cancelled.
CancelStays == main = "done" /\ cancel = "answered" => status = "cancelled"

\* The goroutine of every job that was started ends, whatever the bucket does, with
\* nothing left in the temporary directory and no worker at work; the row keeps
\* saying running only when the verdict was not written.
JobEnds ==
  main \in {"pool", "broken"} ~>
    /\ main = "done" /\ (status \notin {"pending", "running"} \/ unwritten)
    /\ loaded = {} /\ \A w \in Workers : worker[w].at \in {"gone", "take"}
=============================================================================
