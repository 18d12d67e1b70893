--------------------------- MODULE RestorerProofs ---------------------------
(***************************************************************************)
(* Theorems about module Restorer, for any number of files, workers and    *)
(* failures: when no file is named twice, what a restore job counts as     *)
(* restored is there, what was there before is kept or replaced, and every *)
(* file is counted once.                                                   *)
(***************************************************************************)
EXTENDS Restorer, TLAPS

-----------------------------------------------------------------------------
(* One worker and its locals. *)

\* One worker goes on, the others stay.
GoesOn(w) ==
  /\ worker' \in [Workers -> Locals]
  /\ \A v \in Workers \ {w} : worker'[v] = worker[v]

LEMMA WorkerType ==
  ASSUME TypeOK
  PROVE  worker \in [Workers -> Locals] /\ HasItem
BY DEF TypeOK

LEMMA GoSteps ==
  ASSUME worker \in [Workers -> Locals], NEW w \in Workers, NEW p \in Points, Go(w, p)
  PROVE  /\ GoesOn(w)
         /\ worker'[w].at = p
         /\ worker'[w].item = worker[w].item /\ worker'[w].handle = worker[w].handle
         /\ worker'[w].ok = worker[w].ok /\ worker'[w].aside = worker[w].aside
<1>1. worker'[w] = [worker[w] EXCEPT !.at = p] /\ worker[w] \in Locals
  BY DEF Go
<1>2. worker'[w] \in Locals
  BY <1>1 DEF Locals
<1>3. GoesOn(w)
  BY <1>2 DEF Go, GoesOn
<1> QED
  BY <1>1, <1>3 DEF Locals

LEMMA ReportSteps ==
  ASSUME worker \in [Workers -> Locals], NEW w \in Workers, NEW good \in BOOLEAN, Report(w, good)
  PROVE  /\ GoesOn(w)
         /\ worker'[w].at = "report" /\ worker'[w].ok = good
         /\ worker'[w].item = worker[w].item /\ worker'[w].aside = worker[w].aside
<1>1. worker'[w] = [worker[w] EXCEPT !.at = "report", !.ok = good] /\ worker[w] \in Locals
  BY DEF Report
<1>2. worker'[w] \in Locals
  BY <1>1 DEF Locals, Points
<1>3. GoesOn(w)
  <2>1. \A v \in Workers \ {w} : worker'[v] = worker[v]
    BY DEF Report
  <2>2. worker' = [v \in Workers |-> worker'[v]]
    BY DEF Report
  <2> QED
    BY <1>2, <2>1, <2>2 DEF GoesOn
<1> QED
  BY <1>1, <1>3 DEF Locals

LEMMA ItemFacts ==
  /\ \A i \in Items : FileOf(i) \in Files /\ i # Old /\ i # None
  /\ None # Old
BY RestorerAssumption DEF Items, FileOf, Old

\* What a step asks of the worker that goes on.
LEMMA LocalsType ==
  ASSUME HasItem, NEW w \in Workers, GoesOn(w),
         worker'[w].at \notin {"take", "gone"} => worker'[w].item \in Items,
         worker'[w].at = "decrypting" => worker'[w].handle \in Items
  PROVE  worker' \in [Workers -> Locals] /\ HasItem'
BY DEF HasItem, GoesOn

-----------------------------------------------------------------------------
(* Types. *)

LEMMA InitType == Init => TypeOK
<1> SUFFICES ASSUME Init PROVE TypeOK
  OBVIOUS
<1>1. Idle \in Locals
  BY DEF Idle, Locals, Points
<1>2. worker \in [Workers -> Locals] /\ HasItem
  BY <1>1 DEF Init, HasItem, Idle
<1>3. /\ tier \in [Files -> Tiers] /\ plain \in [Files -> Items \cup {None}]
      /\ out \in [Files -> Items \cup {None, Old}]
  BY DEF Init, Tiers
<1> QED
  BY <1>2, <1>3 DEF Init, TypeOK, Statuses, Mains

LEMMA FaultType ==
  ASSUME faults \in Nat, Fault
  PROVE  faults' \in Nat /\ faults' > 0
BY DEF Fault

\* The goroutine of the job, the request to cancel it and the bucket.
LEMMA OutsideType ==
  ASSUME TypeOK, Job \/ CancelJob \/ MarkCancelled \/ Expire \/ Bucket \/ UNCHANGED vars
  PROVE  TypeOK'
<1> USE DEF Statuses, Mains, disk, result, pool
<1>1. CASE StartJob
  BY <1>1 DEF StartJob, TypeOK, HasItem
<1>2. CASE StartFails \/ ResolveFails
  BY <1>2, FaultType DEF StartFails, ResolveFails, TypeOK, HasItem
<1>3. CASE PoolEnds \/ LeaveJob
  BY <1>3 DEF PoolEnds, LeaveJob, TypeOK, HasItem
<1>4. CASE CancelJob \/ Expire
  BY <1>4 DEF CancelJob, Expire, TypeOK, HasItem
<1>7. ASSUME NEW new \in Statuses, WriteStatus(new)
      PROVE  status' \in Statuses /\ faults' \in Nat /\ unwritten' \in BOOLEAN
  BY <1>7, FaultType DEF WriteStatus, TypeOK
<1>8. CASE FinishJob
  <2>1. status' \in Statuses /\ faults' \in Nat /\ unwritten' \in BOOLEAN
    BY <1>7, <1>8 DEF FinishJob, Verdict
  <2> QED
    BY <1>8, <2>1 DEF FinishJob, TypeOK, HasItem
<1>9. CASE MarkCancelled
  <2>1. status' \in Statuses /\ faults' \in Nat /\ unwritten' \in BOOLEAN
    BY <1>7, <1>9 DEF MarkCancelled
  <2> QED
    BY <1>9, <2>1 DEF MarkCancelled, TypeOK, HasItem
<1>5. CASE Bucket
  <2>1. tier' \in [Files -> Tiers]
    BY <1>5 DEF Bucket, Thawed, Archived, TypeOK, Tiers
  <2>2. faults' \in Nat
    BY <1>5, FaultType DEF Bucket, Thawed, Archived, TypeOK
  <2> QED
    BY <1>5, <2>1, <2>2 DEF Bucket, Thawed, Archived, Outside, TypeOK, HasItem
<1>6. CASE UNCHANGED vars
  BY <1>6 DEF vars, TypeOK, HasItem
<1> QED
  BY <1>1, <1>2, <1>3, <1>4, <1>5, <1>6, <1>8, <1>9 DEF Job

-----------------------------------------------------------------------------
(* What each step does to the locals of its worker. *)

LEMMA TakeSteps ==
  ASSUME worker \in [Workers -> Locals], queue \subseteq Items, NEW w \in Workers, Take(w)
  PROVE  /\ GoesOn(w)
         /\ \/ /\ worker'[w].item \in queue /\ queue' = queue \ {worker'[w].item}
               /\ worker'[w].at = IF Ended THEN "gone" ELSE "check"
            \/ worker'[w].at = "gone" /\ queue = {} /\ queue' = {}
<1>1. CASE queue = {} /\ Go(w, "gone") /\ UNCHANGED queue
  <2>1. "gone" \in Points
    BY DEF Points
  <2> QED
    BY <1>1, <2>1, GoSteps
<1>2. ASSUME NEW i \in queue, queue' = queue \ {i},
             worker' = [worker EXCEPT ![w] =
                          [Idle EXCEPT !.at = IF Ended THEN "gone" ELSE "check", !.item = i]]
      PROVE  /\ GoesOn(w)
             /\ worker'[w].item \in queue /\ queue' = queue \ {worker'[w].item}
             /\ worker'[w].at = IF Ended THEN "gone" ELSE "check"
  <2> DEFINE at == IF Ended THEN "gone" ELSE "check"
  <2>1. Idle \in Locals /\ at \in Points /\ i \in Items
    BY DEF Idle, Locals, Points
  <2>2. worker' = [worker EXCEPT ![w] = [Idle EXCEPT !.at = at, !.item = i]]
    BY <1>2
  <2> HIDE DEF at
  <2>3. worker'[w] = [Idle EXCEPT !.at = at, !.item = i]
    BY <2>2
  <2>4. worker'[w] \in Locals /\ worker'[w].at = at /\ worker'[w].item = i
    BY <2>1, <2>3 DEF Locals
  <2>5. \A v \in Workers \ {w} : worker'[v] = worker[v]
    BY <2>2
  <2>6. worker' = [v \in Workers |-> worker'[v]]
    BY <2>2
  <2>7. GoesOn(w)
    BY <2>4, <2>5, <2>6 DEF GoesOn
  <2> QED
    BY <1>2, <2>4, <2>7 DEF at
<1> QED
  BY <1>1, <1>2 DEF Take

LEMMA DecryptSteps ==
  ASSUME worker \in [Workers -> Locals], NEW w \in Workers, NEW n \in Items,
         worker' = [worker EXCEPT ![w].at = "decrypting", ![w].handle = n]
  PROVE  /\ GoesOn(w)
         /\ worker'[w].at = "decrypting" /\ worker'[w].handle = n
         /\ worker'[w].item = worker[w].item
<1>1. worker'[w] = [worker[w] EXCEPT !.at = "decrypting", !.handle = n] /\ worker[w] \in Locals
  OBVIOUS
<1>2. worker'[w] \in Locals
  BY <1>1 DEF Locals, Points
<1>3. GoesOn(w)
  <2>1. /\ \A v \in Workers \ {w} : worker'[v] = worker[v]
        /\ worker' = [v \in Workers |-> worker'[v]]
    OBVIOUS
  <2> QED
    BY <1>2, <2>1 DEF GoesOn
<1> QED
  BY <1>1, <1>3 DEF Locals

LEMMA MoveSteps ==
  ASSUME worker \in [Workers -> Locals], NEW w \in Workers, NEW b \in BOOLEAN,
         worker' = [worker EXCEPT ![w].at = "move", ![w].aside = b]
  PROVE  /\ GoesOn(w)
         /\ worker'[w].at = "move" /\ worker'[w].aside = b
         /\ worker'[w].item = worker[w].item
<1>1. worker'[w] = [worker[w] EXCEPT !.at = "move", !.aside = b] /\ worker[w] \in Locals
  OBVIOUS
<1>2. worker'[w] \in Locals
  BY <1>1 DEF Locals, Points
<1>3. GoesOn(w)
  <2>1. /\ \A v \in Workers \ {w} : worker'[v] = worker[v]
        /\ worker' = [v \in Workers |-> worker'[v]]
    OBVIOUS
  <2> QED
    BY <1>2, <2>1 DEF GoesOn
<1> QED
  BY <1>1, <1>3 DEF Locals

LEMMA CountSteps ==
  ASSUME worker \in [Workers -> Locals], NEW w \in Workers, Count(w)
  PROVE  GoesOn(w) /\ worker'[w].at = "take"
<1>1. Idle \in Locals /\ Idle.at = "take"
  BY DEF Idle, Locals, Points
<1> QED
  BY <1>1 DEF Count, GoesOn

\* The worker that takes a step goes on with its item, or takes one.
LEMMA StepsOn ==
  ASSUME TypeOK, NEW w \in Workers,
         Step(w) \/ Fails(w) \/ Misfits(w) \/ HashUnread(w) \/ MoveFails(w)
  PROVE  GoesOn(w) /\ HasItem'
<1>0. worker \in [Workers -> Locals] /\ HasItem /\ queue \subseteq Items
  BY DEF TypeOK
<1>i. worker[w].at \notin {"take", "gone"} => worker[w].item \in Items
  BY <1>0 DEF HasItem
<1> DEFINE Kept == /\ GoesOn(w) /\ worker'[w].at # "decrypting"
                   /\ worker'[w].item = worker[w].item /\ worker[w].at \notin {"take", "gone"}
<1>k. Kept => GoesOn(w) /\ HasItem'
  BY <1>0, <1>i, LocalsType
<1>1. CASE Take(w)
  <2>1. worker'[w].item \in queue \/ worker'[w].at = "gone"
    BY <1>0, <1>1, TakeSteps
  <2>2. GoesOn(w) /\ worker'[w].at # "decrypting"
    BY <1>0, <1>1, TakeSteps
  <2> QED
    BY <1>0, <2>1, <2>2, LocalsType
<1>2. CASE CheckObject(w) \/ Wait(w) \/ Download(w) \/ Fails(w)
  <2>1. \/ \E p \in {"download", "downloadAgain", "wait", "waitAgain", "decrypt"} : Go(w, p)
        \/ Report(w, FALSE)
    BY <1>2 DEF CheckObject, Wait, Download, Fails
  <2>2. worker[w].at \notin {"take", "gone"}
    BY <1>2 DEF CheckObject, Wait, Download, Fails
  <2>3. Kept
    BY <1>0, <2>1, <2>2, GoSteps, ReportSteps DEF Points
  <2> QED
    BY <1>k, <2>3
<1>3. CASE Decrypt(w)
  <2>1. worker[w].item \in Items /\ worker[w].at = "decrypt"
    BY <1>3, <1>i DEF Decrypt
  <2>2. plain[Of(w)] \in Items \cup {None}
    BY <2>1, ItemFacts DEF Of, TypeOK
  <2>3. CASE Report(w, FALSE)
    <3>1. Kept
      BY <1>0, <2>1, <2>3, ReportSteps
    <3> QED
      BY <1>k, <3>1
  <2>4. ASSUME NEW n \in Items, worker' = [worker EXCEPT ![w].at = "decrypting", ![w].handle = n]
        PROVE  GoesOn(w) /\ HasItem'
    BY <1>0, <2>1, <2>4, DecryptSteps, LocalsType
  <2> QED
    BY <1>3, <2>1, <2>2, <2>3, <2>4 DEF Decrypt
<1>4. CASE Decrypted(w) \/ Misfits(w) \/ VerifyHash(w) \/ HashUnread(w)
  <2>1. (\E p \in {"verify", "conflict"} : Go(w, p)) \/ Report(w, FALSE)
    BY <1>4 DEF Decrypted, Misfits, VerifyHash, HashUnread
  <2>2. worker[w].at \in {"decrypting", "verify"}
    BY <1>4 DEF Decrypted, Misfits, VerifyHash, HashUnread
  <2>3. Kept
    BY <1>0, <2>1, <2>2, GoSteps, ReportSteps DEF Points
  <2> QED
    BY <1>k, <2>3
<1>5. CASE ResolveConflict(w)
  <2>1. \/ Report(w, FALSE)
        \/ \E b \in BOOLEAN : worker' = [worker EXCEPT ![w].at = "move", ![w].aside = b]
    BY <1>5 DEF ResolveConflict
  <2>2. worker[w].at = "conflict"
    BY <1>5 DEF ResolveConflict
  <2>3. Kept
    BY <1>0, <2>1, <2>2, ReportSteps, MoveSteps
  <2> QED
    BY <1>k, <2>3
<1>6. CASE Move(w) \/ MoveFails(w)
  <2>1. (\E b \in BOOLEAN : Report(w, b)) /\ worker[w].at = "move"
    BY <1>6 DEF Move, MoveFails
  <2>2. Kept
    BY <1>0, <2>1, ReportSteps
  <2> QED
    BY <1>k, <2>2
<1>7. CASE Count(w)
  BY <1>0, <1>7, CountSteps, LocalsType
<1> QED
  BY <1>1, <1>2, <1>3, <1>4, <1>5, <1>6, <1>7 DEF Step

LEMMA StepType ==
  ASSUME TypeOK, NEW w \in Workers,
         Step(w) \/ Fails(w) \/ Misfits(w) \/ HashUnread(w) \/ MoveFails(w)
  PROVE  TypeOK'
<1> USE DEF Outside, disk, result
<1>0. worker' \in [Workers -> Locals] /\ HasItem'
  BY StepsOn DEF GoesOn
<1>i. worker[w].at \notin {"take", "gone"} => worker[w].item \in Items /\ Of(w) \in Files
  BY ItemFacts DEF TypeOK, HasItem, Of
<1>1. CASE Take(w)
  <2>1. queue' \subseteq queue
    BY <1>1 DEF Take
  <2> QED
    BY <1>0, <1>1, <2>1 DEF Take, TypeOK
<1>2. CASE CheckObject(w)
  <2>1. tier' \in [Files -> Tiers]
    BY <1>2 DEF TypeOK, CheckObject, Thaw, Tiers
  <2> QED
    BY <1>0, <1>2, <2>1 DEF CheckObject, TypeOK
<1>3. CASE Wait(w)
  BY <1>0, <1>3 DEF Wait, TypeOK
<1>4. CASE Download(w)
  <2>1. tier' \in [Files -> Tiers]
    BY <1>4 DEF TypeOK, Download, Thaw, Tiers
  <2>2. loaded' \subseteq Files
    BY <1>4, <1>i DEF TypeOK, Download
  <2> QED
    BY <1>0, <1>4, <2>1, <2>2 DEF Download, TypeOK
<1>5. CASE Decrypt(w)
  <2>1. plain' \in [Files -> Items \cup {None}] /\ whole' \subseteq Items
    BY <1>5, <1>i DEF TypeOK, Decrypt
  <2> QED
    BY <1>0, <1>5, <2>1 DEF Decrypt, TypeOK
<1>6. CASE Decrypted(w)
  <2>1. worker[w].handle \in Items
    BY <1>6 DEF Decrypted, TypeOK, HasItem
  <2>2. whole' \subseteq Items
    BY <1>6, <2>1 DEF Decrypted, TypeOK
  <2> QED
    BY <1>0, <1>6, <2>2 DEF Decrypted, TypeOK
<1>7. CASE VerifyHash(w)
  BY <1>0, <1>7 DEF VerifyHash, TypeOK
<1>8. CASE ResolveConflict(w)
  <2>1. out' \in [Files -> Items \cup {None, Old}]
    BY <1>8, <1>i DEF ResolveConflict, TypeOK
  <2> QED
    BY <1>0, <1>8, <2>1 DEF ResolveConflict, TypeOK
<1>9. CASE Move(w)
  <2>1. plain' \in [Files -> Items \cup {None}] /\ out' \in [Files -> Items \cup {None, Old}]
    BY <1>9, <1>i DEF Move, TypeOK
  <2> QED
    BY <1>0, <1>9, <2>1 DEF Move, TypeOK
<1>10. CASE Count(w)
  <2>1. /\ loaded' \subseteq Files /\ plain' \in [Files -> Items \cup {None}]
        /\ restored' \subseteq Items /\ failed' \subseteq Items
    BY <1>10, <1>i DEF Count, TypeOK
  <2> QED
    BY <1>0, <1>10, <2>1 DEF Count, TypeOK
<1>11. CASE Fails(w) \/ Misfits(w)
  <2>1. faults' \in Nat
    BY <1>11, FaultType DEF Fails, Misfits, TypeOK
  <2> QED
    BY <1>0, <1>11, <2>1 DEF Fails, Misfits, TypeOK
<1>12. CASE HashUnread(w)
  <2>1. faults' \in Nat /\ unread' \subseteq Items
    BY <1>12, <1>i, FaultType DEF HashUnread, TypeOK
  <2> QED
    BY <1>0, <1>12, <2>1 DEF HashUnread, TypeOK
<1>13. CASE MoveFails(w)
  <2>1. faults' \in Nat /\ out' \in [Files -> Items \cup {None, Old}]
    BY <1>13, <1>i, FaultType DEF MoveFails, TypeOK
  <2> QED
    BY <1>0, <1>13, <2>1 DEF MoveFails, TypeOK
<1> QED
  BY <1>1, <1>2, <1>3, <1>4, <1>5, <1>6, <1>7, <1>8, <1>9, <1>10, <1>11, <1>12, <1>13 DEF Step

LEMMA NextType == TypeOK /\ [Next]_vars => TypeOK'
BY OutsideType, StepType DEF Next, Failure, Over

\* A restore job is well typed: a worker at work has an item.
THEOREM RestorerTypeCorrect == Spec => []TypeOK
<1>1. Init => TypeOK
  BY InitType
<1>2. TypeOK /\ [Next]_vars => TypeOK'
  BY NextType
<1> QED
  BY <1>1, <1>2, PTL DEF Spec

-----------------------------------------------------------------------------
(* The invariant: every item is in one place, and the files follow it. *)

Busy(w) == worker[w].at \notin {"take", "gone"}
Writing(w) == worker[w].at \in {"decrypting", "verify", "conflict", "move"}

\* Nothing has happened before the pool is there, and nobody works outside it.
Fresh ==
  main \in {"start", "broken"} =>
                    /\ queue = {} /\ restored = {} /\ failed = {}
                    /\ \A f \in Files : plain[f] = None /\ out[f] \in {None, Old}
                    /\ \A w \in Workers : worker[w].at = "take"
Resting == main # "pool" => \A w \in Workers : ~Busy(w)

\* An item is queued, held by one worker, or counted.
Owned == \A w \in Workers : Busy(w) => worker[w].item \notin queue \cup restored \cup failed
Apart == \A v, w \in Workers : Busy(v) /\ Busy(w) /\ worker[v].item = worker[w].item => v = w
Once == restored \cap failed = {} /\ queue \cap (restored \cup failed) = {}

Ownership == Fresh /\ Resting /\ Owned /\ Apart /\ Once

Delivered(i) ==
  \/ out[FileOf(i)] = i /\ i \in whole \cup unread
  \/ out[FileOf(i)] = Old /\ strategy = "rename"

\* A plaintext is its worker's; what is delivered was checked.
PlainOf(f) ==
  plain[f] # None =>
    /\ FileOf(plain[f]) = f
    /\ \E w \in Workers : Busy(w) /\ worker[w].item = plain[f]
                          /\ (Writing(w) \/ worker[w].at = "report")
Placed(f) == out[f] \notin {None, Old} => FileOf(out[f]) = f /\ out[f] \in whole \cup unread

\* A worker writes its own plaintext, moves it only after the check, finds the place
\* as it was before the job, and reports what it has done.
InOrder(w) ==
  /\ Writing(w) => plain[Of(w)] = worker[w].item
  /\ worker[w].at = "decrypting" => worker[w].handle = worker[w].item
  /\ worker[w].at \in {"conflict", "move"} => worker[w].item \in whole \cup unread
  /\ Busy(w) /\ worker[w].at # "report" => out[Of(w)] \in {None, Old}
  /\ worker[w].at = "move" =>
       /\ worker[w].aside => out[Of(w)] = Old /\ strategy = "rename"
       /\ ~worker[w].aside /\ strategy \in {"skip", "rename"} => out[Of(w)] = None
  /\ worker[w].at = "report" /\ worker[w].ok => Delivered(worker[w].item)

FilesFollow ==
  /\ \A f \in Files : PlainOf(f) /\ Placed(f)
  /\ \A w \in Workers : InOrder(w)
  /\ \A i \in queue : out[FileOf(i)] \in {None, Old}
  /\ \A i \in restored : Delivered(i)

\* No item is lost as long as the context lives.
Lossless ==
  /\ cancel # "none" => ctx # "live"
  /\ ctx = "live" /\ main \in {"pool", "flush"} =>
       /\ \A i \in Items : \/ i \in queue \cup restored \cup failed
                           \/ \E w \in Workers : Busy(w) /\ worker[w].item = i
       /\ main = "flush" \/ (\E w \in Workers : worker[w].at = "gone") => queue = {}

\* What was at a destination, under any strategy.
Replaced(f) ==
  \/ out[f] = Old
  \/ /\ strategy \in {"other", "overwrite"}
     /\ \/ out[f] \in whole \cup unread
        \/ out[f] = None /\ faults > 0
        \/ strategy = "overwrite" /\ \E w \in Workers : worker[w].at = "move" /\ Of(w) = f
ExistingFollows == \A f \in Existing : Replaced(f)

Inv == TypeOK /\ Ownership /\ FilesFollow /\ ExistingFollows /\ Lossless /\ Accounted

LEMMA OneItem ==
  ASSUME Twice = {}
  PROVE  \A i, j \in Items : FileOf(i) = FileOf(j) => i = j
BY DEF Items, FileOf

LEMMA InitInv == Init => Inv
<1> SUFFICES ASSUME Init PROVE Inv
  OBVIOUS
<1>1. TypeOK
  BY InitType
<1>2. \A w \in Workers : worker[w].at = "take" /\ ~Busy(w) /\ ~Writing(w)
  BY DEF Init, Idle, Busy, Writing
<1>3. Ownership
  BY <1>2 DEF Init, Ownership, Fresh, Resting, Owned, Apart, Once
<1>4. FilesFollow
  BY <1>2 DEF Init, FilesFollow, PlainOf, Placed, InOrder
<1>5. ExistingFollows
  BY RestorerAssumption DEF Init, ExistingFollows, Replaced
<1>6. Lossless /\ Accounted
  BY DEF Init, Lossless, Accounted
<1> QED
  BY <1>1, <1>3, <1>4, <1>5, <1>6 DEF Inv

-----------------------------------------------------------------------------
(* Steps that leave the files and the workers alone. *)

still == <<strategy, worker, plain, whole, out, restored, failed, unread>>

LEMMA StillFiles ==
  ASSUME Inv, UNCHANGED still, queue' = queue
  PROVE  /\ FilesFollow'
         /\ Owned' /\ Apart' /\ Once'
  BY DEF still, Inv, Ownership, FilesFollow, PlainOf, Placed, InOrder, Delivered, Busy, Writing, Of,
         Owned, Apart, Once

LEMMA StillExisting ==
  ASSUME Inv, TypeOK', UNCHANGED still, faults' = faults \/ faults' > 0
  PROVE  ExistingFollows'
BY DEF still, Inv, ExistingFollows, Replaced, Of

LEMMA OutsideInv ==
  ASSUME Inv, Job \/ CancelJob \/ MarkCancelled \/ Expire \/ Bucket \/ UNCHANGED vars
  PROVE  Inv'
<1> USE DEF disk, result, pool
<1>1. TypeOK'
  BY OutsideType DEF Inv
<1>2. UNCHANGED still
  BY DEF still, Job, StartJob, StartFails, ResolveFails, PoolEnds, FinishJob, LeaveJob, CancelJob, MarkCancelled, WriteStatus,
         Expire, Bucket, Thawed, Archived, Outside, vars
<1>3. faults' = faults \/ faults' > 0
  BY FaultType DEF Job, StartJob, StartFails, ResolveFails, PoolEnds, FinishJob, LeaveJob, CancelJob, MarkCancelled, WriteStatus,
         Expire, Bucket, Thawed, Archived, vars, Inv, TypeOK
<1>4. ExistingFollows'
  BY <1>1, <1>2, <1>3, StillExisting
<1>5. CASE StartJob
  <2>1. Ownership'
    BY <1>2, <1>5 DEF StartJob, still, Inv, Ownership, Fresh, Resting, Owned, Apart, Once, Busy
  <2>2. FilesFollow'
    <3>1. \A i \in queue' : out'[FileOf(i)] \in {None, Old}
      BY <1>2, <1>5, ItemFacts DEF StartJob, still, Inv, Ownership, Fresh
    <3> QED
      BY <1>2, <3>1 DEF still, Inv, FilesFollow, PlainOf, Placed, InOrder, Delivered, Busy, Writing, Of
  <2>3. Lossless' /\ Accounted'
    <3>1. \A w \in Workers : ~Busy(w) /\ worker[w].at # "gone"
      BY <1>5 DEF Inv, Ownership, Fresh, Resting, Busy, StartJob
    <3> QED
      BY <1>2, <1>5, <3>1 DEF StartJob, still, Inv, Lossless, Accounted
  <2> QED
    BY <1>1, <1>4, <2>1, <2>2, <2>3 DEF Inv
<1>6. CASE ~StartJob
  <2>1. queue' = queue
    BY <1>6 DEF Job, StartFails, ResolveFails, PoolEnds, FinishJob, LeaveJob, CancelJob, MarkCancelled, WriteStatus,
         Expire, Bucket, Thawed, Archived, vars
  <2>2. FilesFollow' /\ Owned' /\ Apart' /\ Once'
    BY <1>2, <2>1, StillFiles
  <2>3. \/ main' = main
        \/ main = "start" /\ main' = "broken"
        \/ main' \in {"flush", "leave", "done"} /\ \A w \in Workers : ~Busy(w)
    <3>1. CASE StartFails \/ ResolveFails \/ FinishJob \/ LeaveJob
      BY <3>1 DEF StartFails, ResolveFails, FinishJob, LeaveJob, Inv, Ownership, Resting, Fresh
    <3>2. CASE PoolEnds
      BY <3>2 DEF PoolEnds, Busy
    <3>3. CASE CancelJob \/ MarkCancelled \/ Expire \/ Bucket \/ UNCHANGED vars
      BY <3>3 DEF CancelJob, MarkCancelled, Expire, Bucket, Thawed, Archived, Outside, vars
    <3> QED
      BY <1>6, <3>1, <3>2, <3>3 DEF Job
  <2>4. Fresh' /\ Resting'
    BY <1>2, <2>1, <2>3 DEF still, Inv, Ownership, Fresh, Resting, Busy
  <2>5. Lossless'
    <3>1. CASE StartFails \/ ResolveFails \/ FinishJob \/ LeaveJob
      BY <1>2, <3>1 DEF still, StartFails, ResolveFails, FinishJob, LeaveJob, Inv, Lossless
    <3>2. CASE PoolEnds
      <4>1. \E w \in Workers : worker[w].at = "gone"
        BY <3>2, RestorerAssumption DEF PoolEnds
      <4> QED
        BY <1>2, <2>1, <3>2, <4>1 DEF still, PoolEnds, Inv, Lossless, Busy
    <3>3. CASE CancelJob \/ MarkCancelled \/ Expire
      BY <1>2, <2>1, <3>3 DEF still, CancelJob, MarkCancelled, Expire, Ended, Inv, Lossless, Busy
    <3>4. CASE Bucket \/ UNCHANGED vars
      BY <1>2, <2>1, <3>4 DEF still, Bucket, Thawed, Archived, Outside, vars, Inv, Lossless, Busy
    <3> QED
      BY <1>6, <3>1, <3>2, <3>3, <3>4 DEF Job
  <2>6. Accounted'
    <3>1. CASE StartFails \/ ResolveFails
      BY <1>2, <3>1 DEF still, StartFails, ResolveFails, Inv, Ownership, Fresh, Accounted
    <3>2. CASE PoolEnds
      <4>1. \A w \in Workers : ~Busy(w) /\ worker[w].at = "gone"
        BY <3>2 DEF PoolEnds, Busy
      <4>2. ctx = "live" => Items \subseteq restored \cup failed
        BY <3>2, <4>1, RestorerAssumption DEF PoolEnds, Inv, Lossless
      <4> QED
        BY <1>2, <3>2, <4>2 DEF still, PoolEnds, Inv, TypeOK, Ownership, Once, Accounted
    <3>3. CASE FinishJob
      <4>1. main = "broken" => restored = {} /\ failed = {}
        BY DEF Inv, Ownership, Fresh
      <4>2. ctx' = ctx /\ (status' = Verdict \/ unwritten')
        BY <3>3 DEF FinishJob, WriteStatus
      <4> QED
        BY <1>2, <3>3, <4>1, <4>2 DEF still, FinishJob, Verdict, Inv, Accounted
    <3>4. CASE LeaveJob
      BY <1>2, <3>4 DEF still, LeaveJob, Inv, Accounted
    <3>5. CASE CancelJob \/ MarkCancelled \/ Expire
      BY <1>2, <3>5 DEF still, CancelJob, MarkCancelled, Expire, Inv, Lossless, Accounted, Ended
    <3>6. CASE Bucket \/ UNCHANGED vars
      BY <1>2, <3>6 DEF still, Bucket, Thawed, Archived, Outside, vars, Inv, Accounted
    <3> QED
      BY <1>6, <3>1, <3>2, <3>3, <3>4, <3>5, <3>6 DEF Job
  <2> QED
    BY <1>1, <1>4, <2>2, <2>4, <2>5, <2>6 DEF Inv, Ownership
<1> QED
  BY <1>5, <1>6

-----------------------------------------------------------------------------
(* The steps of the workers. *)

\* A step of w with item i and file f touches neither another item nor another file.
LEMMA FilesStep ==
  ASSUME Twice = {}, Inv, TypeOK', NEW w \in Workers, Busy(w), GoesOn(w),
         NEW i \in Items, NEW f \in Files, worker[w].item = i, f = FileOf(i),
         strategy' = strategy, queue' = queue, restored' \subseteq restored \cup {i},
         \A g \in Files \ {f} : out'[g] = out[g] /\ plain'[g] = plain[g],
         whole \ {i} \subseteq whole', unread \subseteq unread',
         PlainOf(f)', Placed(f)', InOrder(w)', i \in restored' => Delivered(i)'
  PROVE  FilesFollow'
<1>1. \A j \in Items \ {i} : FileOf(j) \in Files \ {f}
  BY OneItem, ItemFacts
<1>2. \A v \in Workers \ {w} : Busy(v) => worker[v].item \in Items \ {i} /\ Of(v) \in Files \ {f}
  BY <1>1 DEF Inv, TypeOK, HasItem, Ownership, Apart, Busy, Of
<1>3. \A v \in Workers \ {w} : worker'[v] = worker[v]
  BY DEF GoesOn
<1>4. ASSUME NEW g \in Files
      PROVE  PlainOf(g)' /\ Placed(g)'
  <2>1. CASE g = f
    BY <2>1
  <2>2. CASE g # f
    <3>1. out'[g] = out[g] /\ plain'[g] = plain[g] /\ PlainOf(g) /\ Placed(g)
      BY <2>2 DEF Inv, FilesFollow
    <3>2. PlainOf(g)'
      BY <1>3, <2>2, <3>1 DEF PlainOf, Busy, Writing
    <3>3. Placed(g)'
      BY <2>2, <3>1 DEF Placed
    <3> QED
      BY <3>2, <3>3
  <2> QED
    BY <2>1, <2>2
<1>5. ASSUME NEW v \in Workers
      PROVE  InOrder(v)'
  <2>1. CASE v = w
    BY <2>1
  <2>2. CASE v # w
    <3>1. worker'[v] = worker[v] /\ InOrder(v)
      BY <1>3, <2>2 DEF Inv, FilesFollow
    <3>2. CASE Busy(v)
      <4>1. /\ worker[v].item \in Items \ {i} /\ Of(v) \in Files \ {f}
            /\ out'[Of(v)] = out[Of(v)] /\ plain'[Of(v)] = plain[Of(v)]
        BY <1>2, <2>2, <3>2
      <4> QED
        BY <3>1, <4>1 DEF InOrder, Busy, Writing, Of, Delivered
    <3>3. CASE ~Busy(v)
      BY <3>1, <3>3 DEF InOrder, Busy, Writing
    <3> QED
      BY <3>2, <3>3
  <2> QED
    BY <2>1, <2>2
<1>6. \A j \in queue' : out'[FileOf(j)] \in {None, Old}
  <2>1. \A j \in queue : j \in Items \ {i}
    BY DEF Inv, TypeOK, Ownership, Owned
  <2> QED
    BY <1>1, <2>1 DEF Inv, FilesFollow
<1>7. \A j \in restored' : Delivered(j)'
  <2>1. ASSUME NEW j \in restored', j # i
        PROVE  Delivered(j)'
    <3>1. j \in restored /\ j \in Items
      BY <2>1 DEF Inv, TypeOK
    <3>2. Delivered(j) /\ out'[FileOf(j)] = out[FileOf(j)]
      BY <1>1, <2>1, <3>1 DEF Inv, FilesFollow
    <3> QED
      BY <2>1, <3>2 DEF Delivered
  <2> QED
    BY <2>1
<1> QED
  BY <1>4, <1>5, <1>6, <1>7 DEF FilesFollow

\* A step of a worker that has an item and keeps it.
LEMMA OwnershipStep ==
  ASSUME Inv, NEW w \in Workers, Busy(w), GoesOn(w), worker'[w].item = worker[w].item, Busy(w)',
         UNCHANGED <<main, ctx, cancel, status, queue, restored, failed>>
  PROVE  Ownership' /\ Lossless' /\ Accounted'
<1>1. main = "pool"
  BY DEF Inv, Ownership, Resting
<1>2. \A v \in Workers : worker'[v].item = worker[v].item /\ (Busy(v)' <=> Busy(v))
  BY DEF GoesOn, Busy
<1>3. Ownership'
  BY <1>1, <1>2 DEF Inv, Ownership, Fresh, Resting, Owned, Apart, Once
<1>4. \A v \in Workers : worker'[v].at = "gone" => worker[v].at = "gone"
  BY DEF GoesOn, Busy
<1>5. Lossless'
  BY <1>1, <1>2, <1>4 DEF Inv, Lossless
<1>6. Accounted'
  BY <1>1 DEF Inv, Accounted
<1> QED
  BY <1>3, <1>5, <1>6

\* The same for the files that were there before.
LEMMA ExistingStep ==
  ASSUME Twice = {}, Inv, TypeOK', NEW w \in Workers, Busy(w), GoesOn(w),
         NEW i \in Items, NEW f \in Files, worker[w].item = i, f = FileOf(i),
         strategy' = strategy, \A g \in Files \ {f} : out'[g] = out[g],
         whole \ {i} \subseteq whole', unread \subseteq unread', faults > 0 => faults' > 0,
         f \in Existing => Replaced(f)'
  PROVE  ExistingFollows'
<1>1. ASSUME NEW g \in Existing
      PROVE  Replaced(g)'
  <2>1. CASE g = f
    BY <2>1
  <2>2. CASE g # f
    <3>1. g \in Files /\ out'[g] = out[g] /\ Replaced(g) /\ Placed(g)
      BY <2>2, RestorerAssumption DEF Inv, FilesFollow, ExistingFollows
    <3>2. out[g] \in whole \cup unread => out'[g] \in whole' \cup unread'
      <4>1. whole \cup unread \subseteq Items
        BY DEF Inv, TypeOK
      <4>2. out[g] \in whole \cup unread => out[g] # i
        BY <2>2, <3>1, <4>1, ItemFacts DEF Placed
      <4> QED
        BY <3>1, <4>2
    <3>3. \A v \in Workers : worker[v].at = "move" /\ Of(v) = g => worker'[v] = worker[v]
      BY <2>2 DEF GoesOn, Of
    <3>4. CASE \E v \in Workers : worker[v].at = "move" /\ Of(v) = g
      <4>1. \E v \in Workers : worker'[v].at = "move" /\ Of(v)' = g
        BY <3>3, <3>4 DEF Of
      <4> QED
        BY <3>1, <3>2, <4>1 DEF Replaced
    <3> QED
      BY <3>1, <3>2, <3>4 DEF Replaced
  <2> QED
    BY <2>1, <2>2
<1>2. \A g \in Existing : Replaced(g)'
  BY <1>1
<1> QED
  BY <1>2 DEF ExistingFollows, Replaced

\* What the invariant says of a worker with an item.
LEMMA AtWork ==
  ASSUME Twice = {}, Inv, NEW w \in Workers, Busy(w)
  PROVE  /\ worker[w].item \in Items /\ Of(w) \in Files /\ Of(w) = FileOf(worker[w].item)
         /\ worker[w].item # None /\ worker[w].item # Old
         /\ worker[w].item \notin restored \cup failed
         /\ \A v \in Workers : Busy(v) /\ Of(v) = Of(w) => v = w
         /\ plain[Of(w)] \in {None, worker[w].item}
         /\ ~Writing(w) /\ worker[w].at # "report" => plain[Of(w)] = None
         /\ InOrder(w) /\ Placed(Of(w))
         /\ Of(w) \in Existing => Replaced(Of(w))
<1>1. \A v \in Workers : Busy(v) => worker[v].item \in Items /\ FileOf(worker[v].item) \in Files
  BY ItemFacts DEF Inv, TypeOK, HasItem, Busy
<1>2. /\ worker[w].item \in Items /\ Of(w) \in Files /\ Of(w) = FileOf(worker[w].item)
      /\ worker[w].item # None /\ worker[w].item # Old
  BY <1>1, ItemFacts DEF Of
<1>3. \A v \in Workers : Busy(v) /\ Of(v) = Of(w) => v = w
  BY <1>1, OneItem DEF Of, Inv, Ownership, Apart
<1>4. PlainOf(Of(w)) /\ InOrder(w) /\ Placed(Of(w))
  BY <1>2 DEF Inv, FilesFollow
<1>5. /\ plain[Of(w)] \in {None, worker[w].item}
      /\ ~Writing(w) /\ worker[w].at # "report" => plain[Of(w)] = None
  <2>1. SUFFICES ASSUME plain[Of(w)] # None
                 PROVE  plain[Of(w)] = worker[w].item /\ (Writing(w) \/ worker[w].at = "report")
    OBVIOUS
  <2>2. PICK v \in Workers : /\ Busy(v) /\ worker[v].item = plain[Of(w)]
                             /\ FileOf(plain[Of(w)]) = Of(w)
                             /\ Writing(v) \/ worker[v].at = "report"
    BY <1>4, <2>1 DEF PlainOf
  <2>3. v = w
    BY <1>3, <2>2 DEF Of
  <2> QED
    BY <2>2, <2>3
<1>6. worker[w].item \notin restored \cup failed
  BY DEF Inv, Ownership, Owned
<1>7. Of(w) \in Existing => Replaced(Of(w))
  BY DEF Inv, ExistingFollows
<1> QED
  BY <1>2, <1>3, <1>4, <1>5, <1>6, <1>7

around == <<strategy, main, ctx, cancel, status, queue, restored, failed>>

\* A step on an item that is not the last on it.
LEMMA WorkStep ==
  ASSUME Twice = {}, Inv, TypeOK', NEW w \in Workers, Busy(w), GoesOn(w), Busy(w)',
         worker'[w].item = worker[w].item, UNCHANGED around,
         NEW i \in Items, NEW f \in Files, worker[w].item = i, Of(w) = f,
         \A g \in Files \ {f} : out'[g] = out[g] /\ plain'[g] = plain[g],
         whole \ {i} \subseteq whole', unread \subseteq unread', faults' = faults \/ faults' > 0,
         PlainOf(f)', Placed(f)', InOrder(w)', f \in Existing => Replaced(f)'
  PROVE  Inv'
<1> USE DEF around
<1>1. f = FileOf(i) /\ i \notin restored
  BY AtWork DEF Of
<1>2. FilesFollow'
  BY <1>1, FilesStep
<1>3. ExistingFollows'
  BY <1>1, ExistingStep
<1>4. Ownership' /\ Lossless' /\ Accounted'
  BY OwnershipStep
<1> QED
  BY <1>2, <1>3, <1>4 DEF Inv

\* A worker that gives up reports its item; the files stay, except that a failed move
\* may have taken what was there.
LEMMA ReportsFailure ==
  ASSUME Twice = {}, Inv, TypeOK', NEW w \in Workers, Busy(w), Report(w, FALSE),
         UNCHANGED around, plain' = plain, whole' = whole, unread \subseteq unread',
         faults' = faults \/ faults' > 0,
         \/ out' = out /\ worker[w].at # "move"
         \/ /\ worker[w].at = "move" /\ faults' > 0
            /\ out' \in IF worker[w].aside THEN {out} ELSE {out, [out EXCEPT ![Of(w)] = None]}
  PROVE  Inv'
<1> USE DEF around
<1>a. PICK i : i = worker[w].item
  OBVIOUS
<1>b. PICK f : f = Of(w)
  OBVIOUS
<1>1. /\ GoesOn(w) /\ worker'[w].at = "report" /\ worker'[w].ok = FALSE
      /\ worker'[w].item = i
  BY <1>a, ReportSteps, WorkerType DEF Inv
<1>2. /\ i \in Items /\ f \in Files /\ f = FileOf(i) /\ i # None
      /\ \A v \in Workers : Busy(v) /\ Of(v) = f => v = w
      /\ plain[f] \in {None, i} /\ InOrder(w) /\ Placed(f)
      /\ f \in Existing => Replaced(f)
  BY <1>a, <1>b, AtWork
<1>3. Busy(w)'
  BY <1>1 DEF Busy
<1>4. out'[f] = out[f] \/ (out'[f] = None /\ worker[w].at = "move" /\ ~worker[w].aside /\ faults' > 0)
  BY <1>b, <1>2 DEF Inv, TypeOK
<1>5. \A g \in Files \ {f} : out'[g] = out[g] /\ plain'[g] = plain[g]
  BY <1>b, <1>2 DEF Inv, TypeOK
<1>6. PlainOf(f)'
  BY <1>a, <1>1, <1>2, <1>3 DEF PlainOf
<1>7. Placed(f)'
  BY <1>2, <1>4 DEF Placed
<1>8. InOrder(w)'
  BY <1>1 DEF InOrder, Writing
<1>9. f \in Existing => Replaced(f)'
  <2> SUFFICES ASSUME f \in Existing PROVE Replaced(f)'
    OBVIOUS
  <2>1. \A v \in Workers : worker[v].at = "move" /\ Of(v) = f => worker[w].at = "move"
    BY <1>2 DEF Busy
  <2>2. CASE out'[f] = out[f]
    <3>1. CASE out[f] = Old
      BY <2>2, <3>1 DEF Replaced
    <3>2. CASE out[f] \in whole \cup unread /\ strategy \in {"other", "overwrite"}
      BY <2>2, <3>2 DEF Replaced
    <3>3. CASE out[f] = None /\ strategy \in {"other", "overwrite"} /\ faults' > 0
      BY <2>2, <3>3 DEF Replaced
    <3>4. CASE worker[w].at = "move" /\ strategy = "overwrite"
      <4>1. out[f] \in {None, Old} /\ faults' > 0
        BY <1>b, <1>2, <3>4 DEF InOrder, Busy
      <4> QED
        BY <2>2, <3>1, <3>3, <3>4, <4>1
    <3> QED
      BY <1>2, <2>1, <3>1, <3>2, <3>3, <3>4 DEF Replaced
  <2>3. CASE out'[f] = None /\ worker[w].at = "move" /\ ~worker[w].aside /\ faults' > 0
    <3>1. strategy \in {"skip", "rename"} => out[f] = None
      BY <1>b, <1>2, <2>3 DEF InOrder
    <3>2. strategy \in {"other", "overwrite"}
      BY <1>2, <3>1, ItemFacts DEF Replaced, Inv, TypeOK, Strategies
    <3> QED
      BY <2>3, <3>2 DEF Replaced
  <2> QED
    BY <1>4, <2>2, <2>3
<1>10. whole \ {i} \subseteq whole'
  OBVIOUS
<1> QED
  BY <1>1, <1>2, <1>3, <1>5, <1>6, <1>7, <1>8, <1>9, <1>10, <1>a, <1>b, WorkStep

\* A worker that goes on before it writes leaves the files alone.
LEMMA Proceeds ==
  ASSUME Twice = {}, Inv, TypeOK', NEW w \in Workers, Busy(w), NEW p \in Points, Go(w, p),
         UNCHANGED <<around, plain, whole, out, faults>>, unread' = unread,
         p \in {"download", "downloadAgain", "wait", "waitAgain", "decrypt"},
         ~Writing(w), worker[w].at # "report"
  PROVE  Inv'
<1> USE DEF around
<1>a. PICK i : i = worker[w].item
  OBVIOUS
<1>b. PICK f : f = Of(w)
  OBVIOUS
<1>1. GoesOn(w) /\ worker'[w].at = p /\ worker'[w].item = i
  BY <1>a, GoSteps, WorkerType DEF Inv
<1>2. /\ i \in Items /\ f \in Files /\ f = FileOf(i) /\ i # None
      /\ \A v \in Workers : Busy(v) /\ Of(v) = f => v = w
      /\ plain[f] = None /\ InOrder(w) /\ Placed(f)
      /\ f \in Existing => Replaced(f)
  BY <1>a, <1>b, AtWork
<1>3. Busy(w)'
  BY <1>1 DEF Busy
<1>4. out[f] \in {None, Old}
  BY <1>b, <1>2 DEF InOrder
<1>5. Of(w)' = f
  BY <1>a, <1>1, <1>2 DEF Of
<1>6. PlainOf(f)' /\ Placed(f)'
  BY <1>2, <1>4 DEF PlainOf, Placed
<1>7. InOrder(w)'
  BY <1>1, <1>4, <1>5 DEF InOrder, Writing
<1>8. f \in Existing => Replaced(f)'
  <2>1. \A v \in Workers : ~(worker[v].at = "move" /\ Of(v) = f)
    BY <1>2 DEF Busy, Writing
  <2> QED
    BY <1>2, <2>1 DEF Replaced
<1> QED
  BY <1>1, <1>2, <1>3, <1>6, <1>7, <1>8, <1>a, <1>b, WorkStep

LEMMA BusyPoint ==
  ASSUME NEW w \in Workers, worker[w].at \notin {"take", "gone"}
  PROVE  Busy(w)
BY DEF Busy

LEMMA EarlyInv ==
  ASSUME Twice = {}, Inv, TypeOK', NEW w \in Workers, CheckObject(w) \/ Wait(w) \/ Download(w) \/ Fails(w)
  PROVE  Inv'
<1> USE DEF around, Outside, disk, result
<1>1. Busy(w) /\ worker[w].at # "move"
  BY DEF CheckObject, Wait, Download, Fails, Busy
<1>2. CASE Report(w, FALSE)
  <2>1. UNCHANGED <<around, plain, whole, out, unread>>
    BY DEF CheckObject, Wait, Download, Fails
  <2>2. faults' = faults \/ faults' > 0
    BY FaultType DEF CheckObject, Wait, Download, Fails, Inv, TypeOK
  <2> QED
    BY <1>1, <1>2, <2>1, <2>2, ReportsFailure
<1>3. CASE CheckObject(w) \/ Wait(w) \/ (Download(w) /\ ~Report(w, FALSE))
  <2>1. /\ UNCHANGED <<around, plain, whole, out, faults>> /\ unread' = unread
        /\ ~Writing(w) /\ worker[w].at # "report"
    BY <1>3 DEF CheckObject, Wait, Download, Writing
  <2>2. \/ \E p \in {"download", "downloadAgain", "wait", "waitAgain", "decrypt"} : Go(w, p)
        \/ Report(w, FALSE)
    BY <1>3 DEF CheckObject, Wait, Download
  <2>3. {"download", "downloadAgain", "wait", "waitAgain", "decrypt"} \subseteq Points
    BY DEF Points
  <2> QED
    BY <1>1, <1>2, <2>1, <2>2, <2>3, Proceeds
<1> QED
  BY <1>2, <1>3 DEF Fails

LEMMA DecryptInv ==
  ASSUME Twice = {}, Inv, TypeOK', NEW w \in Workers, Decrypt(w)
  PROVE  Inv'
<1> USE DEF around, Outside, result
<1>0. PICK i : i = worker[w].item
  OBVIOUS
<1>f. PICK f : f = Of(w)
  OBVIOUS
<1>1. Busy(w) /\ worker[w].at = "decrypt" /\ ~Writing(w)
  BY DEF Decrypt, Busy, Writing
<1>2. /\ i \in Items /\ f \in Files /\ f = FileOf(i) /\ i # None
      /\ \A v \in Workers : Busy(v) /\ Of(v) = f => v = w
      /\ plain[f] = None /\ InOrder(w) /\ Placed(f)
      /\ f \in Existing => Replaced(f)
  BY <1>0, <1>f, <1>1, AtWork
<1>3. CASE Report(w, FALSE) /\ UNCHANGED <<plain, whole>>
  <2>1. UNCHANGED <<around, out, unread, faults>>
    BY DEF Decrypt
  <2> QED
    BY <1>1, <1>3, <2>1, ReportsFailure
<1>4. CASE /\ plain' = [plain EXCEPT ![f] = i] /\ whole' = whole \ {i}
           /\ worker' = [worker EXCEPT ![w].at = "decrypting", ![w].handle = i]
  <2>1. /\ GoesOn(w) /\ worker'[w].at = "decrypting" /\ worker'[w].handle = i
        /\ worker'[w].item = i
    BY <1>0, <1>2, <1>4, DecryptSteps, WorkerType DEF Inv
  <2>2. /\ UNCHANGED around /\ UNCHANGED <<out, unread, faults>>
        /\ plain'[f] = i /\ \A g \in Files \ {f} : out'[g] = out[g] /\ plain'[g] = plain[g]
    BY <1>2, <1>4 DEF Decrypt, Inv, TypeOK
  <2>3. out[f] \in {None, Old}
    BY <1>f, <1>1, <1>2 DEF InOrder
  <2>4. Busy(w)' /\ Writing(w)' /\ Of(w)' = f
    BY <1>2, <2>1 DEF Busy, Writing, Of
  <2>5. PlainOf(f)' /\ Placed(f)'
    BY <1>2, <2>1, <2>2, <2>3, <2>4 DEF PlainOf, Placed
  <2>6. InOrder(w)'
    BY <2>1, <2>2, <2>3, <2>4 DEF InOrder
  <2>7. f \in Existing => Replaced(f)'
    <3>1. \A v \in Workers : ~(worker[v].at = "move" /\ Of(v) = f)
      BY <1>1, <1>2 DEF Busy
    <3>2. out[f] \notin whole \cup unread
      BY <2>3, ItemFacts DEF Inv, TypeOK
    <3> QED
      BY <1>2, <2>2, <3>1, <3>2 DEF Replaced
  <2>8. whole \ {i} \subseteq whole'
    BY <1>4
  <2> QED
    BY <1>0, <1>f, <1>1, <1>2, <2>1, <2>2, <2>4, <2>5, <2>6, <2>7, <2>8, WorkStep
<1> QED
  BY <1>0, <1>f, <1>2, <1>3, <1>4 DEF Decrypt

\* From the plaintext to the check, and from the check to the destination.
LEMMA WritingInv ==
  ASSUME Twice = {}, Inv, TypeOK', NEW w \in Workers, NEW p \in {"verify", "conflict"}, Go(w, p),
         worker[w].at \in {"decrypting", "verify"},
         UNCHANGED <<around, plain, out>>, whole \subseteq whole', unread \subseteq unread',
         faults' = faults \/ faults' > 0,
         p = "conflict" => worker[w].item \in whole' \cup unread'
  PROVE  Inv'
<1> USE DEF around
<1>0. PICK i : i = worker[w].item
  OBVIOUS
<1>f. PICK f : f = Of(w)
  OBVIOUS
<1>1. Busy(w) /\ Writing(w) /\ p \in Points
  BY DEF Busy, Writing, Points
<1>2. /\ i \in Items /\ f \in Files /\ f = FileOf(i) /\ i # None
      /\ \A v \in Workers : Busy(v) /\ Of(v) = f => v = w
      /\ plain[f] = i /\ InOrder(w) /\ Placed(f)
      /\ f \in Existing => Replaced(f)
  BY <1>0, <1>f, <1>1, AtWork DEF InOrder
<1>3. GoesOn(w) /\ worker'[w].at = p /\ worker'[w].item = i
  BY <1>0, <1>1, GoSteps, WorkerType DEF Inv
<1>4. Busy(w)' /\ Writing(w)' /\ Of(w)' = f
  BY <1>2, <1>3 DEF Busy, Writing, Of
<1>5. out[f] \in {None, Old}
  BY <1>f, <1>1, <1>2 DEF InOrder
<1>6. PlainOf(f)' /\ Placed(f)'
  BY <1>2, <1>3, <1>4, <1>5 DEF PlainOf, Placed
<1>7. InOrder(w)'
  BY <1>0, <1>2, <1>3, <1>4, <1>5 DEF InOrder
<1>8. f \in Existing => Replaced(f)'
  <2>1. \A v \in Workers : ~(worker[v].at = "move" /\ Of(v) = f)
    BY <1>2 DEF Busy
  <2> QED
    BY <1>2, <2>1 DEF Replaced
<1> QED
  BY <1>0, <1>f, <1>1, <1>2, <1>3, <1>4, <1>6, <1>7, <1>8, WorkStep

LEMMA CheckInv ==
  ASSUME Twice = {}, Inv, TypeOK', NEW w \in Workers,
         Decrypted(w) \/ Misfits(w) \/ VerifyHash(w) \/ HashUnread(w)
  PROVE  Inv'
<1> USE DEF around, Outside, disk, result
<1>1. Busy(w) /\ worker[w].at \in {"decrypting", "verify"}
  BY DEF Decrypted, Misfits, VerifyHash, HashUnread, Busy
<1>2. UNCHANGED <<around, plain, out>> /\ whole \subseteq whole' /\ unread \subseteq unread'
  BY DEF Decrypted, Misfits, VerifyHash, HashUnread
<1>3. faults' = faults \/ faults' > 0
  BY FaultType DEF Decrypted, Misfits, VerifyHash, HashUnread, Inv, TypeOK
<1>4. CASE Decrypted(w) \/ Misfits(w)
  <2>1. Go(w, "verify")
    BY <1>4 DEF Decrypted, Misfits
  <2> QED
    BY <1>1, <1>2, <1>3, <2>1, WritingInv
<1>5. CASE HashUnread(w)
  <2>1. Go(w, "conflict") /\ worker[w].item \in unread'
    BY <1>5 DEF HashUnread
  <2> QED
    BY <1>1, <1>2, <1>3, <2>1, WritingInv
<1>6. CASE VerifyHash(w)
  <2>1. CASE Report(w, FALSE)
    BY <1>1, <1>2, <1>3, <1>6, <2>1, ReportsFailure DEF VerifyHash
  <2>2. CASE Go(w, "conflict") /\ plain[Of(w)] \in whole \cup {None}
    <3>1. plain[Of(w)] = worker[w].item /\ worker[w].item # None
      BY <1>1, AtWork DEF InOrder, Writing
    <3> QED
      BY <1>1, <1>2, <1>3, <2>2, <3>1, WritingInv
  <2> QED
    BY <1>6, <2>1, <2>2 DEF VerifyHash
<1> QED
  BY <1>4, <1>5, <1>6

LEMMA ConflictInv ==
  ASSUME Twice = {}, Inv, TypeOK', NEW w \in Workers, ResolveConflict(w)
  PROVE  Inv'
<1> USE DEF around, Outside, result
<1>0. PICK i : i = worker[w].item
  OBVIOUS
<1>f. PICK f : f = Of(w)
  OBVIOUS
<1>1. Busy(w) /\ Writing(w) /\ worker[w].at = "conflict"
  BY DEF ResolveConflict, Busy, Writing
<1>2. /\ i \in Items /\ f \in Files /\ f = FileOf(i) /\ i # None
      /\ \A v \in Workers : Busy(v) /\ Of(v) = f => v = w
      /\ plain[f] = i /\ i \in whole \cup unread /\ out[f] \in {None, Old} /\ Placed(f)
      /\ f \in Existing => Replaced(f)
  BY <1>0, <1>f, <1>1, AtWork DEF InOrder
<1>3. CASE Report(w, FALSE)
  <2>1. CASE out' = out
    BY <1>1, <1>3, <2>1, ReportsFailure DEF ResolveConflict
  <2>2. CASE out[f] # None /\ strategy = "overwrite"
    <3>1. worker'[w].at = "report"
      BY <1>3, ReportSteps, WorkerType DEF Inv
    <3>2. worker'[w].at = "move"
      BY <1>f, <2>2, MoveSteps, WorkerType DEF ResolveConflict, Inv
    <3> QED
      BY <3>1, <3>2
  <2> QED
    BY <1>f, <2>1, <2>2 DEF ResolveConflict
<1>4. CASE worker' = [worker EXCEPT ![w].at = "move", ![w].aside = out[f] # None /\ strategy = "rename"]
           /\ ~(out[f] # None /\ strategy = "skip")
  <2>1. /\ GoesOn(w) /\ worker'[w].at = "move" /\ worker'[w].item = i
        /\ worker'[w].aside = (out[f] # None /\ strategy = "rename")
    BY <1>0, <1>4, MoveSteps, WorkerType DEF Inv
  <2>2. Busy(w)' /\ Writing(w)' /\ Of(w)' = f
    BY <1>2, <2>1 DEF Busy, Writing, Of
  <2>3. /\ UNCHANGED around /\ UNCHANGED <<plain, whole, unread, faults>>
        /\ \A g \in Files \ {f} : out'[g] = out[g] /\ plain'[g] = plain[g]
        /\ out'[f] = IF out[f] # None /\ strategy = "overwrite" THEN None ELSE out[f]
    BY <1>f, <1>2 DEF ResolveConflict, Inv, TypeOK
  <2>4. PlainOf(f)' /\ Placed(f)'
    BY <1>2, <2>1, <2>2, <2>3 DEF PlainOf, Placed
  <2>5. InOrder(w)'
    BY <1>2, <1>4, <2>1, <2>2, <2>3 DEF InOrder
  <2>6. f \in Existing => Replaced(f)'
    <3>1. \A v \in Workers : ~(worker[v].at = "move" /\ Of(v) = f)
      BY <1>1, <1>2 DEF Busy
    <3>2. out[f] \notin whole \cup unread
      BY <1>2, ItemFacts DEF Inv, TypeOK
    <3>3. f \in Existing => out[f] = Old \/ (out[f] = None /\ strategy \in {"other", "overwrite"}
                                             /\ faults > 0)
      BY <1>2, <3>1, <3>2 DEF Replaced
    <3>4. CASE out'[f] = out[f]
      BY <2>3, <3>3, <3>4 DEF Replaced
    <3>5. CASE strategy = "overwrite"
      BY <1>2, <2>1, <2>2, <2>3, <3>5 DEF Replaced
    <3> QED
      BY <2>3, <3>4, <3>5
  <2> QED
    BY <1>0, <1>f, <1>1, <1>2, <2>1, <2>2, <2>3, <2>4, <2>5, <2>6, WorkStep
<1> QED
  BY <1>f, <1>3, <1>4 DEF ResolveConflict

LEMMA MoveInv ==
  ASSUME Twice = {}, Inv, TypeOK', NEW w \in Workers, Move(w)
  PROVE  Inv'
<1> USE DEF around, Outside, result
<1>0. PICK i : i = worker[w].item
  OBVIOUS
<1>f. PICK f : f = Of(w)
  OBVIOUS
<1>1. Busy(w) /\ Writing(w) /\ worker[w].at = "move"
  BY DEF Move, Busy, Writing
<1>2. /\ i \in Items /\ f \in Files /\ f = FileOf(i) /\ i # None
      /\ \A v \in Workers : Busy(v) /\ Of(v) = f => v = w
      /\ plain[f] = i /\ i \in whole \cup unread /\ out[f] \in {None, Old}
      /\ worker[w].aside => out[f] = Old /\ strategy = "rename"
      /\ ~worker[w].aside /\ strategy \in {"skip", "rename"} => out[f] = None
      /\ f \in Existing => Replaced(f)
  BY <1>0, <1>f, <1>1, AtWork DEF InOrder
<1>3. /\ GoesOn(w) /\ worker'[w].at = "report" /\ worker'[w].item = i
  BY <1>0, <1>2, ReportSteps, WorkerType DEF Move, Inv
<1>4. Busy(w)' /\ ~Writing(w)' /\ Of(w)' = f
  BY <1>2, <1>3 DEF Busy, Writing, Of
<1>5. /\ UNCHANGED around /\ UNCHANGED <<whole, unread, faults>>
      /\ plain'[f] = None /\ \A g \in Files \ {f} : out'[g] = out[g] /\ plain'[g] = plain[g]
      /\ out'[f] = IF worker[w].aside THEN out[f] ELSE i
  BY <1>f, <1>2 DEF Move, Inv, TypeOK
<1>6. PlainOf(f)' /\ Placed(f)'
  BY <1>2, <1>5 DEF PlainOf, Placed
<1>7. InOrder(w)'
  <2>1. Delivered(i)'
    BY <1>2, <1>5 DEF Delivered
  <2> QED
    BY <1>3, <1>4, <2>1 DEF InOrder
<1>8. f \in Existing => Replaced(f)'
  <2> SUFFICES ASSUME f \in Existing PROVE Replaced(f)'
    OBVIOUS
  <2>1. CASE worker[w].aside
    BY <1>2, <1>5, <2>1 DEF Replaced
  <2>2. CASE ~worker[w].aside
    <3>1. strategy \in {"other", "overwrite"}
      BY <1>2, <2>2, ItemFacts DEF Replaced, Inv, TypeOK, Strategies
    <3> QED
      BY <1>2, <1>5, <2>2, <3>1 DEF Replaced
  <2> QED
    BY <2>1, <2>2
<1> QED
  BY <1>0, <1>f, <1>1, <1>2, <1>3, <1>4, <1>5, <1>6, <1>7, <1>8, WorkStep

LEMMA MoveFailsInv ==
  ASSUME Twice = {}, Inv, TypeOK', NEW w \in Workers, MoveFails(w)
  PROVE  Inv'
<1> USE DEF around, Outside, result
<1>1. Busy(w) /\ worker[w].at = "move" /\ Report(w, FALSE)
  BY DEF MoveFails, Busy
<1>2. faults' > 0
  BY FaultType DEF MoveFails, Inv, TypeOK
<1>3. UNCHANGED <<around, plain, whole, unread>>
  BY DEF MoveFails
<1> QED
  BY <1>1, <1>2, <1>3, ReportsFailure DEF MoveFails

LEMMA CountInv ==
  ASSUME Twice = {}, Inv, TypeOK', NEW w \in Workers, Count(w)
  PROVE  Inv'
<1> USE DEF Outside
<1>0. PICK i : i = worker[w].item
  OBVIOUS
<1>f. PICK f : f = Of(w)
  OBVIOUS
<1>1. Busy(w) /\ worker[w].at = "report"
  BY DEF Count, Busy
<1>2. /\ i \in Items /\ f \in Files /\ f = FileOf(i) /\ i \notin restored \cup failed
      /\ \A v \in Workers : Busy(v) /\ Of(v) = f => v = w
      /\ worker[w].ok => Delivered(i)
      /\ Placed(f) /\ (f \in Existing => Replaced(f))
  BY <1>0, <1>f, <1>1, AtWork DEF InOrder
<1>3. GoesOn(w) /\ worker'[w].at = "take" /\ ~Busy(w)' /\ ~Writing(w)'
  BY CountSteps, WorkerType DEF Inv, Busy, Writing
<1>4. /\ UNCHANGED <<strategy, status, main, ctx, cancel, queue, whole, out, unread, faults>>
      /\ plain'[f] = None /\ \A g \in Files \ {f} : out'[g] = out[g] /\ plain'[g] = plain[g]
  BY <1>f, <1>2 DEF Count, Inv, TypeOK
<1>5. /\ restored' \cup failed' = restored \cup failed \cup {i}
      /\ restored' \subseteq restored \cup {i} /\ (i \in restored' => Delivered(i))
      /\ restored' \cap failed' = restored \cap failed
  BY <1>0, <1>2 DEF Count
<1>6. main = "pool"
  BY <1>1 DEF Inv, Ownership, Resting
<1>7. \A v \in Workers \ {w} : worker'[v] = worker[v] /\ (Busy(v)' <=> Busy(v))
  BY <1>3 DEF GoesOn, Busy
<1>8. FilesFollow'
  <2>1. PlainOf(f)' /\ Placed(f)' /\ InOrder(w)'
    BY <1>2, <1>3, <1>4 DEF PlainOf, Placed, InOrder, Writing
  <2>2. i \in restored' => Delivered(i)'
    BY <1>4, <1>5 DEF Delivered
  <2> QED
    BY <1>0, <1>1, <1>2, <1>3, <1>4, <1>5, <2>1, <2>2, FilesStep
<1>9. ExistingFollows'
  <2>1. f \in Existing => Replaced(f)'
    <3>1. \A v \in Workers : ~(worker[v].at = "move" /\ Of(v) = f)
      BY <1>1, <1>2 DEF Busy
    <3> QED
      BY <1>2, <1>4, <3>1 DEF Replaced
  <2> QED
    BY <1>0, <1>1, <1>2, <1>3, <1>4, <2>1, ExistingStep
<1>10. Ownership'
  <2>1. Fresh' /\ Resting'
    BY <1>4, <1>6 DEF Fresh, Resting
  <2>2. Owned'
    <3>1. \A v \in Workers \ {w} : Busy(v) => worker[v].item # i
      BY <1>0, <1>1 DEF Inv, Ownership, Apart
    <3> QED
      BY <1>3, <1>4, <1>5, <1>7, <3>1 DEF Inv, Ownership, Owned
  <2>3. Apart'
    BY <1>3, <1>7 DEF Inv, Ownership, Apart
  <2>4. Once'
    <3>1. i \notin queue
      BY <1>0, <1>1 DEF Inv, Ownership, Owned
    <3> QED
      BY <1>4, <1>5, <3>1 DEF Inv, Ownership, Once
  <2> QED
    BY <2>1, <2>2, <2>3, <2>4 DEF Ownership
<1>11. Lossless' /\ Accounted'
  <2>1. Lossless'
    <3>1. \A v \in Workers : worker'[v].at = "gone" => worker[v].at = "gone"
      BY <1>3, <1>7
    <3>2. ASSUME NEW j \in Items, j \in queue \cup restored \cup failed
                                  \/ \E v \in Workers : Busy(v) /\ worker[v].item = j
          PROVE  j \in queue' \cup restored' \cup failed'
                 \/ \E v \in Workers : Busy(v)' /\ worker'[v].item = j
      <4>1. CASE j = i \/ j \in queue \cup restored \cup failed
        BY <1>4, <1>5, <4>1
      <4>2. CASE j # i /\ \E v \in Workers : Busy(v) /\ worker[v].item = j
        <5>1. PICK v \in Workers : Busy(v) /\ worker[v].item = j
          BY <4>2
        <5>2. v # w
          BY <1>0, <4>2, <5>1
        <5> QED
          BY <1>7, <5>1, <5>2
      <4> QED
        BY <3>2, <4>1, <4>2
    <3> QED
      BY <1>4, <1>6, <3>1, <3>2 DEF Inv, Lossless
  <2>2. Accounted'
    BY <1>4, <1>6 DEF Accounted
  <2> QED
    BY <2>1, <2>2
<1> QED
  BY <1>8, <1>9, <1>10, <1>11 DEF Inv

LEMMA TakeInv ==
  ASSUME Twice = {}, Inv, TypeOK', NEW w \in Workers, Take(w)
  PROVE  Inv'
<1> USE DEF Outside, disk, result
<1>1. /\ main = "pool" /\ worker[w].at = "take" /\ ~Busy(w) /\ ~Writing(w)
      /\ UNCHANGED <<strategy, status, main, ctx, cancel, plain, whole, out, restored, failed,
                     unread, faults>>
  BY DEF Take, Busy, Writing
<1>2. /\ GoesOn(w)
      /\ \/ /\ worker'[w].item \in queue /\ queue' = queue \ {worker'[w].item}
            /\ worker'[w].at = IF Ended THEN "gone" ELSE "check"
         \/ worker'[w].at = "gone" /\ queue = {} /\ queue' = {}
  BY TakeSteps, WorkerType DEF Inv, TypeOK
<1>3. \A v \in Workers \ {w} : worker'[v] = worker[v] /\ (Busy(v)' <=> Busy(v))
                               /\ (Writing(v)' <=> Writing(v)) /\ Of(v)' = Of(v)
  BY <1>2 DEF GoesOn, Busy, Writing, Of
<1>4. ~Writing(w)' /\ (Busy(w)' => worker'[w].at = "check" /\ worker'[w].item \in queue)
  BY <1>2 DEF Busy, Writing
<1>5. queue' \subseteq queue /\ (Busy(w)' => worker'[w].item \notin queue')
  BY <1>2 DEF Busy
<1>6. FilesFollow'
  <2>1. \A f \in Files : PlainOf(f)' /\ Placed(f)'
    <3> SUFFICES ASSUME NEW f \in Files PROVE PlainOf(f)' /\ Placed(f)'
      OBVIOUS
    <3>1. PlainOf(f) /\ Placed(f)
      BY DEF Inv, FilesFollow
    <3>2. PlainOf(f)'
      BY <1>1, <1>3, <3>1 DEF PlainOf
    <3>3. Placed(f)'
      BY <1>1, <3>1 DEF Placed
    <3> QED
      BY <3>2, <3>3
  <2>2. \A v \in Workers : InOrder(v)'
    <3>1. InOrder(w)'
      <4>1. Busy(w)' => out[FileOf(worker'[w].item)] \in {None, Old}
        BY <1>4 DEF Inv, FilesFollow
      <4> QED
        BY <1>1, <1>2, <1>4, <4>1 DEF InOrder, Of
    <3>2. \A v \in Workers \ {w} : InOrder(v)'
      BY <1>1, <1>3 DEF Inv, FilesFollow, InOrder, Delivered
    <3> QED
      BY <3>1, <3>2
  <2>3. /\ \A i \in queue' : out'[FileOf(i)] \in {None, Old}
        /\ \A i \in restored' : Delivered(i)'
    BY <1>1, <1>5 DEF Inv, FilesFollow, Delivered
  <2> QED
    BY <2>1, <2>2, <2>3 DEF FilesFollow
<1>7. ExistingFollows'
  <2>1. \A v \in Workers : worker[v].at = "move" => worker'[v] = worker[v]
    BY <1>1, <1>3
  <2> QED
    BY <1>1, <2>1 DEF Inv, ExistingFollows, Replaced, Of
<1>8. Ownership'
  <2>1. Fresh' /\ Resting'
    BY <1>1 DEF Fresh, Resting
  <2>2. Owned'
    BY <1>1, <1>3, <1>4, <1>5 DEF Inv, Ownership, Owned, Once
  <2>3. Apart'
    BY <1>3, <1>4 DEF Inv, Ownership, Owned, Apart
  <2>4. Once'
    BY <1>1, <1>5 DEF Inv, Ownership, Once
  <2> QED
    BY <2>1, <2>2, <2>3, <2>4 DEF Ownership
<1>9. Lossless' /\ Accounted'
  <2>1. Lossless'
    <3>1. ctx = "live" => \/ worker'[w].at = "check" /\ Busy(w)' /\ queue' = queue \ {worker'[w].item}
                          \/ worker'[w].at = "gone" /\ queue = {} /\ queue' = {}
      BY <1>2 DEF Ended, Busy
    <3>2. ctx = "live" => \A i \in Items :
            i \in queue' \cup restored' \cup failed' \/ \E v \in Workers : Busy(v)' /\ worker'[v].item = i
      <4> SUFFICES ASSUME ctx = "live", NEW i \in Items
                   PROVE  i \in queue' \cup restored' \cup failed'
                          \/ \E v \in Workers : Busy(v)' /\ worker'[v].item = i
        OBVIOUS
      <4>1. CASE i \in queue
        BY <3>1, <4>1
      <4>2. CASE i \in restored \cup failed
        BY <1>1, <4>2
      <4>3. CASE \E v \in Workers : Busy(v) /\ worker[v].item = i
        BY <1>1, <1>3, <4>3
      <4> QED
        BY <1>1, <4>1, <4>2, <4>3 DEF Inv, Lossless
    <3>3. ctx = "live" /\ (\E v \in Workers : worker'[v].at = "gone") => queue' = {}
      BY <1>1, <1>3, <1>5, <3>1 DEF Inv, Lossless
    <3> QED
      BY <1>1, <3>2, <3>3 DEF Inv, Lossless
  <2>2. Accounted'
    BY <1>1 DEF Accounted
  <2> QED
    BY <2>1, <2>2
<1> QED
  BY <1>6, <1>7, <1>8, <1>9 DEF Inv

LEMMA NextInv == Twice = {} /\ Inv /\ [Next]_vars => Inv'
<1> SUFFICES ASSUME Twice = {}, Inv, [Next]_vars PROVE Inv'
  OBVIOUS
<1>1. TypeOK'
  BY NextType DEF Inv
<1>2. CASE Job \/ CancelJob \/ MarkCancelled \/ Expire \/ Bucket \/ UNCHANGED vars
  BY <1>2, OutsideInv
<1>3. ASSUME NEW w \in Workers, Step(w) \/ Fails(w) \/ Misfits(w) \/ HashUnread(w) \/ MoveFails(w)
      PROVE  Inv'
  BY <1>1, <1>3, TakeInv, EarlyInv, DecryptInv, CheckInv, ConflictInv, MoveInv, MoveFailsInv, CountInv
     DEF Step
<1> QED
  BY <1>2, <1>3 DEF Next, Failure, Over

-----------------------------------------------------------------------------
(* The theorems. *)

\* The inductive invariant holds: every item is queued, held by one worker or
\* counted; a plaintext belongs to the worker at work on it and is delivered only
\* after its check; and no item is lost while the job's context lives.
THEOREM RestorerInvariant == ASSUME Twice = {} PROVE Spec => []Inv
<1>1. Init => Inv
  BY InitInv
<1>2. Inv /\ [Next]_vars => Inv'
  BY NextInv
<1> QED
  BY <1>1, <1>2, PTL DEF Spec

\* What a job counts as restored is there and whole, or could not be read for its
\* check: VerifyHash and Move look at the temporary name, and it is its worker's.
THEOREM RestoredIsWhole == ASSUME Twice = {} PROVE Spec => []DeliveredWhole
<1>1. Inv => DeliveredWhole
  BY DEF Inv, FilesFollow, Delivered, DeliveredWhole
<1> QED
  BY <1>1, RestorerInvariant, PTL

\* What was at a destination is untouched by skip and rename, and replaced by overwrite,
\* or lost to a failure of its move.
THEOREM ExistingIsReplaced == ASSUME Twice = {} PROVE Spec => []ExistingReplaced
<1>1. Inv => ExistingReplaced
  BY DEF Inv, TypeOK, Strategies, ExistingFollows, Replaced, ExistingReplaced
<1> QED
  BY <1>1, RestorerInvariant, PTL

\* A job left to run counts every item once, and the status says what became of them,
\* unless UpdateStatus failed for this job.
THEOREM EveryItemAccounted == ASSUME Twice = {} PROVE Spec => []Accounted
<1>1. Inv => Accounted
  BY DEF Inv
<1> QED
  BY <1>1, RestorerInvariant, PTL
=============================================================================
