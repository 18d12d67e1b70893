-------------------------- MODULE SnapshotRegister --------------------------
(***************************************************************************)
(* What the engine takes the snapshot of its database in the bucket for    *)
(* when it pushes and pulls: a register with one writer.  The register is  *)
(* not atomic - while a write is open, and after one that was cut, it may  *)
(* hold nothing or nothing that can be read - but it never goes back to an *)
(* older version, and a read that answers gives what the register held at  *)
(* one moment between its beginning and its end.                           *)
(***************************************************************************)
EXTENDS Naturals

CONSTANTS
  Readers,  \* those who pull
  Absent,   \* no snapshot: the pull keeps the local database
  Broken    \* a snapshot that cannot be read: the pull fails

VARIABLES
  value,   \* what is in the register: a version, Absent or Broken
  open,    \* whether a write is under way
  latest,  \* the version of the last write that was begun
  window,  \* for each read under way, what the register held since it began
  got      \* what the last read of each reader answered

regvars == <<value, open, latest, window, got>>

Reading(r) == window[r] # {}

Init ==
  /\ value = Absent /\ open = FALSE /\ latest = 0
  /\ window = [r \in Readers |-> {}]
  /\ got = [r \in Readers |-> Absent]

\* A new version is to be written.
Begin ==
  /\ ~open /\ open' = TRUE
  /\ latest' = latest + 1
  /\ UNCHANGED <<value, window, got>>

\* The open write changes the register; it may end with that.
Write ==
  /\ open /\ open' \in BOOLEAN
  /\ value' \in {latest, Broken, Absent}
  /\ window' = [r \in Readers |-> IF Reading(r) THEN window[r] \cup {value'} ELSE {}]
  /\ UNCHANGED <<latest, got>>

\* The write ends, having changed the register or not.
End == open /\ open' = FALSE /\ UNCHANGED <<value, latest, window, got>>

Read(r) ==
  /\ ~Reading(r)
  /\ window' = [window EXCEPT ![r] = {value}]
  /\ UNCHANGED <<value, open, latest, got>>

Answer(r) ==
  /\ \E v \in window[r] \ {Broken} : got' = [got EXCEPT ![r] = v]
  /\ window' = [window EXCEPT ![r] = {}]
  /\ UNCHANGED <<value, open, latest>>

\* A read that takes no time.
AnswerAtOnce(r) ==
  /\ ~Reading(r) /\ value # Broken
  /\ got' = [got EXCEPT ![r] = value]
  /\ UNCHANGED <<value, open, latest, window>>

Refuse(r) ==
  /\ Reading(r)
  /\ window' = [window EXCEPT ![r] = {}]
  /\ UNCHANGED <<value, open, latest, got>>

\* The process of the writer and the readers dies.
Die ==
  /\ open' = FALSE
  /\ window' = [r \in Readers |-> {}]
  /\ UNCHANGED <<value, latest, got>>

Next ==
  \/ Begin \/ Write \/ End \/ Die
  \/ \E r \in Readers : Read(r) \/ Answer(r) \/ AnswerAtOnce(r) \/ Refuse(r)

Spec == Init /\ [][Next]_regvars
=============================================================================
