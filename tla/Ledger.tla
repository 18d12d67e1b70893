------------------------------- MODULE Ledger -------------------------------
(***************************************************************************)
(* What the owner of the files takes the backup history for: a ledger.     *)
(* One session is entered at a time, with its rows, and no entry is ever   *)
(* changed or removed.  While the ledger is in the bucket only finished    *)
(* sessions are entered; without one there it is kept at home, where the   *)
(* failed and cancelled ones are entered too.                              *)
(***************************************************************************)
EXTENDS Naturals, Sequences

VARIABLES
  sessions,  \* the status of each session that is over
  rows,      \* their rows, each with the number of its session
  online     \* whether the ledger is in the bucket

Finished == {"completed", "completed_with_errors"}
Outcomes == Finished \cup {"failed", "cancelled"}

Init == sessions = << >> /\ rows = {} /\ online = FALSE

\* One session more, with an outcome of S, and no rows but its own.
Enter(S) ==
  /\ \E s \in S : sessions' = Append(sessions, s)
  /\ rows \subseteq rows'
  /\ \A r \in rows' \ rows : r.backup = Len(sessions')

\* A session ends at home.
Close == ~online /\ ~online' /\ Enter(Outcomes)

\* The ledger goes to the bucket as it is.
Publish == ~online /\ online' /\ UNCHANGED <<sessions, rows>>

\* A finished session is entered in the bucket.
Extend == online /\ online' /\ Enter(Finished)

\* Entering it there destroyed the ledger; the one at home has the session too.
Withdraw == online /\ ~online' /\ Enter(Finished)

Next == Close \/ Publish \/ Extend \/ Withdraw

Spec == Init /\ [][Next]_<<sessions, rows, online>>
=============================================================================
