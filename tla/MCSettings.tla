----------------------------- MODULE MCSettings -----------------------------
(* Two handlers on one directory, a rule or two, and the schedule. *)
EXTENDS Settings, TLC

Symmetry == Permutations(Handlers)
=============================================================================
