----------------------------- MODULE MCRestorer -----------------------------
(* Small restore jobs. *)
EXTENDS Restorer
=============================================================================
