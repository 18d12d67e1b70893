---------------------------- MODULE MCMaintenance ----------------------------
(* Maintenance beside the pipeline, on one or two paths. *)
EXTENDS Maintenance
CONSTANTS p1, p2, h1, h2, h3
=============================================================================
