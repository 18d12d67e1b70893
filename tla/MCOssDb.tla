------------------------------ MODULE MCOssDb ------------------------------
(* Pushes and pulls of the snapshot, with interchangeable readers. *)
EXTENDS OssDb, TLC

Symmetry == Permutations(Readers)
=============================================================================
