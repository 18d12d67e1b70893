-------------------------- MODULE MCBackupPipeline --------------------------
(* The pipeline on two paths and two or three contents. *)
EXTENDS BackupProperties, TLC
CONSTANTS p1, p2, h1, h2, h3

\* Contents may be exchanged where all of them may be used again, and paths where
\* all are compressible.
Exchanges == Permutations(Hashes) \cup Permutations(Paths)

\* Contents may be exchanged where none of them may be used again, too.
Contents == Permutations(Hashes)
=============================================================================
