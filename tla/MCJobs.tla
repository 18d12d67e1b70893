------------------------------- MODULE MCJobs -------------------------------
EXTENDS Jobs, TLC

Symmetry == Permutations(Sessions) \cup Permutations(Restores)

=============================================================================
