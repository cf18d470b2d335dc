----------------------------- MODULE MCJobList -----------------------------
EXTENDS JobList, TLC
PidSymmetry == Permutations(Pids)
============================================================================
