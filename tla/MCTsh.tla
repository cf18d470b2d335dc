------------------------------- MODULE MCTsh -------------------------------
EXTENDS TshProperties, TLC
(* Pids are interchangeable.  Sound for safety only: run TshLive does      *)
(* without it.                                                             *)
PidSymmetry == Permutations(Pids)
============================================================================
