------------------------------- MODULE MCQuota -------------------------------
(* Module Quota for TLC: executions of the script are interchangeable. *)
EXTENDS Quota, TLC

Symmetry == Permutations(Execs)
=============================================================================
