------------------------------ MODULE MCCarrier ------------------------------
(* Carrier with interchangeable workers and interchangeable sessions.      *)
EXTENDS Carrier, TLC

Symmetry == Permutations(Sessions) \cup Permutations(Workers)
=============================================================================
