----------------------------- MODULE MCEndpoints -----------------------------
(* Endpoints with a small deployment: three endpoints under two accounts.  *)
EXTENDS Endpoints, TLC

TwoAccounts == [e \in 0..2 |-> IF e = 2 THEN "b" ELSE "a"]

(* A connection refused, a network that is down, and a page that reports   *)
(* an exhausted quota and asks to try again.                               *)
SomeAnswers ==
  {[what |-> "error", signs |-> {}], [what |-> "error", signs |-> {"errno"}],
   [what |-> "page", phrases |-> {"quota", "transient"}]}

Symmetry == Permutations(Workers)
=============================================================================
