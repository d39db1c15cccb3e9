---------------------------- MODULE MCExitServer -----------------------------
(* Values of the constants of ExitServer for TLC. *)
EXTENDS ExitServer, TLC

(* Every session dials the same target. *)
OneTarget == [s \in Ids |-> "t"]

(* A request opens the session, perhaps with more of it, or carries one    *)
(* frame.  A RST is routed as data is, so it stands for both.              *)
AllRequests ==
  {<<>>, <<"syn">>, <<"syn", "fin">>, <<"fin">>, <<"rst">>, <<"probe">>}

OpenRequests == {<<>>, <<"syn">>}

(* Handlers, clients and session IDs are not told apart by any action or   *)
(* invariant: all IDs have the same target.                                *)
Symmetry == Permutations(Handlers) \cup Permutations(Clients) \cup Permutations(Ids)
=============================================================================
