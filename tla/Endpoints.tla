------------------------------ MODULE Endpoints ------------------------------
(***************************************************************************)
(* Which relay endpoint a poll uses: the rotation, the health back-off of  *)
(* every endpoint, the idle slots of every account bucket, the failover of *)
(* pollOnce, and the recovery probe (core/internal/carrier/client.go).     *)
(*                                                                         *)
(* Every action on the endpoint table is one critical section of           *)
(* Client.endpointMu; workers interleave between them.  A back-off is a    *)
(* flag (blacklistedTill is in the future) that time may clear at any      *)
(* moment; how long it lasts (endpointBlacklistTTL) is left out.           *)
(***************************************************************************)
EXTENDS Integers, FiniteSets

CONSTANTS
  N,          \* number of endpoints, 0 .. N-1
  Bucket,     \* the bucket of each endpoint: its account, or its own URL
  IdleSlots,  \* idleSlotsPerBucket as New resolves it
  Workers,    \* poll workers
  Answers,    \* what may come back from a POST instead of a batch
  MaxFail     \* bound: failCount

Index == 0..(N - 1)
None == -1
Buckets == {Bucket[e] : e \in Index}

Failures == {"failure", "http403", "http429", "hard", "offline"}

(* A transport error shows signs of the local network being down or none;  *)
(* a page instead of a batch contains phrases of several categories.       *)
OfflineSigns == {"dns", "dialTimeout", "errno", "message"}
HardPhrases == {"quota", "authorization", "deployment", "administrator"}
AllAnswers ==
  [what : {"error"}, signs : SUBSET OfflineSigns]
    \cup [what : {"page"}, phrases : SUBSET (HardPhrases \cup {"transient"})]
    \cup [what : {"unreadable", "403", "429", "status", "garbled"}]

ASSUME EndpointsAssumption ==
  /\ N \in Nat \ {0}
  /\ DOMAIN Bucket = Index
  /\ IdleSlots \in Nat \ {0}
  /\ Cardinality(Buckets) = 1 => IdleSlots >= 2
  /\ IsFiniteSet(Workers)
  /\ Answers \subseteq AllAnswers
  /\ MaxFail \in Nat \ {0}

VARIABLES
  fail,      \* failCount of each endpoint
  listed,    \* endpoints whose blacklistedTill is after now
  offline,   \* endpoints with localNetworkOffline set
  next,      \* nextEndpoint
  used,      \* inFlightByBucket
  poll,      \* where each worker is in pollOnce
  probe,     \* the recovery probe is dialing
  missed     \* history: picks in a row that passed an eligible endpoint by

health == <<fail, listed, offline>>
vars == <<health, next, used, poll, probe, missed>>

NoPoll == [at |-> "idle", idle |-> FALSE, attempt |-> 1, ep |-> None, held |-> None]

Polls == [at : {"idle", "pick", "posted", "retry", "end"}, idle : BOOLEAN,
          attempt : 1..2, ep : Index \cup {None}, held : Index \cup {None}]

(* maxAttempts *)
MaxAttempts == IF N > 1 THEN 2 ELSE 1

Init ==
  /\ fail = [e \in Index |-> 0]
  /\ listed = {}
  /\ offline = {}
  /\ next = 0
  /\ used = [b \in Buckets |-> 0]
  /\ poll = [w \in Workers |-> NoPoll]
  /\ probe = FALSE
  /\ missed = [e \in Index |-> 0]

---------------------------------------------------------------------------
(* pollOnce: choosing an endpoint.                                         *)

(* drainAll has returned; a poll without frames is an idle long-poll.      *)
Start(w) ==
  /\ poll[w].at = "idle"
  /\ \E idle \in BOOLEAN :
       poll' = [poll EXCEPT ![w] = [@ EXCEPT !.at = "pick", !.idle = idle]]
  /\ UNCHANGED <<health, next, used, probe, missed>>

(* Endpoints that pickRelayEndpoint, or pickIdleEndpoint, would take.      *)
Eligible(idle) ==
  {e \in Index \ listed : idle => used[Bucket[e]] < IdleSlots}

(* How far the rotation is from e. *)
Ahead(e) == IF e >= next THEN e - next ELSE e - next + N

First(S) == CHOOSE e \in S : \A d \in S : Ahead(e) <= Ahead(d)

Passed(S, pick) ==
  [e \in Index |-> IF e \in S \ {pick} THEN missed[e] + 1 ELSE 0]

(* Mutation of PickIdle: the cursor stays where it is. *)
PickIdle_StickyCursor(w) ==
  /\ poll[w].at = "pick" /\ poll[w].idle
  /\ Eligible(TRUE) # {}
  /\ LET e == First(Eligible(TRUE))
     IN  /\ used' = [used EXCEPT ![Bucket[e]] = @ + 1]
         /\ poll' = [poll EXCEPT ![w] = [@ EXCEPT !.at = "posted", !.ep = e, !.held = e]]
         /\ missed' = Passed(Eligible(TRUE), e)
  /\ UNCHANGED <<health, next, probe>>

(* Mutation of PickRelay: the cursor does not wrap around. *)
PickRelay_NoWrap(w) ==
  /\ poll[w].at = "pick" /\ ~poll[w].idle
  /\ Eligible(FALSE) # {}
  /\ LET e == First(Eligible(FALSE))
     IN  /\ next' = e + 1
         /\ poll' = [poll EXCEPT ![w] = [@ EXCEPT !.at = "posted", !.ep = e]]
         /\ missed' = Passed(Eligible(FALSE), e)
  /\ UNCHANGED <<health, used, probe>>

(* pickRelayEndpoint *)
PickRelay(w) ==
  /\ poll[w].at = "pick" /\ ~poll[w].idle
  /\ Eligible(FALSE) # {}
  /\ LET e == First(Eligible(FALSE))
     IN  /\ next' = (e + 1) % N
         /\ poll' = [poll EXCEPT ![w] = [@ EXCEPT !.at = "posted", !.ep = e]]
         /\ missed' = Passed(Eligible(FALSE), e)
  /\ UNCHANGED <<health, used, probe>>

(* pickIdleEndpoint, which also reserves a slot of the bucket. *)
PickIdle(w) ==
  /\ poll[w].at = "pick" /\ poll[w].idle
  /\ Eligible(TRUE) # {}
  /\ LET e == First(Eligible(TRUE))
     IN  /\ next' = (e + 1) % N
         /\ used' = [used EXCEPT ![Bucket[e]] = @ + 1]
         /\ poll' = [poll EXCEPT ![w] = [@ EXCEPT !.at = "posted", !.ep = e, !.held = e]]
         /\ missed' = Passed(Eligible(TRUE), e)
  /\ UNCHANGED <<health, probe>>

(* Nothing to pick: pollOnce returns. *)
PickNone(w) ==
  /\ poll[w].at = "pick"
  /\ Eligible(poll[w].idle) = {}
  /\ poll' = [poll EXCEPT ![w].at = "end"]
  /\ UNCHANGED <<health, next, used, probe, missed>>

---------------------------------------------------------------------------
(* pollOnce: the outcome of a POST.                                        *)

(* markEndpointSuccess *)
Success(w) ==
  LET e == poll[w].ep
  IN  /\ poll[w].at = "posted"
      /\ fail' = [fail EXCEPT ![e] = 0]
      /\ listed' = listed \ {e}
      /\ offline' = offline \ {e}
      /\ poll' = [poll EXCEPT ![w].at = "end"]
      /\ UNCHANGED <<next, used, probe, missed>>

(* After a failed attempt: another one, or the end of the poll. *)
AfterFailure(w) ==
  IF poll[w].attempt < MaxAttempts
  THEN [poll EXCEPT ![w] = [@ EXCEPT !.at = "retry", !.attempt = poll[w].attempt + 1]]
  ELSE [poll EXCEPT ![w].at = "end"]

(* isLocalNetworkOffline *)
LocalNetworkOffline(signs) == signs # {}

(* classifyRelayErrorBody: one phrase of a hard category is enough, also   *)
(* on a page that asks to try again.                                       *)
HardPage(phrases) == phrases \cap HardPhrases # {}

(* The class of failure that pollOnce makes of what came back. *)
Class(answer) ==
  CASE answer.what = "error" -> IF LocalNetworkOffline(answer.signs) THEN "offline" ELSE "failure"
    [] answer.what = "page"  -> IF HardPage(answer.phrases) THEN "hard" ELSE "failure"
    [] answer.what = "403"   -> "http403"
    [] answer.what = "429"   -> "http429"
    [] OTHER                 -> "failure"

Classes == {Class(answer) : answer \in Answers}

(* minFailCount of each class of failure. *)
Floor(kind) == CASE kind \in {"http403", "hard"} -> 5
                 [] kind = "http429" -> 3
                 [] OTHER -> 0

MaxOf(a, b) == IF a < b THEN b ELSE a

(* markEndpointFailureWith *)
Fail(w, kind) ==
  LET e == poll[w].ep
  IN  /\ poll[w].at = "posted"
      /\ kind \in Classes \ {"offline"}
      /\ fail[e] < MaxFail
      /\ fail' = [fail EXCEPT ![e] = MaxOf(@, Floor(kind)) + 1]
      /\ listed' = listed \cup {e}
      /\ offline' = offline \ {e}
      /\ poll' = AfterFailure(w)
      /\ UNCHANGED <<next, used, probe, missed>>

(* markEndpointLocalNetworkFailure *)
FailOffline(w) ==
  LET e == poll[w].ep
  IN  /\ poll[w].at = "posted"
      /\ "offline" \in Classes
      /\ fail' = [fail EXCEPT ![e] = 0]
      /\ listed' = listed \cup {e}
      /\ offline' = offline \cup {e}
      /\ poll' = AfterFailure(w)
      /\ UNCHANGED <<next, used, probe, missed>>

(* The context is cancelled, or no request can be built. *)
Abandon(w) ==
  /\ poll[w].at = "posted"
  /\ poll' = [poll EXCEPT ![w].at = "end"]
  /\ UNCHANGED <<health, next, used, probe, missed>>

(* releaseBucketSlot *)
Released(w) ==
  LET h == poll[w].held
  IN  IF h = None THEN used
      ELSE [used EXCEPT ![Bucket[h]] = IF @ > 0 THEN @ - 1 ELSE 0]

(* Mutation of Retry: the slot of the failed attempt is kept. *)
Retry_KeepSlot(w) ==
  /\ poll[w].at = "retry"
  /\ poll' = [poll EXCEPT ![w] = [@ EXCEPT !.at = "pick", !.held = None]]
  /\ UNCHANGED <<health, next, used, probe, missed>>

(* The second attempt gives the first one's slot back before it picks. *)
Retry(w) ==
  /\ poll[w].at = "retry"
  /\ used' = Released(w)
  /\ poll' = [poll EXCEPT ![w] = [@ EXCEPT !.at = "pick", !.held = None]]
  /\ UNCHANGED <<health, next, probe, missed>>

(* The deferred releaseBucketSlot. *)
End(w) ==
  /\ poll[w].at = "end"
  /\ used' = Released(w)
  /\ poll' = [poll EXCEPT ![w] = NoPoll]
  /\ UNCHANGED <<health, next, probe, missed>>

---------------------------------------------------------------------------
(* Time, and the recovery loop.                                            *)

(* A back-off runs out; the counters stay. *)
Expire(e) ==
  /\ e \in listed
  /\ listed' = listed \ {e}
  /\ UNCHANGED <<fail, offline, next, used, poll, probe, missed>>

(* shouldRunLocalNetworkRecoveryProbe; the dial follows without the lock.  *)
ProbeStart ==
  /\ ~probe
  /\ Index \subseteq listed
  /\ offline # {}
  /\ probe' = TRUE
  /\ UNCHANGED <<health, next, used, poll, missed>>

ProbeFails ==
  /\ probe
  /\ probe' = FALSE
  /\ UNCHANGED <<health, next, used, poll, missed>>

(* Mutation of ProbeReset: the flag is cleared and the back-off is not. *)
ProbeReset_KeepListed ==
  /\ probe
  /\ probe' = FALSE
  /\ offline' = {}
  /\ fail' = [e \in Index |-> IF e \in offline THEN 0 ELSE fail[e]]
  /\ UNCHANGED <<listed, next, used, poll, missed>>

(* resetLocalNetworkFailures *)
ProbeReset ==
  /\ probe
  /\ probe' = FALSE
  /\ fail' = [e \in Index |-> IF e \in offline THEN 0 ELSE fail[e]]
  /\ listed' = listed \ offline
  /\ offline' = {}
  /\ UNCHANGED <<next, used, poll, missed>>

---------------------------------------------------------------------------
(* Shutdown sends its RSTs through an endpoint of the rotation, beside the *)
(* polls that are still running, and reports neither success nor failure.  *)
Shutdown ==
  /\ Eligible(FALSE) # {}
  /\ LET e == First(Eligible(FALSE))
     IN  /\ next' = (e + 1) % N
         /\ missed' = Passed(Eligible(FALSE), e)
  /\ UNCHANGED <<health, used, poll, probe>>

Poll(w) ==
  \/ Start(w) \/ PickRelay(w) \/ PickIdle(w) \/ PickNone(w)
  \/ Success(w) \/ (\E kind \in Failures : Fail(w, kind)) \/ FailOffline(w)
  \/ Abandon(w) \/ Retry(w) \/ End(w)

Next ==
  \/ \E w \in Workers : Poll(w)
  \/ \E e \in Index : Expire(e)
  \/ ProbeStart \/ ProbeFails \/ ProbeReset
  \/ Shutdown

Spec == Init /\ [][Next]_vars

---------------------------------------------------------------------------
(* The endpoint table, the cursor and the polls stay well formed. *)
TypeOK ==
  /\ fail \in [Index -> Nat]
  /\ listed \subseteq Index
  /\ offline \subseteq Index
  /\ next \in Index
  /\ used \in [Buckets -> Nat]
  /\ poll \in [Workers -> Polls]
  /\ probe \in BOOLEAN
  /\ missed \in [Index -> Nat]
  /\ \A w \in Workers : poll[w].at = "posted" => poll[w].ep \in Index

Holders(b) == {w \in Workers : poll[w].held # None /\ Bucket[poll[w].held] = b}

SlotsCounted ==
  \A b \in Buckets : used[b] = Cardinality(Holders(b)) /\ used[b] <= IdleSlots

(* An idle poll under way holds a slot of the endpoint it went to, an      *)
(* active one holds none.                                                  *)
IdlePollsHoldSlots ==
  \A w \in Workers : poll[w].at = "posted" =>
    poll[w].held = IF poll[w].idle THEN poll[w].ep ELSE None

(* Every reserved idle slot belongs to one poll that will give it back,    *)
(* across failover, early returns and success, so a bucket never loses     *)
(* capacity; no account sees more standing polls than its slots, and every *)
(* standing poll is counted against the account it really went to.         *)
SlotAccounting == SlotsCounted /\ IdlePollsHoldSlots

(* Active and idle polls share one cursor, and an endpoint that every pick *)
(* could have taken is passed by at most once for each of its peers.       *)
RoundRobinFair == \A e \in Index : missed[e] < N

(* An endpoint out of rotation has a reason on record, either a failure    *)
(* count (it is retried when its back-off ends) or the local-offline flag  *)
(* (the recovery probe may bring it back), never both and never neither.   *)
BackoffHasReason ==
  /\ \A e \in offline : fail[e] = 0
  /\ \A e \in listed : fail[e] > 0 \/ e \in offline
=============================================================================
