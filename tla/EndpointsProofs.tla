--------------------------- MODULE EndpointsProofs ---------------------------
(***************************************************************************)
(* Theorems about the endpoint rotation, for any number of endpoints, any  *)
(* assignment of endpoints to accounts and any finite set of workers.      *)
(***************************************************************************)
EXTENDS Endpoints, FiniteSetTheorems, WellFoundedInduction, TLAPS

(* A set of naturals that is not empty has a least element. *)
LEMMA LeastElement ==
  ASSUME NEW T \in SUBSET Nat, T # {}
  PROVE  \E m \in T : \A n \in T : m <= n
<1>1. PICK m \in T : \A n \in T : ~ (<<n, m>> \in OpToRel(<, Nat))
  BY NatLessThanWellFounded, WFMin, Zenon
<1>2. \A n \in T : ~ (n < m)
  BY <1>1 DEF OpToRel
<1>. QED
  BY <1>2

(* nextEndpoint after a pick. *)
LEMMA Cursor ==
  ASSUME NEW e \in Index
  PROVE  (e + 1) % N = IF e = N - 1 THEN 0 ELSE e + 1
BY EndpointsAssumption, SMTT(30) DEF Index

(* The pick is an eligible endpoint, and none is nearer to the cursor. *)
LEMMA FirstFact ==
  ASSUME TypeOK, NEW S \in SUBSET Index, S # {}
  PROVE  First(S) \in S /\ \A d \in S : Ahead(First(S)) <= Ahead(d)
<1>1. \A e \in S : Ahead(e) \in Nat
  BY EndpointsAssumption DEF TypeOK, Ahead, Index
<1>. DEFINE T == {Ahead(e) : e \in S}
<1>2. \E m \in T : \A n \in T : m <= n
  <2>1. T \in SUBSET Nat /\ T # {}
    BY <1>1
  <2>. HIDE DEF T
  <2>. QED
    BY <2>1, LeastElement
<1>3. \E e \in S : \A d \in S : Ahead(e) <= Ahead(d)
  BY <1>2
<1>. QED
  BY <1>3 DEF First

---------------------------------------------------------------------------
(* Types.                                                                  *)

LEMMA TypeInit == Init => TypeOK
<1>. SUFFICES ASSUME Init PROVE TypeOK
  OBVIOUS
<1>1. NoPoll \in Polls /\ NoPoll.at # "posted"
  BY DEF NoPoll, Polls
<1>2. 0 \in Index
  BY EndpointsAssumption DEF Index
<1>. QED
  BY <1>1, <1>2 DEF Init, TypeOK

(* One worker's record is replaced. *)
LEMMA PollsUpdate ==
  ASSUME TypeOK, NEW w \in Workers, NEW q \in Polls, q.at = "posted" => q.ep \in Index,
         NEW P, P = [poll EXCEPT ![w] = q]
  PROVE  /\ P \in [Workers -> Polls]
         /\ \A v \in Workers : P[v].at = "posted" => P[v].ep \in Index
BY DEF TypeOK

LEMMA TypeStep == TypeOK /\ [Next]_vars => TypeOK'
<1>. SUFFICES ASSUME TypeOK, [Next]_vars PROVE TypeOK'
  OBVIOUS
<1>. USE DEF health
<1>0. \A w \in Workers : poll[w] \in Polls
  BY DEF TypeOK
<1>1. ASSUME NEW w \in Workers, Start(w) PROVE TypeOK'
  <2>1. PICK idle \in BOOLEAN :
          poll' = [poll EXCEPT ![w] = [@ EXCEPT !.at = "pick", !.idle = idle]]
    BY <1>1 DEF Start
  <2>. DEFINE q == [poll[w] EXCEPT !.at = "pick", !.idle = idle]
  <2>2. q \in Polls /\ q.at # "posted"
    BY <1>0 DEF Polls
  <2>3. poll' = [poll EXCEPT ![w] = q]
    BY <2>1
  <2>. HIDE DEF q
  <2>4. /\ poll' \in [Workers -> Polls]
        /\ \A v \in Workers : poll'[v].at = "posted" => poll'[v].ep \in Index
    BY <2>2, <2>3, PollsUpdate
  <2>. QED
    BY <1>1, <2>4 DEF TypeOK, Start
<1>2. ASSUME NEW w \in Workers, PickRelay(w) \/ PickIdle(w) PROVE TypeOK'
  <2>. DEFINE S == Eligible(poll[w].idle)
              e == First(S)
  <2>1. e \in Index /\ (e + 1) % N \in Index
    <3>1. S \in SUBSET Index /\ S # {}
      BY <1>2 DEF Eligible, PickRelay, PickIdle, TypeOK, Polls
    <3>2. e \in Index
      BY <3>1, FirstFact
    <3>. QED
      BY <3>2, Cursor, EndpointsAssumption DEF Index
  <2>2. next' = (e + 1) % N /\ missed' = Passed(S, e)
    BY <1>2 DEF PickRelay, PickIdle, TypeOK, Polls
  <2>3. missed' \in [Index -> Nat]
    BY <2>2 DEF Passed, TypeOK
  <2>4. \/ poll' = [poll EXCEPT ![w] = [@ EXCEPT !.at = "posted", !.ep = e]]
        \/ poll' = [poll EXCEPT ![w] = [@ EXCEPT !.at = "posted", !.ep = e, !.held = e]]
    BY <1>2 DEF PickRelay, PickIdle, TypeOK, Polls
  <2>5. used' = used \/ used' = [used EXCEPT ![Bucket[e]] = @ + 1]
    BY <1>2 DEF PickRelay, PickIdle, TypeOK, Polls
  <2>6. used' \in [Buckets -> Nat]
    BY <2>5 DEF TypeOK
  <2>7. UNCHANGED <<health, probe>>
    BY <1>2 DEF PickRelay, PickIdle
  <2>. HIDE DEF e, S
  <2>8. \E q \in Polls : q.ep \in Index /\ poll' = [poll EXCEPT ![w] = q]
    <3>1. CASE poll' = [poll EXCEPT ![w] = [@ EXCEPT !.at = "posted", !.ep = e]]
      <4>. DEFINE q == [poll[w] EXCEPT !.at = "posted", !.ep = e]
      <4>1. q \in Polls /\ q.ep \in Index
        BY <1>0, <2>1 DEF Polls
      <4>. QED
        BY <3>1, <4>1
    <3>2. CASE poll' = [poll EXCEPT ![w] = [@ EXCEPT !.at = "posted", !.ep = e, !.held = e]]
      <4>. DEFINE q == [poll[w] EXCEPT !.at = "posted", !.ep = e, !.held = e]
      <4>1. q \in Polls /\ q.ep \in Index
        BY <1>0, <2>1 DEF Polls
      <4>. QED
        BY <3>2, <4>1
    <3>. QED
      BY <2>4, <3>1, <3>2
  <2>9. /\ poll' \in [Workers -> Polls]
        /\ \A v \in Workers : poll'[v].at = "posted" => poll'[v].ep \in Index
    BY <2>8, PollsUpdate
  <2>. QED
    BY <2>1, <2>2, <2>3, <2>6, <2>7, <2>9 DEF TypeOK
<1>3. ASSUME NEW w \in Workers, PickNone(w) \/ Abandon(w) PROVE TypeOK'
  BY <1>3 DEF TypeOK, PickNone, Abandon, Polls
<1>4. ASSUME NEW w \in Workers, Success(w) PROVE TypeOK'
  BY <1>4 DEF TypeOK, Success, Polls
<1>5. ASSUME NEW w \in Workers
      PROVE  /\ AfterFailure(w) \in [Workers -> Polls]
             /\ \A v \in Workers : AfterFailure(w)[v].at = "posted" =>
                                     AfterFailure(w)[v].ep \in Index
  <2>1. \E q \in Polls : q.at # "posted" /\ AfterFailure(w) = [poll EXCEPT ![w] = q]
    <3>1. CASE poll[w].attempt < MaxAttempts
      <4>. DEFINE q == [poll[w] EXCEPT !.at = "retry", !.attempt = poll[w].attempt + 1]
      <4>1. q \in Polls /\ q.at # "posted"
        <5>1. poll[w].attempt + 1 \in 1..2
          BY <1>0, <3>1 DEF Polls, MaxAttempts
        <5>. QED
          BY <1>0, <5>1 DEF Polls
      <4>. QED
        BY <3>1, <4>1 DEF AfterFailure
    <3>2. CASE ~(poll[w].attempt < MaxAttempts)
      <4>. DEFINE q == [poll[w] EXCEPT !.at = "end"]
      <4>1. q \in Polls /\ q.at # "posted"
        BY <1>0 DEF Polls
      <4>. QED
        BY <3>2, <4>1 DEF AfterFailure
    <3>. QED
      BY <3>1, <3>2
  <2>. QED
    BY <2>1, PollsUpdate
<1>6. ASSUME NEW w \in Workers, NEW kind \in Failures, Fail(w, kind) PROVE TypeOK'
  <2>1. poll[w].ep \in Index
    BY <1>6 DEF TypeOK, Fail
  <2>2. Floor(kind) \in Nat
    BY DEF Floor
  <2>3. MaxOf(fail[poll[w].ep], Floor(kind)) + 1 \in Nat
    BY <2>1, <2>2 DEF MaxOf, TypeOK
  <2>. QED
    BY <1>5, <1>6, <2>1, <2>3 DEF TypeOK, Fail
<1>7. ASSUME NEW w \in Workers, FailOffline(w) PROVE TypeOK'
  BY <1>5, <1>7 DEF TypeOK, FailOffline
<1>8. ASSUME NEW w \in Workers PROVE Released(w) \in [Buckets -> Nat]
  BY DEF Released, TypeOK, Buckets, Polls
<1>9. ASSUME NEW w \in Workers, Retry(w) PROVE TypeOK'
  BY <1>8, <1>9 DEF TypeOK, Retry, Polls
<1>10. ASSUME NEW w \in Workers, End(w) PROVE TypeOK'
  <2>1. NoPoll \in Polls /\ NoPoll.at # "posted"
    BY DEF NoPoll, Polls
  <2>. QED
    BY <1>8, <1>10, <2>1 DEF TypeOK, End
<1>11. ASSUME NEW e \in Index, Expire(e) PROVE TypeOK'
  BY <1>11 DEF TypeOK, Expire
<1>12. CASE ProbeStart \/ ProbeFails
  BY <1>12 DEF TypeOK, ProbeStart, ProbeFails
<1>13. CASE ProbeReset
  BY <1>13 DEF TypeOK, ProbeReset
<1>14. CASE UNCHANGED vars
  BY <1>14 DEF TypeOK, vars
<1>15. CASE Shutdown
  <2>. DEFINE S == Eligible(FALSE)
              e == First(S)
  <2>1. S \in SUBSET Index /\ S # {}
    BY <1>15 DEF Eligible, Shutdown
  <2>2. e \in Index
    BY <2>1, FirstFact
  <2>3. next' = (e + 1) % N /\ missed' = Passed(S, e)
    BY <1>15 DEF Shutdown
  <2>. HIDE DEF e, S
  <2>4. missed' \in [Index -> Nat]
    BY <2>3 DEF Passed, TypeOK
  <2>5. (e + 1) % N \in Index
    BY <2>2, Cursor, EndpointsAssumption DEF Index
  <2>6. UNCHANGED <<health, used, poll, probe>>
    BY <1>15 DEF Shutdown
  <2>. QED
    BY <2>3, <2>4, <2>5, <2>6 DEF TypeOK, health
<1>. QED
  BY <1>1, <1>2, <1>3, <1>4, <1>6, <1>7, <1>9, <1>10, <1>11, <1>12, <1>13, <1>14, <1>15
     DEF Next, Poll

(* Type correctness: the cursor is always the index of an endpoint, and a  *)
(* POST is under way only through one.                                     *)
THEOREM TypeCorrect == Spec => []TypeOK
BY TypeInit, TypeStep, PTL DEF Spec

---------------------------------------------------------------------------
(* Idle slots.                                                             *)

(* A worker that is about to pick holds no slot, so a pick never           *)
(* overwrites the record of a reservation.                                 *)
SlotInv ==
  /\ SlotsCounted
  /\ IdlePollsHoldSlots
  /\ \A w \in Workers : poll[w].at \in {"idle", "pick"} => poll[w].held = None

LEMMA HoldersFinite ==
  ASSUME NEW b PROVE IsFiniteSet(Holders(b))
BY EndpointsAssumption, FS_Subset DEF Holders

LEMMA SlotInit == Init => SlotInv
<1>. SUFFICES ASSUME Init PROVE SlotInv
  OBVIOUS
<1>1. \A w \in Workers : poll[w].held = None /\ poll[w].at = "idle"
  BY DEF Init, NoPoll
<1>2. \A b \in Buckets : Holders(b) = {}
  BY <1>1 DEF Holders
<1>3. SlotsCounted
  BY <1>2, FS_EmptySet, EndpointsAssumption DEF SlotsCounted, Init
<1>. QED
  BY <1>1, <1>3 DEF SlotInv, IdlePollsHoldSlots

(* A reservation: one holder more in one bucket. *)
LEMMA Reserve ==
  ASSUME TypeOK, SlotsCounted, NEW w \in Workers, poll[w].held = None,
         NEW e \in Index, used[Bucket[e]] < IdleSlots,
         NEW q, q.held = e, poll' = [poll EXCEPT ![w] = q],
         used' = [used EXCEPT ![Bucket[e]] = @ + 1]
  PROVE  SlotsCounted'
<1>. DEFINE c == Bucket[e]
<1>1. c \in Buckets /\ e # None
  BY EndpointsAssumption DEF Buckets, Index, None
<1>2. w \notin Holders(c) /\ Holders(c)' = Holders(c) \cup {w}
  BY <1>1 DEF TypeOK, Holders
<1>3. \A b \in Buckets \ {c} : Holders(b)' = Holders(b)
  BY <1>1 DEF TypeOK, Holders
<1>4. Cardinality(Holders(c)') = Cardinality(Holders(c)) + 1
  BY <1>2, HoldersFinite, FS_AddElement
<1>5. used'[c] = used[c] + 1 /\ \A b \in Buckets \ {c} : used'[b] = used[b]
  BY <1>1 DEF TypeOK
<1>6. used[c] \in Nat /\ IdleSlots \in Nat
  BY <1>1, EndpointsAssumption DEF TypeOK
<1>. HIDE DEF c
<1>. QED
  BY <1>1, <1>3, <1>4, <1>5, <1>6 DEF SlotsCounted, c

(* A release: the worker's slot, if it has one, goes back to its bucket.   *)
LEMMA Release ==
  ASSUME TypeOK, SlotsCounted, NEW w \in Workers,
         NEW q, q.held = None, poll' = [poll EXCEPT ![w] = q],
         used' = Released(w)
  PROVE  SlotsCounted'
<1>1. CASE poll[w].held = None
  <2>1. \A b \in Buckets : Holders(b)' = Holders(b)
    BY <1>1 DEF TypeOK, Holders
  <2>. QED
    BY <1>1, <2>1 DEF SlotsCounted, Released
<1>2. CASE poll[w].held # None
  <2>. PICK h \in Index : h = poll[w].held
    BY <1>2 DEF TypeOK, Polls
  <2>. DEFINE c == Bucket[h]
  <2>1. c \in Buckets
    BY DEF Buckets
  <2>0. poll'[w].held = None /\ \A v \in Workers \ {w} : poll'[v] = poll[v]
    BY DEF TypeOK
  <2>2. w \in Holders(c) /\ Holders(c)' = Holders(c) \ {w}
    BY <1>2, <2>0 DEF Holders
  <2>3. \A b \in Buckets \ {c} : Holders(b)' = Holders(b)
    BY <1>2 DEF TypeOK, Holders
  <2>4. Cardinality(Holders(c)') = Cardinality(Holders(c)) - 1 /\ Cardinality(Holders(c)) > 0
    <3>1. IsFiniteSet(Holders(c)) /\ IsFiniteSet(Holders(c) \ {w})
      BY HoldersFinite, FS_Subset
    <3>2. Cardinality(Holders(c) \ {w}) = Cardinality(Holders(c)) - 1
      BY <2>2, <3>1, FS_RemoveElement
    <3>3. Cardinality(Holders(c)) \in Nat /\ Cardinality(Holders(c) \ {w}) \in Nat
      BY <3>1, FS_CardinalityType
    <3>. QED
      BY <2>2, <3>2, <3>3
  <2>5. used[c] = Cardinality(Holders(c)) /\ used[c] <= IdleSlots /\ used[c] \in Nat
    BY <2>1 DEF SlotsCounted, TypeOK
  <2>6. used' = [used EXCEPT ![c] = IF @ > 0 THEN @ - 1 ELSE 0]
    BY <1>2 DEF Released
  <2>7. used'[c] = used[c] - 1 /\ \A b \in Buckets \ {c} : used'[b] = used[b]
    BY <2>1, <2>4, <2>5, <2>6 DEF TypeOK
  <2>8. IdleSlots \in Nat
    BY EndpointsAssumption
  <2>. HIDE DEF c
  <2>9. used'[c] = Cardinality(Holders(c)') /\ used'[c] <= IdleSlots
    BY <2>4, <2>5, <2>7, <2>8
  <2>10. \A b \in Buckets \ {c} : used'[b] = Cardinality(Holders(b)') /\ used'[b] <= IdleSlots
    BY <2>3, <2>7 DEF SlotsCounted
  <2>. QED
    BY <2>9, <2>10 DEF SlotsCounted
<1>. QED
  BY <1>1, <1>2

LEMMA SlotStep == TypeOK /\ SlotInv /\ [Next]_vars => SlotInv'
<1>. SUFFICES ASSUME TypeOK, SlotInv, [Next]_vars PROVE SlotInv'
  OBVIOUS
<1>0. SlotsCounted /\ \A w \in Workers : poll[w] \in Polls
  BY DEF SlotInv, TypeOK
<1>1. ASSUME NEW w \in Workers, NEW q, poll' = [poll EXCEPT ![w] = q], used' = used,
             q.held = poll[w].held, q.at \in {"idle", "pick"} => q.held = None,
             q.at = "posted" => q.held = IF q.idle THEN q.ep ELSE None
      PROVE  SlotInv'
  <2>1. \A b : Holders(b)' = Holders(b)
    BY <1>1 DEF TypeOK, Holders
  <2>2. SlotsCounted'
    BY <1>1, <2>1 DEF SlotInv, SlotsCounted
  <2>. QED
    BY <1>1, <2>2 DEF SlotInv, IdlePollsHoldSlots, TypeOK
<1>2. ASSUME NEW w \in Workers, NEW q, poll' = [poll EXCEPT ![w] = q], SlotsCounted',
             q.at \in {"idle", "pick"} => q.held = None,
             q.at = "posted" => q.held = IF q.idle THEN q.ep ELSE None
      PROVE  SlotInv'
  BY <1>2 DEF SlotInv, IdlePollsHoldSlots, TypeOK
<1>3. ASSUME NEW w \in Workers, Start(w) PROVE SlotInv'
  <2>1. PICK idle \in BOOLEAN :
          poll' = [poll EXCEPT ![w] = [@ EXCEPT !.at = "pick", !.idle = idle]]
    BY <1>3 DEF Start
  <2>. DEFINE q == [poll[w] EXCEPT !.at = "pick", !.idle = idle]
  <2>2. q.held = poll[w].held /\ q.at = "pick" /\ poll[w].held = None /\ used' = used
    BY <1>0, <1>3 DEF Polls, SlotInv, Start
  <2>3. poll' = [poll EXCEPT ![w] = q]
    BY <2>1
  <2>. HIDE DEF q
  <2>. QED
    BY <1>1, <2>2, <2>3
<1>4. ASSUME NEW w \in Workers, PickRelay(w) PROVE SlotInv'
  <2>. DEFINE e == First(Eligible(FALSE))
              q == [poll[w] EXCEPT !.at = "posted", !.ep = e]
  <2>1. poll[w].held = None /\ ~poll[w].idle /\ used' = used
    BY <1>4 DEF SlotInv, PickRelay
  <2>2. q.held = poll[w].held /\ q.at = "posted" /\ q.idle = poll[w].idle
    BY <1>0 DEF Polls
  <2>3. poll' = [poll EXCEPT ![w] = q]
    BY <1>4 DEF PickRelay
  <2>. HIDE DEF q
  <2>. QED
    BY <1>1, <2>1, <2>2, <2>3
<1>5. ASSUME NEW w \in Workers, PickIdle(w) PROVE SlotInv'
  <2>. DEFINE e == First(Eligible(TRUE))
              q == [poll[w] EXCEPT !.at = "posted", !.ep = e, !.held = e]
  <2>1. poll[w].held = None /\ poll[w].idle
    BY <1>5 DEF SlotInv, PickIdle
  <2>2. q.held = e /\ q.at = "posted" /\ q.idle = poll[w].idle /\ q.ep = e
    BY <1>0 DEF Polls
  <2>3. poll' = [poll EXCEPT ![w] = q] /\ used' = [used EXCEPT ![Bucket[e]] = @ + 1]
    BY <1>5 DEF PickIdle
  <2>4. Eligible(TRUE) \in SUBSET Index /\ Eligible(TRUE) # {}
    BY <1>5 DEF Eligible, PickIdle
  <2>5. e \in Eligible(TRUE)
    BY <2>4, FirstFact
  <2>6. e \in Index /\ used[Bucket[e]] < IdleSlots
    BY <2>5 DEF Eligible
  <2>. HIDE DEF q, e
  <2>7. SlotsCounted'
    BY <1>0, <2>1, <2>2, <2>3, <2>6, Reserve
  <2>. QED
    BY <1>2, <2>1, <2>2, <2>3, <2>7
<1>6. ASSUME NEW w \in Workers, poll' = [poll EXCEPT ![w].at = "end"], used' = used
      PROVE  SlotInv'
  <2>. DEFINE q == [poll[w] EXCEPT !.at = "end"]
  <2>1. q.held = poll[w].held /\ q.at = "end"
    BY <1>0 DEF Polls
  <2>2. poll' = [poll EXCEPT ![w] = q]
    BY <1>6
  <2>. HIDE DEF q
  <2>. QED
    BY <1>1, <1>6, <2>1, <2>2
<1>7. ASSUME NEW w \in Workers, poll' = AfterFailure(w), used' = used
      PROVE  SlotInv'
  <2>1. CASE poll[w].attempt < MaxAttempts
    <3>. DEFINE q == [poll[w] EXCEPT !.at = "retry", !.attempt = poll[w].attempt + 1]
    <3>1. q.held = poll[w].held /\ q.at = "retry"
      BY <1>0 DEF Polls
    <3>2. poll' = [poll EXCEPT ![w] = q]
      BY <1>7, <2>1 DEF AfterFailure
    <3>. HIDE DEF q
    <3>. QED
      BY <1>1, <1>7, <3>1, <3>2
  <2>2. CASE ~(poll[w].attempt < MaxAttempts)
    BY <1>6, <1>7, <2>2 DEF AfterFailure
  <2>. QED
    BY <2>1, <2>2
<1>8. ASSUME NEW w \in Workers,
             PickNone(w) \/ Success(w) \/ Abandon(w) \/ FailOffline(w)
             \/ \E kind \in Failures : Fail(w, kind)
      PROVE  SlotInv'
  BY <1>6, <1>7, <1>8 DEF PickNone, Success, Abandon, FailOffline, Fail
<1>9. ASSUME NEW w \in Workers, Retry(w) PROVE SlotInv'
  <2>. DEFINE q == [poll[w] EXCEPT !.at = "pick", !.held = None]
  <2>1. q.held = None /\ q.at = "pick"
    BY <1>0 DEF Polls
  <2>2. poll' = [poll EXCEPT ![w] = q] /\ used' = Released(w)
    BY <1>9 DEF Retry
  <2>. HIDE DEF q
  <2>3. SlotsCounted'
    BY <1>0, <2>1, <2>2, Release
  <2>. QED
    BY <1>2, <2>1, <2>2, <2>3
<1>10. ASSUME NEW w \in Workers, End(w) PROVE SlotInv'
  <2>1. NoPoll.held = None /\ NoPoll.at = "idle"
    BY DEF NoPoll
  <2>2. poll' = [poll EXCEPT ![w] = NoPoll] /\ used' = Released(w)
    BY <1>10 DEF End
  <2>3. SlotsCounted'
    BY <1>0, <2>1, <2>2, Release
  <2>. QED
    BY <1>2, <2>1, <2>2, <2>3
<1>11. ASSUME UNCHANGED <<poll, used>> PROVE SlotInv'
  BY <1>11 DEF SlotInv, SlotsCounted, IdlePollsHoldSlots, Holders
<1>12. ASSUME \/ \E e \in Index : Expire(e)
              \/ ProbeStart \/ ProbeFails \/ ProbeReset \/ Shutdown \/ UNCHANGED vars
       PROVE  SlotInv'
  BY <1>11, <1>12 DEF Expire, ProbeStart, ProbeFails, ProbeReset, Shutdown, vars
<1>. QED
  BY <1>3, <1>4, <1>5, <1>8, <1>9, <1>10, <1>12 DEF Next, Poll

(* Idle slots are neither leaked nor overcommitted: inFlightByBucket is at *)
(* any moment the number of polls that hold a slot of the bucket, it never *)
(* exceeds idleSlotsPerBucket, and every idle poll under way holds one.    *)
THEOREM SlotsBalance == Spec => []SlotAccounting
<1>1. Init => TypeOK /\ SlotInv
  BY TypeInit, SlotInit
<1>2. TypeOK /\ SlotInv /\ [Next]_vars => TypeOK' /\ SlotInv'
  BY TypeStep, SlotStep
<1>3. SlotInv => SlotAccounting
  BY DEF SlotInv, SlotAccounting
<1>. QED
  BY <1>1, <1>2, <1>3, PTL DEF Spec

---------------------------------------------------------------------------
(* Back-off.                                                               *)

LEMMA BackoffStep == TypeOK /\ BackoffHasReason /\ [Next]_vars => BackoffHasReason'
<1>. SUFFICES ASSUME TypeOK, BackoffHasReason, [Next]_vars PROVE BackoffHasReason'
  OBVIOUS
<1>1. ASSUME NEW w \in Workers, Success(w) \/ FailOffline(w) PROVE BackoffHasReason'
  BY <1>1 DEF TypeOK, BackoffHasReason, Success, FailOffline
<1>2. ASSUME NEW w \in Workers, NEW kind \in Failures, Fail(w, kind)
      PROVE  BackoffHasReason'
  <2>1. poll[w].ep \in Index
    BY <1>2 DEF TypeOK, Fail
  <2>2. MaxOf(fail[poll[w].ep], Floor(kind)) + 1 > 0
    BY <2>1 DEF MaxOf, Floor, TypeOK
  <2>. QED
    BY <1>2, <2>1, <2>2 DEF TypeOK, BackoffHasReason, Fail
<1>3. ASSUME NEW e \in Index, Expire(e) PROVE BackoffHasReason'
  BY <1>3 DEF BackoffHasReason, Expire
<1>4. CASE ProbeReset
  BY <1>4 DEF TypeOK, BackoffHasReason, ProbeReset
<1>5. ASSUME UNCHANGED health PROVE BackoffHasReason'
  BY <1>5 DEF BackoffHasReason, health
<1>6. ASSUME NEW w \in Workers,
             Start(w) \/ PickRelay(w) \/ PickIdle(w) \/ PickNone(w) \/ Abandon(w)
             \/ Retry(w) \/ End(w)
      PROVE  BackoffHasReason'
  BY <1>5, <1>6 DEF Start, PickRelay, PickIdle, PickNone, Abandon, Retry, End
<1>7. CASE ProbeStart \/ ProbeFails \/ Shutdown \/ UNCHANGED vars
  BY <1>5, <1>7 DEF ProbeStart, ProbeFails, Shutdown, vars
<1>. QED
  BY <1>1, <1>2, <1>3, <1>4, <1>6, <1>7 DEF Next, Poll

(* Every endpoint out of rotation is there for exactly one recorded        *)
(* reason, whatever the order in which concurrent polls report and the     *)
(* recovery probe interferes.                                              *)
THEOREM BackoffReasons == Spec => []BackoffHasReason
<1>1. Init => TypeOK /\ BackoffHasReason
  BY TypeInit DEF Init, BackoffHasReason
<1>2. TypeOK /\ BackoffHasReason /\ [Next]_vars => TypeOK' /\ BackoffHasReason'
  BY TypeStep, BackoffStep
<1>. QED
  BY <1>1, <1>2, PTL DEF Spec

---------------------------------------------------------------------------
(* Rotation.                                                               *)

(* Each time an eligible endpoint is passed by, the cursor has come nearer *)
(* to it.                                                                  *)
RotationInv == \A e \in Index : missed[e] + Ahead(e) <= N - 1

LEMMA RotationStep == TypeOK /\ RotationInv /\ [Next]_vars => RotationInv'
<1>. SUFFICES ASSUME TypeOK, RotationInv, [Next]_vars PROVE RotationInv'
  OBVIOUS
<1>1. ASSUME NEW idle \in BOOLEAN, Eligible(idle) # {},
             next' = (First(Eligible(idle)) + 1) % N,
             missed' = Passed(Eligible(idle), First(Eligible(idle)))
      PROVE  RotationInv'
  <2>. DEFINE S == Eligible(idle)
              p == First(S)
  <2>1. S \in SUBSET Index /\ S # {}
    BY <1>1 DEF Eligible
  <2>2. p \in S /\ p \in Index /\ \A d \in S : Ahead(p) <= Ahead(d)
    BY <2>1, FirstFact
  <2>3. next' = IF p = N - 1 THEN 0 ELSE p + 1
    BY <1>1, <2>2, Cursor
  <2>4. \A e \in Index : missed'[e] = IF e \in S \ {p} THEN missed[e] + 1 ELSE 0
    BY <1>1 DEF Passed
  <2>. HIDE DEF p, S
  <2>5. ASSUME NEW e \in Index PROVE missed'[e] + Ahead(e)' <= N - 1
    <3>1. /\ e \in Nat /\ e <= N - 1 /\ p \in Nat /\ p <= N - 1 /\ N \in Nat
          /\ next \in Nat /\ next <= N - 1 /\ missed[e] \in Nat
      BY <2>2, EndpointsAssumption DEF Index, TypeOK
    <3>2. Ahead(e)' \in Nat /\ Ahead(e)' <= N - 1
      BY <2>3, <3>1 DEF Ahead
    <3>3. CASE e \in S \ {p}
      <4>1. Ahead(p) <= Ahead(e) /\ e # p
        BY <2>2, <3>3
      <4>2. Ahead(e)' <= Ahead(e) - 1
        BY <2>3, <3>1, <4>1 DEF Ahead
      <4>3. Ahead(e) \in Int /\ missed[e] + Ahead(e) <= N - 1
        BY <3>1 DEF Ahead, RotationInv
      <4>. QED
        BY <2>4, <3>1, <3>2, <3>3, <4>2, <4>3
    <3>4. CASE e \notin S \ {p}
      BY <2>4, <3>2, <3>4
    <3>. QED
      BY <3>3, <3>4
  <2>. QED
    BY <2>5 DEF RotationInv
<1>2. ASSUME NEW w \in Workers, PickRelay(w) \/ PickIdle(w) PROVE RotationInv'
  BY <1>1, <1>2 DEF PickRelay, PickIdle
<1>6. CASE Shutdown
  BY <1>1, <1>6 DEF Shutdown
<1>3. ASSUME UNCHANGED <<next, missed>> PROVE RotationInv'
  BY <1>3 DEF RotationInv, Ahead
<1>4. ASSUME NEW w \in Workers,
             Start(w) \/ PickNone(w) \/ Success(w) \/ FailOffline(w) \/ Abandon(w)
             \/ Retry(w) \/ End(w) \/ \E kind \in Failures : Fail(w, kind)
      PROVE  RotationInv'
  BY <1>3, <1>4 DEF Start, PickNone, Success, FailOffline, Abandon, Retry, End, Fail
<1>5. ASSUME \/ \E e \in Index : Expire(e)
             \/ ProbeStart \/ ProbeFails \/ ProbeReset \/ UNCHANGED vars
      PROVE  RotationInv'
  BY <1>3, <1>5 DEF Expire, ProbeStart, ProbeFails, ProbeReset, vars
<1>. QED
  BY <1>2, <1>4, <1>5, <1>6 DEF Next, Poll

(* The rotation is fair: an endpoint that each of N picks in a row could   *)
(* have taken has been taken by one of them, although active and idle      *)
(* polls with different eligibility share the cursor.                      *)
THEOREM RotationIsFair == Spec => []RoundRobinFair
<1>1. Init => TypeOK /\ RotationInv
  BY TypeInit, EndpointsAssumption DEF Init, RotationInv, Ahead, Index
<1>2. TypeOK /\ RotationInv /\ [Next]_vars => TypeOK' /\ RotationInv'
  BY TypeStep, RotationStep
<1>3. TypeOK /\ RotationInv => RoundRobinFair
  <2>. SUFFICES ASSUME TypeOK, RotationInv, NEW e \in Index PROVE missed[e] < N
    BY DEF RoundRobinFair
  <2>1. e \in Nat /\ e <= N - 1 /\ next \in Nat /\ next <= N - 1 /\ missed[e] \in Nat /\ N \in Nat
    BY EndpointsAssumption DEF TypeOK, Index
  <2>2. Ahead(e) >= 0 /\ Ahead(e) \in Int
    BY <2>1 DEF Ahead
  <2>3. missed[e] + Ahead(e) <= N - 1
    BY DEF RotationInv
  <2>. QED
    BY <2>1, <2>2, <2>3
<1>. QED
  BY <1>1, <1>2, <1>3, PTL DEF Spec
=============================================================================
