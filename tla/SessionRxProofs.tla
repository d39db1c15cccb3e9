--------------------------- MODULE SessionRxProofs ---------------------------
(***************************************************************************)
(* Theorems about the receive side of a session, for any number of         *)
(* routing goroutines, any FIN position and any channel capacities.        *)
(***************************************************************************)
EXTENDS SessionRx, SequenceTheorems, WellFoundedInduction, TLAPS

(* A set of naturals that is not empty has a least element: what makes the *)
(* CHOOSE in RunEnd meaningful.                                            *)
LEMMA LeastElement ==
  ASSUME NEW T \in SUBSET Nat, T # {}
  PROVE  \E m \in T : \A n \in T : m <= n
<1>1. PICK m \in T : \A n \in T : ~ (<<n, m>> \in OpToRel(<, Nat))
  BY NatLessThanWellFounded, WFMin, Zenon
<1>2. \A n \in T : ~ (n < m)
  BY <1>1 DEF OpToRel
<1>. QED
  BY <1>2

(* deliverRx's run: it is a run of frames that have arrived, it starts at  *)
(* the frame in hand and does not go beyond the FIN.                       *)
LEMMA RunEndFact ==
  ASSUME FinSeq \in Nat, NEW lo \in 0..FinSeq, NEW got
  PROVE  RunEnd(got, lo) \in lo..FinSeq
<1>1. Ends(got, lo) \in SUBSET Nat /\ FinSeq \in Ends(got, lo)
  BY DEF Ends
<1>2. \E hi \in Ends(got, lo) : \A n \in Ends(got, lo) : hi <= n
  BY <1>1, LeastElement
<1>3. RunEnd(got, lo) \in Ends(got, lo)
  BY <1>2 DEF RunEnd
<1>. QED
  BY <1>3 DEF Ends

---------------------------------------------------------------------------
(* Types.                                                                  *)

LEMMA TypeInit == Init => TypeOK
<1>. SUFFICES ASSUME Init PROVE TypeOK
  OBVIOUS
<1>1. call \in [Workers -> Calls]
  BY DEF Init, Calls
<1>2. /\ inbox \in Seq(0..FinSeq) /\ toSend \in Seq(0..FinSeq)
      /\ out \in Seq(0..FinSeq)
  BY DEF Init
<1>3. FinSeq \in Nat
  BY RxAssumption
<1>4. /\ rxSeq \in 0..(FinSeq + 1)
      /\ rxQueue \subseteq 0..FinSeq
      /\ nread \in Nat
      /\ pc \in {"select", "send", "defer", "exited"}
  BY <1>3 DEF Init
<1>5. /\ rxClosed \in BOOLEAN /\ rxDone \in BOOLEAN /\ closeAfter \in BOOLEAN
      /\ chanClosed \in BOOLEAN /\ killed \in {"no", "stop", "reset"} /\ panicked \in BOOLEAN
  BY Zenon DEF Init
<1>. QED
  BY <1>1, <1>2, <1>4, <1>5 DEF TypeOK

LEMMA PayloadsFact ==
  ASSUME FinSeq \in Nat, NEW lo \in 0..FinSeq, NEW hi \in lo..FinSeq
  PROVE  /\ Payloads(lo, hi) \in Seq(0..FinSeq)
         /\ Len(Payloads(lo, hi)) = (IF hi = FinSeq THEN hi ELSE hi + 1) - lo
         /\ \A i \in 1..Len(Payloads(lo, hi)) : Payloads(lo, hi)[i] = lo + i - 1
<1>. DEFINE k == (IF hi = FinSeq THEN hi ELSE hi + 1) - lo
<1>1. k \in Nat /\ \A i \in 1..k : lo + i - 1 \in 0..FinSeq
  BY SMT
<1>2. Payloads(lo, hi) = [i \in 1..k |-> lo + i - 1]
  BY DEF Payloads
<1>. HIDE DEF k
<1>3. Payloads(lo, hi) \in Seq(0..FinSeq) /\ Len(Payloads(lo, hi)) = k
  BY <1>1, <1>2
<1>. QED
  BY <1>1, <1>2, <1>3 DEF k

(* deliverRx's critical section keeps the types: the one action whose      *)
(* values are computed.                                                    *)
LEMMA TypeTake == TypeOK /\ LoopTake => TypeOK'
<1>. SUFFICES ASSUME TypeOK, LoopTake PROVE TypeOK'
  OBVIOUS
<1>. DEFINE f == Head(inbox)
            hi == RunEnd(rxQueue \cup {f}, rxSeq)
<1>0. FinSeq \in Nat
  BY RxAssumption
<1>1. f \in 0..FinSeq /\ inbox' \in Seq(0..FinSeq)
  <2>1. inbox \in Seq(0..FinSeq) /\ inbox # <<>> /\ inbox' = Tail(inbox)
    BY DEF TypeOK, LoopTake
  <2>. QED
    BY <2>1, HeadTailProperties
<1>2. CASE DeliverClosed
  BY <1>1, <1>2 DEF TypeOK, LoopTake, DeliverClosed, chan
<1>3. CASE DeliverOld(f)
  BY <1>1, <1>3 DEF TypeOK, LoopTake, DeliverOld, loop, chan
<1>4. CASE DeliverEarly(f)
  BY <1>1, <1>4 DEF TypeOK, LoopTake, DeliverEarly, loop, chan
<1>5. CASE DeliverRun(f, hi)
  <2>1. rxSeq \in 0..FinSeq /\ hi \in rxSeq..FinSeq
    BY <1>0, <1>1, <1>5, RunEndFact DEF DeliverRun
  <2>2. toSend' \in Seq(0..FinSeq)
    BY <1>0, <1>5, <2>1, PayloadsFact DEF DeliverRun
  <2>3. rxSeq' \in 0..(FinSeq + 1)
    BY <1>0, <1>5, <2>1 DEF DeliverRun
  <2>4. closeAfter' \in BOOLEAN /\ rxClosed' \in BOOLEAN
    BY <1>5, Zenon DEF DeliverRun
  <2>. QED
    BY <1>1, <1>5, <2>2, <2>3, <2>4 DEF TypeOK, LoopTake, DeliverRun, chan
<1>. QED
  BY <1>2, <1>3, <1>4, <1>5 DEF LoopTake

LEMMA TypeStep == TypeOK /\ [Next]_vars => TypeOK'
<1>. SUFFICES ASSUME TypeOK, [Next]_vars PROVE TypeOK'
  OBVIOUS
<1>. USE RxAssumption
<1>1. ASSUME NEW w \in Workers, NEW f \in 0..FinSeq, ProcessRx(w, f) PROVE TypeOK'
  BY <1>1 DEF TypeOK, ProcessRx, Calls, Idle, loop, chan
<1>2. ASSUME NEW w \in Workers, InboxSend(w) PROVE TypeOK'
  <2>1. call[w].frame \in 0..FinSeq
    BY <1>2 DEF TypeOK, InboxSend, Calls
  <2>. QED
    BY <1>2, <2>1 DEF TypeOK, InboxSend, Calls, Idle, loop, chan
<1>3. ASSUME NEW w \in Workers, InboxAbandon(w) PROVE TypeOK'
  BY <1>3 DEF TypeOK, InboxAbandon, Calls, Idle, loop, chan
<1>4. ASSUME NEW w \in Workers, InboxFull(w) PROVE TypeOK'
  <2>1. call[w] \in Calls /\ call[w].at = "fast"
    BY <1>4 DEF TypeOK, InboxFull
  <2>2. call[w] \in [at : {"fast", "slow"}, frame : 0..FinSeq]
    BY <2>1 DEF Calls, Idle
  <2>3. [call[w] EXCEPT !.at = "slow"] \in Calls
    BY <2>2 DEF Calls
  <2>. QED
    BY <1>4, <2>3 DEF TypeOK, InboxFull, loop, chan
<1>5. ASSUME NEW w \in Workers, InboxTimeout(w) PROVE TypeOK'
  BY <1>5 DEF TypeOK, InboxTimeout, Calls, Idle, loop, chan
<1>6. CASE LoopTake
  BY <1>6, TypeTake
<1>7. CASE LoopSend
  <2>1. out' \in Seq(0..FinSeq) /\ toSend' \in Seq(0..FinSeq)
    <3>1. out \in Seq(0..FinSeq) /\ toSend \in Seq(0..FinSeq) /\ toSend # <<>>
      BY <1>7 DEF TypeOK, LoopSend
    <3>2. \/ UNCHANGED <<out, toSend>>
          \/ out' = Append(out, Head(toSend)) /\ toSend' = Tail(toSend)
      BY <1>7 DEF LoopSend
    <3>3. Head(toSend) \in 0..FinSeq /\ Tail(toSend) \in Seq(0..FinSeq)
      BY <3>1, HeadTailProperties
    <3>4. Append(out, Head(toSend)) \in Seq(0..FinSeq)
      BY <3>1, <3>3, AppendProperties
    <3>. QED
      BY <3>1, <3>2, <3>3, <3>4
  <2>. QED
    BY <1>7, <2>1 DEF TypeOK, LoopSend
<1>8. CASE LoopAbort
  <2>1. chanClosed' \in BOOLEAN /\ panicked' \in BOOLEAN /\ UNCHANGED <<out, nread>>
    BY <1>8 DEF TypeOK, LoopAbort, CloseChan, chan
  <2>. QED
    BY <1>8, <2>1 DEF TypeOK, LoopAbort
<1>9. CASE LoopSent
  BY <1>9 DEF TypeOK, LoopSent, CloseChan, loop, chan
<1>10. CASE LoopDone
  BY <1>10 DEF TypeOK, LoopDone, loop, chan
<1>11. CASE LoopDefer
  BY <1>11 DEF TypeOK, LoopDefer, CloseChan, loop, chan
<1>12. CASE Read
  BY <1>12 DEF TypeOK, Read, loop, chan
<1>13. CASE Stop \/ StopAfterReset
  BY <1>13 DEF TypeOK, Stop, StopAfterReset, loop, chan
<1>14. CASE CloseRx
  BY <1>14 DEF TypeOK, CloseRx, CloseChan, loop, chan
<1>15. CASE UNCHANGED vars
  BY <1>15 DEF TypeOK, vars, loop, chan
<1>. QED
  BY <1>1, <1>2, <1>3, <1>4, <1>5, <1>6, <1>7, <1>8, <1>9, <1>10, <1>11, <1>12,
     <1>13, <1>14, <1>15 DEF Next, Loop

(* Type correctness: rxSeq stays within one past the FIN and every frame   *)
(* that is queued, parked or sent is one of the peer's.                    *)
THEOREM TypeCorrect == Spec => []TypeOK
BY TypeInit, TypeStep, PTL DEF Spec

---------------------------------------------------------------------------
(* Order.                                                                  *)

(* What is still to be sent continues what has been sent, and between two  *)
(* turns of the loop (as well as while a run that did not end with the FIN *)
(* is being sent) rxSeq counts the payloads.  InOrder alone is not         *)
(* inductive: it says nothing of the payloads in deliverRx's hands.        *)
OrderInv ==
  /\ InOrder
  /\ \A i \in 1..Len(toSend) : toSend[i] = Len(out) + i - 1
  /\ pc = "select" => ~closeAfter /\ toSend = <<>> /\ rxSeq = Len(out)
  /\ pc = "send" /\ ~closeAfter => rxSeq = Len(out) + Len(toSend)

LEMMA OrderInit == Init => OrderInv
BY DEF Init, OrderInv, InOrder

LEMMA OrderStep == TypeOK /\ OrderInv /\ [Next]_vars => OrderInv'
<1>. SUFFICES ASSUME TypeOK, OrderInv, [Next]_vars PROVE OrderInv'
  OBVIOUS
<1>0. FinSeq \in Nat /\ out \in Seq(0..FinSeq) /\ toSend \in Seq(0..FinSeq) /\ rxSeq \in Nat
  BY RxAssumption DEF TypeOK
<1>1. CASE LoopTake
  <2>. DEFINE f == Head(inbox)
              hi == RunEnd(rxQueue \cup {f}, rxSeq)
  <2>1. CASE DeliverClosed
    BY <1>1, <2>1 DEF OrderInv, InOrder, LoopTake, DeliverClosed, chan
  <2>2. CASE DeliverOld(f)
    BY <1>1, <2>2 DEF OrderInv, InOrder, LoopTake, DeliverOld, loop, chan
  <2>3. CASE DeliverEarly(f)
    BY <1>1, <2>3 DEF OrderInv, InOrder, LoopTake, DeliverEarly, loop, chan
  <2>4. CASE DeliverRun(f, hi)
    <3>1. f \in 0..FinSeq
      <4>1. inbox \in Seq(0..FinSeq) /\ inbox # <<>>
        BY <1>1 DEF TypeOK, LoopTake
      <4>. QED
        BY <4>1, HeadTailProperties
    <3>2. rxSeq \in 0..FinSeq /\ hi \in rxSeq..FinSeq
      BY <1>0, <2>4, <3>1, RunEndFact DEF DeliverRun
    <3>3. /\ toSend' \in Seq(0..FinSeq)
          /\ Len(toSend') = (IF hi = FinSeq THEN hi ELSE hi + 1) - rxSeq
          /\ \A i \in 1..Len(toSend') : toSend'[i] = rxSeq + i - 1
      BY <1>0, <2>4, <3>2, PayloadsFact DEF DeliverRun
    <3>4. rxSeq = Len(out) /\ out' = out /\ pc' = "send" /\ rxSeq' = hi + 1
      BY <1>1, <2>4 DEF OrderInv, LoopTake, DeliverRun, chan
    <3>5. ~closeAfter' => hi # FinSeq
      BY <2>4 DEF DeliverRun
    <3>6. InOrder'
      BY <3>4 DEF OrderInv, InOrder
    <3>7. \A i \in 1..Len(toSend') : toSend'[i] = Len(out') + i - 1
      BY <3>3, <3>4
    <3>8. ~closeAfter' => rxSeq' = Len(out') + Len(toSend')
      BY <1>0, <3>2, <3>3, <3>4, <3>5
    <3>. QED
      BY <3>4, <3>6, <3>7, <3>8 DEF OrderInv
  <2>. QED
    BY <1>1, <2>1, <2>2, <2>3, <2>4 DEF LoopTake
<1>2. CASE LoopSend
  <2>1. CASE chanClosed
    BY <1>2, <2>1 DEF OrderInv, InOrder, LoopSend
  <2>2. CASE ~chanClosed
    <3>1. /\ out' = Append(out, Head(toSend)) /\ toSend' = Tail(toSend)
          /\ toSend # <<>> /\ pc = "send" /\ UNCHANGED <<pc, closeAfter, rxSeq>>
      BY <1>2, <2>2 DEF LoopSend
    <3>2. Head(toSend) = Len(out)
      BY <1>0, <3>1 DEF OrderInv
    <3>3. /\ Len(out') = Len(out) + 1
          /\ \A i \in 1..Len(out) : out'[i] = out[i]
          /\ out'[Len(out) + 1] = Head(toSend)
      BY <1>0, <3>1, HeadTailProperties, AppendProperties
    <3>4. /\ Len(toSend') = Len(toSend) - 1
          /\ \A i \in 1..Len(toSend') : toSend'[i] = toSend[i + 1]
          /\ toSend' \in Seq(0..FinSeq) /\ out' \in Seq(0..FinSeq)
      BY <1>0, <3>1, HeadTailProperties, AppendProperties
    <3>5. InOrder'
      <4>1. DOMAIN out' = 1..(Len(out) + 1) /\ DOMAIN out = 1..Len(out) /\ Len(out) \in Nat
        BY <1>0, <3>3, <3>4
      <4>2. \A i \in 1..Len(out) : out[i] = i - 1
        BY <4>1 DEF OrderInv, InOrder
      <4>3. \A i \in 1..(Len(out) + 1) : out'[i] = i - 1
        BY <3>2, <3>3, <4>1, <4>2
      <4>. QED
        BY <4>1, <4>3 DEF InOrder
    <3>6. \A i \in 1..Len(toSend') : toSend'[i] = Len(out') + i - 1
      <4>1. \A i \in 1..Len(toSend') : i + 1 \in 1..Len(toSend)
        BY <1>0, <3>4
      <4>2. \A i \in 1..Len(toSend) : toSend[i] = Len(out) + i - 1
        BY DEF OrderInv
      <4>. QED
        BY <1>0, <3>3, <3>4, <4>1, <4>2
    <3>7. pc' = "send" /\ (~closeAfter' => rxSeq' = Len(out') + Len(toSend'))
      <4>1. Len(out') \in Nat /\ Len(toSend') \in Nat /\ Len(toSend) \in Nat /\ Len(out) \in Nat
        BY <1>0, <3>4
      <4>2. ~closeAfter => rxSeq = Len(out) + Len(toSend)
        BY <3>1 DEF OrderInv
      <4>3. Len(out') + Len(toSend') = Len(out) + Len(toSend)
        BY <3>3, <3>4, <4>1
      <4>. QED
        BY <3>1, <4>2, <4>3
    <3>. QED
      BY <3>5, <3>6, <3>7 DEF OrderInv
  <2>. QED
    BY <2>1, <2>2
<1>3. CASE LoopAbort
  BY <1>3 DEF OrderInv, InOrder, LoopAbort, CloseChan, chan
<1>4. CASE LoopSent
  BY <1>0, <1>4 DEF OrderInv, InOrder, LoopSent, CloseChan, chan
<1>5. ASSUME UNCHANGED <<out, toSend, closeAfter, rxSeq>>, pc' = pc \/ pc' \in {"defer", "exited"}
      PROVE  OrderInv'
  BY <1>5 DEF OrderInv, InOrder
<1>6. CASE LoopDone \/ LoopDefer \/ Read \/ Stop \/ StopAfterReset \/ CloseRx \/ UNCHANGED vars
  BY <1>5, <1>6 DEF LoopDone, LoopDefer, Read, Stop, StopAfterReset, CloseRx, CloseChan,
                    vars, loop, chan
<1>7. ASSUME NEW w \in Workers,
             (\E f \in 0..FinSeq : ProcessRx(w, f)) \/ InboxSend(w) \/ InboxAbandon(w)
             \/ InboxFull(w) \/ InboxTimeout(w)
      PROVE  OrderInv'
  BY <1>5, <1>7 DEF ProcessRx, InboxSend, InboxAbandon, InboxFull, InboxTimeout, loop, chan
<1>. QED
  BY <1>1, <1>2, <1>3, <1>4, <1>6, <1>7 DEF Next, Loop

(* The reader is handed the peer's payloads in order, none twice and none  *)
(* skipped, however frames are duplicated or reordered on their way and    *)
(* whenever the session is stopped or reset.                               *)
THEOREM DeliveredInOrder == Spec => []InOrder
<1>1. Init => TypeOK /\ OrderInv
  BY TypeInit, OrderInit
<1>2. TypeOK /\ OrderInv /\ [Next]_vars => TypeOK' /\ OrderInv'
  BY TypeStep, OrderStep
<1>3. OrderInv => InOrder
  BY DEF OrderInv
<1>. QED
  BY <1>1, <1>2, <1>3, PTL DEF Spec

---------------------------------------------------------------------------
(* Closing RxChan.                                                         *)

(* While deliverRx still has something to send, nobody closes RxChan: the  *)
(* FIN sets rxClosed in the same critical section that takes the run, so   *)
(* the deferred close of rxLoop finds it set, and RxChan is closed only by *)
(* the step that leaves deliverRx.                                         *)
CloseInv ==
  killed = "reset" \/
    /\ ~panicked
    /\ chanClosed => rxClosed /\ pc \in {"defer", "exited"}
    /\ pc = "send" /\ closeAfter => rxClosed

LEMMA CloseInit == Init => CloseInv
BY DEF Init, CloseInv

LEMMA CloseStep == TypeOK /\ CloseInv /\ [Next]_vars => CloseInv'
<1>. SUFFICES ASSUME TypeOK, CloseInv, [Next]_vars PROVE CloseInv'
  OBVIOUS
<1>0. CASE killed = "reset"
  <2>1. killed' = "reset"
    BY <1>0 DEF Next, Loop, LoopTake, LoopSend, LoopAbort, LoopSent, LoopDone, LoopDefer,
      Read, Stop, CloseRx, StopAfterReset, ProcessRx, InboxSend, InboxAbandon, InboxFull,
      InboxTimeout, vars
  <2>. QED
    BY <2>1 DEF CloseInv
<1>. SUFFICES ASSUME killed # "reset" PROVE CloseInv'
  BY <1>0
<1>1. CASE LoopTake
  <2>. DEFINE f == Head(inbox)
              hi == RunEnd(rxQueue \cup {f}, rxSeq)
  <2>0. ~chanClosed /\ UNCHANGED <<chanClosed, panicked>>
    BY <1>1 DEF CloseInv, LoopTake, chan
  <2>1. CASE DeliverClosed
    BY <2>0, <2>1 DEF CloseInv, DeliverClosed
  <2>2. CASE DeliverOld(f) \/ DeliverEarly(f)
    BY <2>0, <2>2 DEF CloseInv, DeliverOld, DeliverEarly, loop
  <2>3. CASE DeliverRun(f, hi)
    <3>1. rxClosed' = closeAfter'
      BY <2>3 DEF DeliverRun
    <3>. QED
      BY <2>0, <3>1 DEF CloseInv
  <2>. QED
    BY <1>1, <2>1, <2>2, <2>3 DEF LoopTake
<1>2. CASE LoopSend
  BY <1>2 DEF CloseInv, LoopSend
<1>3. CASE LoopAbort
  BY <1>3 DEF CloseInv, LoopAbort, CloseChan, chan
<1>4. CASE LoopSent
  BY <1>4 DEF CloseInv, LoopSent, CloseChan, chan
<1>5. CASE LoopDone
  BY <1>5 DEF CloseInv, LoopDone, chan
<1>6. CASE LoopDefer
  BY <1>6 DEF CloseInv, LoopDefer, CloseChan, chan
<1>7. ASSUME UNCHANGED <<pc, closeAfter, rxClosed, chanClosed, panicked>>
      PROVE  CloseInv'
  BY <1>7 DEF CloseInv
<1>8. CASE Read \/ Stop \/ StopAfterReset \/ UNCHANGED vars
  BY <1>7, <1>8 DEF Read, Stop, StopAfterReset, vars, loop, chan
<1>9. CASE CloseRx
  BY <1>9 DEF CloseRx, CloseInv
<1>10. ASSUME NEW w \in Workers,
             (\E f \in 0..FinSeq : ProcessRx(w, f)) \/ InboxSend(w) \/ InboxAbandon(w)
             \/ InboxFull(w) \/ InboxTimeout(w)
      PROVE  CloseInv'
  BY <1>7, <1>10 DEF ProcessRx, InboxSend, InboxAbandon, InboxFull, InboxTimeout, loop, chan
<1>. QED
  BY <1>1, <1>2, <1>3, <1>4, <1>5, <1>6, <1>8, <1>9, <1>10 DEF Next, Loop

(* As long as sessions are ended with Stop and never with CloseRx, no send *)
(* on a closed RxChan and no second close can happen, although deliverRx   *)
(* sends and closes without holding the session's lock.                    *)
THEOREM StopIsSafe == Spec => []StopNeverPanics
<1>1. Init => TypeOK /\ CloseInv
  BY TypeInit, CloseInit
<1>2. TypeOK /\ CloseInv /\ [Next]_vars => TypeOK' /\ CloseInv'
  BY TypeStep, CloseStep
<1>3. CloseInv => StopNeverPanics
  BY DEF CloseInv, StopNeverPanics
<1>. QED
  BY <1>1, <1>2, <1>3, PTL DEF Spec

---------------------------------------------------------------------------
(* End of file.                                                            *)

(* Without an outside Stop or CloseRx the loop runs until the FIN: until   *)
(* then rxDone and rxClosed are not set under it, and what is left to send *)
(* when the FIN is in hand ends just before it.                            *)
EofInv ==
  /\ pc = "send" /\ closeAfter => rxClosed /\ Len(out) + Len(toSend) = FinSeq
  /\ killed = "no" /\ pc \in {"select", "send"} => ~rxDone /\ ~chanClosed
  /\ killed = "no" /\ (pc = "select" \/ (pc = "send" /\ ~closeAfter)) => ~rxClosed
  /\ killed = "no" /\ pc \in {"defer", "exited"} => rxClosed /\ Len(out) = FinSeq

LEMMA EofInit == Init => EofInv
BY DEF Init, EofInv

LEMMA EofStep == TypeOK /\ OrderInv /\ EofInv /\ [Next]_vars => EofInv'
<1>. SUFFICES ASSUME TypeOK, OrderInv, EofInv, [Next]_vars PROVE EofInv'
  OBVIOUS
<1>0. FinSeq \in Nat /\ out \in Seq(0..FinSeq) /\ toSend \in Seq(0..FinSeq) /\ rxSeq \in Nat
  BY RxAssumption DEF TypeOK
<1>1. CASE LoopTake
  <2>. DEFINE f == Head(inbox)
              hi == RunEnd(rxQueue \cup {f}, rxSeq)
  <2>0. pc = "select" /\ UNCHANGED <<out, rxDone, chanClosed, killed>>
    BY <1>1 DEF LoopTake, chan
  <2>1. CASE DeliverClosed
    BY <2>0, <2>1 DEF EofInv, DeliverClosed
  <2>2. CASE DeliverOld(f) \/ DeliverEarly(f)
    <3>1. UNCHANGED <<rxClosed, pc, toSend, closeAfter>>
      BY <2>2 DEF DeliverOld, DeliverEarly, loop
    <3>. QED
      BY <2>0, <3>1 DEF EofInv
  <2>3. CASE DeliverRun(f, hi)
    <3>1. f \in 0..FinSeq
      <4>1. inbox \in Seq(0..FinSeq) /\ inbox # <<>>
        BY <1>1 DEF TypeOK, LoopTake
      <4>. QED
        BY <4>1, HeadTailProperties
    <3>2. rxSeq \in 0..FinSeq /\ hi \in rxSeq..FinSeq
      BY <1>0, <2>3, <3>1, RunEndFact DEF DeliverRun
    <3>3. Len(toSend') = (IF hi = FinSeq THEN hi ELSE hi + 1) - rxSeq
      BY <1>0, <2>3, <3>2, PayloadsFact DEF DeliverRun
    <3>4. closeAfter' => hi = FinSeq
      BY <2>3 DEF DeliverRun
    <3>5. rxSeq = Len(out)
      BY <2>0 DEF OrderInv
    <3>6. closeAfter' => Len(out') + Len(toSend') = FinSeq
      BY <1>0, <2>0, <3>3, <3>4, <3>5
    <3>7. pc' = "send" /\ rxClosed' = closeAfter'
      BY <2>3 DEF DeliverRun
    <3>. QED
      BY <2>0, <3>6, <3>7 DEF EofInv
  <2>. QED
    BY <1>1, <2>1, <2>2, <2>3 DEF LoopTake
<1>2. CASE LoopSend
  <2>1. CASE chanClosed
    BY <1>2, <2>1 DEF EofInv, LoopSend
  <2>2. CASE ~chanClosed
    <3>1. /\ out' = Append(out, Head(toSend)) /\ toSend' = Tail(toSend) /\ toSend # <<>>
          /\ UNCHANGED <<pc, closeAfter, rxDone, rxClosed, chanClosed, killed>> /\ pc = "send"
      BY <1>2, <2>2 DEF LoopSend
    <3>2. Len(out') = Len(out) + 1 /\ Len(toSend') = Len(toSend) - 1
      BY <1>0, <3>1, HeadTailProperties, AppendProperties
    <3>3. Len(out') + Len(toSend') = Len(out) + Len(toSend)
      BY <1>0, <3>2
    <3>. QED
      BY <3>1, <3>3 DEF EofInv
  <2>. QED
    BY <2>1, <2>2
<1>3. CASE LoopAbort
  BY <1>3 DEF EofInv, LoopAbort, CloseChan, chan
<1>4. CASE LoopSent
  <2>1. pc = "send" /\ Len(toSend) = 0 /\ UNCHANGED <<out, toSend, rxClosed, closeAfter, killed>>
    BY <1>4 DEF LoopSent, CloseChan, chan
  <2>2. CASE closeAfter
    <3>1. Len(out) = FinSeq
      BY <1>0, <2>1, <2>2 DEF EofInv
    <3>2. pc' = "defer"
      BY <1>4, <2>2 DEF LoopSent
    <3>. QED
      BY <2>1, <2>2, <3>1, <3>2 DEF EofInv
  <2>3. CASE ~closeAfter
    BY <1>4, <2>1, <2>3 DEF EofInv, LoopSent, chan
  <2>. QED
    BY <2>2, <2>3
<1>5. CASE LoopDone
  BY <1>5 DEF EofInv, LoopDone, chan
<1>6. CASE LoopDefer
  BY <1>6 DEF EofInv, LoopDefer, CloseChan, chan
<1>7. ASSUME UNCHANGED <<pc, closeAfter, toSend, out>>,
             rxClosed => rxClosed',
             killed' # "no" \/ UNCHANGED <<killed, rxDone, rxClosed, chanClosed>>
      PROVE  EofInv'
  BY <1>7 DEF EofInv
<1>8. CASE Read \/ Stop \/ StopAfterReset \/ CloseRx \/ UNCHANGED vars
  BY <1>7, <1>8 DEF Read, Stop, StopAfterReset, CloseRx, CloseChan, vars, loop, chan
<1>9. ASSUME NEW w \in Workers,
             (\E f \in 0..FinSeq : ProcessRx(w, f)) \/ InboxSend(w) \/ InboxAbandon(w)
             \/ InboxFull(w) \/ InboxTimeout(w)
      PROVE  EofInv'
  BY <1>7, <1>9 DEF ProcessRx, InboxSend, InboxAbandon, InboxFull, InboxTimeout, loop, chan
<1>. QED
  BY <1>1, <1>2, <1>3, <1>4, <1>5, <1>6, <1>8, <1>9 DEF Next, Loop

(* An end of file on RxChan is the peer's: unless the session was stopped  *)
(* or reset from outside, RxChan is closed only after every payload before *)
(* the FIN has been put into it.                                           *)
THEOREM EofIsHonest == Spec => []HonestEof
<1>1. Init => TypeOK /\ OrderInv /\ EofInv
  BY TypeInit, OrderInit, EofInit
<1>2. TypeOK /\ OrderInv /\ EofInv /\ [Next]_vars => (TypeOK /\ OrderInv /\ EofInv)'
  BY TypeStep, OrderStep, EofStep
<1>3. TypeOK /\ EofInv => HonestEof
  BY DEF TypeOK, EofInv, HonestEof
<1>. QED
  BY <1>1, <1>2, <1>3, PTL DEF Spec
=============================================================================
