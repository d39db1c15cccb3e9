------------------------------ MODULE SessionRx ------------------------------
(***************************************************************************)
(* The receive side of one session as goroutines see it: poll workers (or  *)
(* tunnel handlers) in ProcessRx, the session's rxLoop with deliverRx, the *)
(* reader that ranges over RxChan, and whoever calls Stop or CloseRx.      *)
(* The channels are modelled with Go's rules: a select with several ready  *)
(* cases takes any of them, a send on a closed channel and a second close  *)
(* panic.                                                                  *)
(*                                                                         *)
(* A frame is its sequence number; the frame FinSeq is the FIN and carries *)
(* no payload, the payload of any other frame is named by its number.      *)
(***************************************************************************)
EXTENDS Integers, Sequences

CONSTANTS
  Workers,       \* goroutines that route frames to this session
  FinSeq,        \* sequence number of the peer's FIN
  InboxCap,      \* rxInboxCap
  ChanCap        \* capacity of RxChan

ASSUME RxAssumption ==
  /\ FinSeq \in Nat
  /\ InboxCap \in Nat \ {0}
  /\ ChanCap \in Nat \ {0}

VARIABLES
  inbox,         \* rxInbox
  call,          \* what each worker is doing in ProcessRx
  rxSeq,         \* next sequence number expected
  rxQueue,       \* sequence numbers parked out of order
  rxClosed,      \* the flag of that name
  rxDone,        \* rxDone has been closed (Stop was called)
  pc,            \* where rxLoop is
  toSend,        \* deliverRx: payloads still to be sent on RxChan
  closeAfter,    \* deliverRx: the run ended with the FIN
  out,           \* history: every payload put into RxChan
  nread,         \* how many of them the reader has taken
  chanClosed,    \* RxChan is closed
  killed,        \* history: who ended the session from outside rxLoop
  panicked       \* a send on a closed channel, or a second close

chan == <<out, nread, chanClosed, panicked>>
loop == <<pc, toSend, closeAfter>>
vars == <<inbox, call, rxSeq, rxQueue, rxClosed, rxDone, loop, chan, killed>>

Idle == [at |-> "idle"]
Calls == {Idle} \cup [at : {"fast", "slow"}, frame : 0..FinSeq]

Init ==
  /\ inbox = <<>>
  /\ call = [w \in Workers |-> Idle]
  /\ rxSeq = 0
  /\ rxQueue = {}
  /\ rxClosed = FALSE
  /\ rxDone = FALSE
  /\ pc = "select"
  /\ toSend = <<>>
  /\ closeAfter = FALSE
  /\ out = <<>>
  /\ nread = 0
  /\ chanClosed = FALSE
  /\ killed = "no"
  /\ panicked = FALSE

(* close(s.RxChan) *)
CloseChan ==
  /\ chanClosed' = TRUE
  /\ panicked' = (panicked \/ chanClosed)
  /\ UNCHANGED <<out, nread>>

---------------------------------------------------------------------------
(* ProcessRx.                                                              *)

(* The rxClosed check under the lock. *)
ProcessRx(w, f) ==
  /\ call[w] = Idle
  /\ ~rxClosed
  /\ call' = [call EXCEPT ![w] = [at |-> "fast", frame |-> f]]
  /\ UNCHANGED <<inbox, rxSeq, rxQueue, rxClosed, rxDone, loop, chan, killed>>

(* Either select: the frame goes into rxInbox when there is room. *)
InboxSend(w) ==
  /\ call[w] # Idle
  /\ Len(inbox) < InboxCap
  /\ inbox' = Append(inbox, call[w].frame)
  /\ call' = [call EXCEPT ![w] = Idle]
  /\ UNCHANGED <<rxSeq, rxQueue, rxClosed, rxDone, loop, chan, killed>>

(* Either select: rxDone is closed, the frame is dropped. *)
InboxAbandon(w) ==
  /\ call[w] # Idle
  /\ rxDone
  /\ call' = [call EXCEPT ![w] = Idle]
  /\ UNCHANGED <<inbox, rxSeq, rxQueue, rxClosed, rxDone, loop, chan, killed>>

(* The fast path's default: neither case was ready. *)
InboxFull(w) ==
  /\ call[w].at = "fast"
  /\ Len(inbox) = InboxCap
  /\ ~rxDone
  /\ call' = [call EXCEPT ![w].at = "slow"]
  /\ UNCHANGED <<inbox, rxSeq, rxQueue, rxClosed, rxDone, loop, chan, killed>>

(* rxInboxBlockTimeout elapses: the session is killed. *)
InboxTimeout(w) ==
  /\ call[w].at = "slow"
  /\ call' = [call EXCEPT ![w] = Idle]
  /\ rxDone' = TRUE
  /\ killed' = IF killed = "reset" THEN "reset" ELSE "stop"
  /\ UNCHANGED <<inbox, rxSeq, rxQueue, rxClosed, loop, chan>>

---------------------------------------------------------------------------
(* rxLoop and deliverRx.                                                   *)

(* The last frame of the run that starts at lo, a frame that has arrived:  *)
(* the first one that is the FIN or has no successor among those in got.   *)
Ends(got, lo) == {n \in lo..FinSeq : n = FinSeq \/ n + 1 \notin got}

(* Mutation of RunEnd: one past the last frame. *)
RunEnd_Beyond(got, lo) ==
  (CHOOSE hi \in Ends(got, lo) : \A n \in Ends(got, lo) : hi <= n) + 1

RunEnd(got, lo) ==
  CHOOSE hi \in Ends(got, lo) : \A n \in Ends(got, lo) : hi <= n

(* The payloads of the frames lo..hi; the FIN has none. *)
Payloads(lo, hi) ==
  [i \in 1..((IF hi = FinSeq THEN hi ELSE hi + 1) - lo) |-> lo + i - 1]

(* The critical section of deliverRx: the receive side is closed already,  *)
(* the frame is a duplicate, it is early, or it starts a run.              *)
DeliverClosed ==
  /\ rxClosed
  /\ pc' = "defer"
  /\ UNCHANGED <<rxSeq, rxQueue, rxClosed, toSend, closeAfter>>

(* Mutation of DeliverOld: duplicates are not recognised. *)
DeliverOld_Again(f) ==
  /\ ~rxClosed
  /\ f < rxSeq
  /\ toSend' = <<f>>
  /\ pc' = "send"
  /\ UNCHANGED <<rxSeq, rxQueue, rxClosed, closeAfter>>

DeliverOld(f) ==
  /\ ~rxClosed
  /\ f < rxSeq
  /\ UNCHANGED <<rxSeq, rxQueue, rxClosed, loop>>

DeliverEarly(f) ==
  /\ ~rxClosed
  /\ f > rxSeq
  /\ rxQueue' = rxQueue \cup {f}
  /\ UNCHANGED <<rxSeq, rxClosed, loop>>

DeliverRun(f, hi) ==
  /\ ~rxClosed
  /\ f = rxSeq
  /\ rxSeq' = hi + 1
  /\ rxQueue' = rxQueue \ (rxSeq..hi)
  /\ closeAfter' = (hi = FinSeq)
  /\ rxClosed' = (hi = FinSeq)
  /\ toSend' = Payloads(rxSeq, hi)
  /\ pc' = "send"

(* rxLoop receives a frame. *)
LoopTake ==
  /\ pc = "select"
  /\ inbox # <<>>
  /\ inbox' = Tail(inbox)
  /\ \/ DeliverClosed
     \/ DeliverOld(Head(inbox))
     \/ DeliverEarly(Head(inbox))
     \/ DeliverRun(Head(inbox), RunEnd(rxQueue \cup {Head(inbox)}, rxSeq))
  /\ UNCHANGED <<call, rxDone, chan, killed>>

(* deliverRx, after the unlock: the next payload goes into RxChan. *)
LoopSend ==
  /\ pc = "send"
  /\ toSend # <<>>
  /\ \/ /\ chanClosed
        /\ panicked' = TRUE
        /\ UNCHANGED <<out, toSend>>
     \/ /\ ~chanClosed
        /\ Len(out) - nread < ChanCap
        /\ out' = Append(out, Head(toSend))
        /\ toSend' = Tail(toSend)
        /\ UNCHANGED panicked
  /\ UNCHANGED <<inbox, call, rxSeq, rxQueue, rxClosed, rxDone, pc, closeAfter,
                 nread, chanClosed, killed>>

(* deliverRx: rxDone is closed while payloads are left; they are dropped. *)
LoopAbort ==
  /\ pc = "send"
  /\ toSend # <<>>
  /\ rxDone
  /\ IF closeAfter THEN CloseChan ELSE UNCHANGED chan
  /\ pc' = "defer"
  /\ toSend' = <<>>
  /\ UNCHANGED <<inbox, call, rxSeq, rxQueue, rxClosed, rxDone, closeAfter, killed>>

(* Mutation of LoopSent: RxChan is closed with payloads left to send. *)
LoopSent_Early ==
  /\ pc = "send"
  /\ closeAfter \/ toSend = <<>>
  /\ IF closeAfter
     THEN CloseChan /\ rxDone' = TRUE /\ pc' = "defer"
     ELSE UNCHANGED <<chan, rxDone>> /\ pc' = "select"
  /\ UNCHANGED <<inbox, call, rxSeq, rxQueue, rxClosed, toSend, closeAfter, killed>>

(* deliverRx returns; after a FIN it closes RxChan and stops the session.  *)
LoopSent ==
  /\ pc = "send"
  /\ toSend = <<>>
  /\ IF closeAfter
     THEN CloseChan /\ rxDone' = TRUE /\ pc' = "defer"
     ELSE UNCHANGED <<chan, rxDone>> /\ pc' = "select"
  /\ UNCHANGED <<inbox, call, rxSeq, rxQueue, rxClosed, toSend, closeAfter, killed>>

LoopDone ==
  /\ pc = "select"
  /\ rxDone
  /\ pc' = "defer"
  /\ UNCHANGED <<inbox, call, rxSeq, rxQueue, rxClosed, rxDone, toSend,
                 closeAfter, chan, killed>>

(* Mutation of LoopDefer: RxChan is closed without looking at rxClosed. *)
LoopDefer_Unconditional ==
  /\ pc = "defer"
  /\ rxClosed' = TRUE
  /\ CloseChan
  /\ pc' = "exited"
  /\ UNCHANGED <<inbox, call, rxSeq, rxQueue, rxDone, toSend, closeAfter, killed>>

(* Mutation of LoopDefer: RxChan is left open. *)
LoopDefer_LeaveOpen ==
  /\ pc = "defer"
  /\ pc' = "exited"
  /\ UNCHANGED <<inbox, call, rxSeq, rxQueue, rxClosed, rxDone, toSend,
                 closeAfter, chan, killed>>

(* The deferred function of rxLoop. *)
LoopDefer ==
  /\ pc = "defer"
  /\ rxClosed' = TRUE
  /\ IF rxClosed THEN UNCHANGED chan ELSE CloseChan
  /\ pc' = "exited"
  /\ UNCHANGED <<inbox, call, rxSeq, rxQueue, rxDone, toSend, closeAfter, killed>>

---------------------------------------------------------------------------
(* The other users of the session.                                         *)

(* The goroutine ranging over RxChan. *)
Read ==
  /\ nread < Len(out)
  /\ nread' = nread + 1
  /\ UNCHANGED <<inbox, call, rxSeq, rxQueue, rxClosed, rxDone, loop, out,
                 chanClosed, killed, panicked>>

(* Stop, from gcDoneSessions or from the exit server's read pump. *)
Stop ==
  /\ ~rxDone
  /\ rxDone' = TRUE
  /\ killed' = IF killed = "reset" THEN "reset" ELSE "stop"
  /\ UNCHANGED <<inbox, call, rxSeq, rxQueue, rxClosed, loop, chan>>

(* CloseRx, from routeRx on an RST and from gcIdleSessions; both go on to  *)
(* call Stop.                                                              *)
CloseRx ==
  /\ rxClosed' = TRUE
  /\ IF rxClosed THEN UNCHANGED chan ELSE CloseChan
  /\ killed' = "reset"
  /\ UNCHANGED <<inbox, call, rxSeq, rxQueue, rxDone, loop>>

StopAfterReset ==
  /\ killed = "reset"
  /\ ~rxDone
  /\ rxDone' = TRUE
  /\ UNCHANGED <<inbox, call, rxSeq, rxQueue, rxClosed, loop, chan, killed>>

---------------------------------------------------------------------------
Loop == LoopTake \/ LoopSend \/ LoopAbort \/ LoopSent \/ LoopDone \/ LoopDefer

Next ==
  /\ ~panicked          \* a panic ends the process
  /\ \/ \E w \in Workers :
          \/ \E f \in 0..FinSeq : ProcessRx(w, f)
          \/ InboxSend(w)
          \/ InboxAbandon(w)
          \/ InboxFull(w)
          \/ InboxTimeout(w)
     \/ Loop
     \/ Read
     \/ Stop
     \/ CloseRx
     \/ StopAfterReset

Spec == Init /\ [][Next]_vars

(* Goroutines are scheduled; the reader may stop reading for good.  A      *)
(* select takes one of its ready cases at random, so a case that is ready  *)
(* time and again is taken in the end: strong fairness of LoopDone.        *)
FairSpec ==
  /\ Spec
  /\ WF_vars(~panicked /\ Loop)
  /\ SF_vars(~panicked /\ LoopDone)
  /\ WF_vars(~panicked /\ StopAfterReset)

---------------------------------------------------------------------------
(* Sequence numbers, channels and the states of the goroutines stay within *)
(* their ranges.                                                           *)
TypeOK ==
  /\ inbox \in Seq(0..FinSeq)
  /\ call \in [Workers -> Calls]
  /\ rxSeq \in 0..(FinSeq + 1)
  /\ rxQueue \subseteq 0..FinSeq
  /\ rxClosed \in BOOLEAN /\ rxDone \in BOOLEAN
  /\ pc \in {"select", "send", "defer", "exited"}
  /\ toSend \in Seq(0..FinSeq)
  /\ closeAfter \in BOOLEAN
  /\ out \in Seq(0..FinSeq)
  /\ nread \in Nat
  /\ chanClosed \in BOOLEAN /\ panicked \in BOOLEAN
  /\ killed \in {"no", "stop", "reset"}

(* deliverRx and the deferred close of rxLoop agree on who closes RxChan:  *)
(* nobody sends on it after, or closes it twice, although deliverRx sends  *)
(* and closes outside the lock, as long as sessions are ended with Stop.   *)
StopNeverPanics == panicked => killed = "reset"

(* Whatever order and however often frames arrive, and whenever the        *)
(* session is stopped, the reader is handed payloads 0, 1, 2, ... in order.*)
InOrder == \A i \in DOMAIN out : out[i] = i - 1

(* RxChan ends only after the payload before the FIN, unless the session   *)
(* was killed: an end of file the reader sees is the peer's.               *)
HonestEof == chanClosed /\ killed = "no" => Len(out) = FinSeq

(* Once the session is stopped, RxChan is closed even if nobody reads it,  *)
(* so a goroutine that ranges over it is released.                         *)
StopClosesChan == rxDone ~> chanClosed
=============================================================================
