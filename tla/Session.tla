------------------------------- MODULE Session -------------------------------
(***************************************************************************)
(* The data type of core/internal/session/session.go: one tunneled TCP     *)
(* connection.  A session is split into the two halves that share nothing  *)
(* but the mutex: the transmit half (txBuf, txSeq, synNeeded, closeReq,    *)
(* finSent) and the receive half (rxSeq, rxQueue, rxClosed).  Every        *)
(* operator below is the effect of one critical section of s.mu.           *)
(*                                                                         *)
(* A byte is an element of any set; a payload is a sequence of bytes.      *)
(* Time stamps (finSentAt, firstQueuedAt) are left out: they only order    *)
(* sessions in a batch and reap orphans.                                   *)
(***************************************************************************)
EXTENDS Integers, Sequences

Least(a, b)    == IF a <= b THEN a ELSE b
Greatest(a, b) == IF a <= b THEN b ELSE a

(* ceil(a / b), the frame count of a buffer of a bytes. *)
CeilDiv(a, b) == (a + b - 1) \div b

Frame(seq, syn, fin, payload) ==
  [seq |-> seq, syn |-> syn, fin |-> fin, payload |-> payload]

---------------------------------------------------------------------------
(* The transmit half.                                                      *)

NewTx(needsSYN) ==
  [txBuf |-> <<>>, txSeq |-> 0, synNeeded |-> needsSYN,
   closeReq |-> FALSE, finSent |-> FALSE]

FinPending(s) == s.closeReq /\ ~s.finSent

(* Mutation of HasPendingTx: buffered bytes alone do not count. *)
HasPendingTx_NoBytes(s) == s.synNeeded \/ FinPending(s)

HasPendingTx(s) == s.synNeeded \/ s.txBuf # <<>> \/ FinPending(s)

(* EnqueueTx waits on txCond while this holds. *)
TxBlocked(s, highWater) == Len(s.txBuf) > highWater /\ ~s.closeReq

(* EnqueueTx past its wait: a no-op once the session was asked to close. *)
EnqueueTx(s, data) ==
  IF s.closeReq THEN s ELSE [s EXCEPT !.txBuf = @ \o data]

(* The SOCKS adapter calls this for every Write.  Until the SYN has been   *)
(* drained it neither waits at the high-water mark nor looks at closeReq.  *)
EnqueueInitialData(s, data) ==
  IF s.synNeeded THEN [s EXCEPT !.txBuf = @ \o data] ELSE EnqueueTx(s, data)

RequestClose(s) == [s EXCEPT !.closeReq = TRUE]

(* Frames needed to empty the buffer, the SYN riding on the first of them. *)
DataFrames(s, maxPayload) ==
  LET chunks == CeilDiv(Len(s.txBuf), maxPayload)
  IN  IF s.synNeeded THEN Greatest(1, chunks) ELSE chunks

(* drainTx: at most maxFrames frames of at most maxPayload bytes; a FIN    *)
(* only when every byte has been drained and a slot is left for it.        *)
DrainTx(s, maxPayload, maxFrames) ==
  LET n     == Least(maxFrames, DataFrames(s, maxPayload))
      taken == Least(n * maxPayload, Len(s.txBuf))
      data  == [i \in 1..n |->
                  Frame(s.txSeq + i - 1, s.synNeeded /\ i = 1, FALSE,
                        SubSeq(s.txBuf, (i - 1) * maxPayload + 1,
                               Least(i * maxPayload, Len(s.txBuf))))]
      fin   == FinPending(s) /\ n < maxFrames
      tail  == IF fin THEN <<Frame(s.txSeq + n, FALSE, TRUE, <<>>)>> ELSE <<>>
  IN  [frames |-> data \o tail,
       snap   |-> s,
       sess   |-> [s EXCEPT !.txBuf = SubSeq(@, taken + 1, Len(@)),
                            !.txSeq = @ + n + Len(tail),
                            !.synNeeded = @ /\ n = 0,
                            !.finSent = @ \/ fin]]

(* Mutation of RollbackDrain: the sequence number is not wound back. *)
RollbackDrain_KeepSeq(s, snap) ==
  [s EXCEPT !.txBuf = snap.txBuf \o @,
            !.synNeeded = @ \/ snap.synNeeded,
            !.finSent = @ /\ snap.finSent]

(* Mutation of RollbackDrain: the SYN flag is not put back. *)
RollbackDrain_LoseSyn(s, snap) ==
  [s EXCEPT !.txBuf = snap.txBuf \o @,
            !.txSeq = snap.txSeq,
            !.finSent = @ /\ snap.finSent]

(* Mutation of RollbackDrain: the sequence number is wound back one too far. *)
RollbackDrain_SeqBefore(s, snap) ==
  [s EXCEPT !.txBuf = snap.txBuf \o @,
            !.txSeq = snap.txSeq - 1,
            !.synNeeded = @ \/ snap.synNeeded,
            !.finSent = @ /\ snap.finSent]


(* RollbackDrain: the whole pre-drain buffer in front of the current one.  *)
RollbackDrain(s, snap) ==
  [s EXCEPT !.txBuf = snap.txBuf \o @,
            !.txSeq = snap.txSeq,
            !.synNeeded = @ \/ snap.synNeeded,
            !.finSent = @ /\ snap.finSent]

---------------------------------------------------------------------------
(* The receive half.  rxQueue maps a sequence number to its parked frame.  *)

NewRx == [rxSeq |-> 0, rxQueue |-> <<>>, rxClosed |-> FALSE]

(* Parked frames and f together; f replaces what is parked under its seq.  *)
WithFrame(q, f) ==
  [n \in DOMAIN q \cup {f.seq} |-> IF n = f.seq THEN f ELSE q[n]]

(* The last frame of the run that starts at lo: the run stops at a gap and *)
(* at a FIN.                                                               *)
RunEnd(q, lo) ==
  CHOOSE hi \in DOMAIN q :
    /\ hi >= lo
    /\ \A n \in lo..hi : n \in DOMAIN q
    /\ \A n \in lo..(hi - 1) : ~q[n].fin
    /\ q[hi].fin \/ hi + 1 \notin DOMAIN q

(* toSend: the payloads of a run in order, the empty ones left out. *)
ToSend(run) ==
  LET toSend[i \in 0..Len(run)] ==
        IF i = 0 THEN <<>>
        ELSE IF run[i].payload = <<>> THEN toSend[i - 1]
        ELSE Append(toSend[i - 1], run[i].payload)
  IN  toSend[Len(run)]

(* Mutation of DeliverRx: a duplicate frame is delivered again. *)
DeliverRx_NoDedup(r, f) ==
  LET lo == IF f.seq < r.rxSeq THEN f.seq ELSE r.rxSeq
      q  == WithFrame(r.rxQueue, f)
  IN  IF r.rxClosed \/ f.seq > r.rxSeq
      THEN [rx |-> IF r.rxClosed THEN r ELSE [r EXCEPT !.rxQueue = q],
            out |-> <<>>, closing |-> FALSE]
      ELSE [rx |-> [r EXCEPT !.rxSeq = lo + 1],
            out |-> <<f.payload>>, closing |-> f.fin]

(* The critical section of deliverRx.  out lists the non-empty payloads to *)
(* be sent on RxChan after the unlock, closing says whether a FIN ended    *)
(* the run.                                                                *)
DeliverRx(r, f) ==
  LET q    == WithFrame(r.rxQueue, f)
      hi   == RunEnd(q, r.rxSeq)
      run  == [i \in 1..(hi - r.rxSeq + 1) |-> q[r.rxSeq + i - 1]]
  IN  IF r.rxClosed \/ f.seq < r.rxSeq
      THEN [rx |-> r, out |-> <<>>, closing |-> FALSE]
      ELSE IF f.seq > r.rxSeq
      THEN [rx |-> [r EXCEPT !.rxQueue = q], out |-> <<>>, closing |-> FALSE]
      ELSE [rx |-> [rxSeq |-> hi + 1,
                    rxQueue |-> [n \in DOMAIN q \ (r.rxSeq..hi) |-> q[n]],
                    rxClosed |-> q[hi].fin],
            out |-> ToSend(run),
            closing |-> q[hi].fin]
=============================================================================
