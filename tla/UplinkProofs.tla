---------------------------- MODULE UplinkProofs -----------------------------
(***************************************************************************)
(* Proofs about module Uplink, in four layers.  Sound needs no assumption: *)
(* the records stay well formed.  Flow holds until the first mishap:       *)
(* batches start where the server is known to be, so rxInbox never has a   *)
(* gap and the SYN comes first.  Ordered adds rollbackDrained's premise    *)
(* and Positions the promise that a rollback puts back what was drained;   *)
(* both hold through every mishap.                                         *)
(***************************************************************************)
EXTENDS Uplink, FiniteSetTheorems, SequenceTheorems, WellFoundedInduction, TLAPS

---------------------------------------------------------------------------
(* The invariants.                                                         *)

TxRecord == [txBuf : Seq(Nat), txSeq : Nat, synNeeded : BOOLEAN,
             closeReq : BOOLEAN, finSent : BOOLEAN]

(* Parked frames by sequence number. *)
Queues == UNION {[D -> Frames] : D \in SUBSET Nat}

RxRecord == [rxSeq : Nat, rxQueue : Queues, rxClosed : BOOLEAN]

Keyed(q) == \A m \in DOMAIN q : q[m].seq = m

(* Requests nobody waits for. *)
Astray == late \cup dials

(* A batch as DrainTx makes it: consecutive frames, the SYN on frame 0. *)
Batch(b) ==
  /\ b \in Seq(Frames) /\ Len(b) >= 1
  /\ \A i \in DOMAIN b : b[i].seq = b[1].seq + i - 1
  /\ b[1].seq = 0 => b[1].syn

(* The drained batch lies between the snapshot and the session. *)
PollShape ==
  poll # Idle =>
    /\ Batch(poll.frames)
    /\ poll.frames[1].seq = poll.snap.txSeq
    /\ poll.snap.txSeq + Len(poll.frames) = tx.txSeq
    /\ poll.snap.synNeeded <=> poll.snap.txSeq = 0

(* Every frame outside the poll has a number below n. *)
Below(n) ==
  /\ tx.txSeq <= n
  /\ \A m \in DOMAIN rx.rxQueue : m < n
  /\ \A i \in DOMAIN inbox : inbox[i].seq < n
  /\ \A b \in Astray : \A i \in DOMAIN b : b[i].seq < n

Sound ==
  /\ TypeOK
  /\ rx \in RxRecord /\ Keyed(rx.rxQueue)
  /\ tx.synNeeded <=> tx.txSeq = 0
  /\ PollShape
  /\ \A b \in Astray : Batch(b)
  /\ \E n \in Nat : Below(n)

(* The server has the frame numbered m, delivered or waiting in rxInbox. *)
Got(m) == m < rx.rxSeq \/ \E j \in DOMAIN inbox : inbox[j].seq = m

(* Nothing before the batch is missing at a server that still listens. *)
Reached(b) == rx.rxClosed \/ \A m \in Nat : m < b[1].seq => Got(m)

(* What was committed, or answered and not yet committed, has arrived. *)
Committed ==
  poll = Idle \/ (poll.st = "posted" /\ poll.handled)
    => rx.rxClosed \/ \A m \in Nat : m < tx.txSeq => Got(m)

(* In rxInbox every frame comes after those it needs. *)
NoGap ==
  \A i \in DOMAIN inbox : \A m \in Nat :
    rx.rxSeq <= m /\ m < inbox[i].seq => \E j \in 1..(i - 1) : inbox[j].seq = m

Receiver ==
  /\ DOMAIN rx.rxQueue = {}
  /\ ~rx.rxClosed => NoGap

Opened ==
  /\ ~reset /\ ~elsewhere
  /\ ~known => rx.rxSeq = 0 /\ inbox = <<>> /\ ~rx.rxClosed

Flow ==
  /\ poll # Idle => Reached(poll.frames)
  /\ \A b \in Astray : Reached(b)
  /\ Committed
  /\ Receiver
  /\ Opened

(* The server may have the batch of the poll. *)
Seen == poll.leaked \/ (poll.st = "posted" /\ poll.handled)

(* What the server may have seen is numbered below this. *)
Limit == IF poll # Idle /\ ~Seen THEN poll.snap.txSeq ELSE tx.txSeq

(* No frame follows the FIN. *)
EndsWithFin(f) == f.fin => tx.finSent /\ f.seq + 1 = tx.txSeq

Shown(f) == f.seq < Limit /\ EndsWithFin(f)

PollKnown ==
  poll # Idle =>
    /\ \A i \in DOMAIN poll.frames : EndsWithFin(poll.frames[i])
    /\ ~poll.snap.finSent
    /\ poll.st = "failed" => ~poll.leaked

Ending ==
  /\ tx.finSent => tx.closeReq /\ tx.txBuf = <<>> /\ tx.txSeq # 0
  /\ rx.rxSeq <= Limit
  /\ rx.rxClosed => tx.finSent /\ rx.rxSeq = tx.txSeq
  /\ eof = rx.rxClosed

(* The frames the server holds or may still receive. *)
AllShown ==
  /\ \A i \in DOMAIN inbox : Shown(inbox[i])
  /\ \A m \in DOMAIN rx.rxQueue : Shown(rx.rxQueue[m])
  /\ \A b \in Astray : \A i \in DOMAIN b : Shown(b[i])

Ordered == AllShown /\ PollKnown /\ Ending

---------------------------------------------------------------------------
(* Arithmetic and sequences.                                               *)

LEMMA Constants ==
  /\ MaxPayload \in Nat \ {0} /\ MaxFrames \in Nat \ {0} /\ MaxAttempts \in Nat \ {0}
  /\ MaxWrite \in Nat \ {0} /\ HighWater \in Nat /\ MaxBytes \in Nat /\ MaxFaults \in Nat
BY UplinkAssumption

LEMMA CeilDivFacts ==
  ASSUME NEW a \in Nat, NEW b \in Nat \ {0}
  PROVE  /\ CeilDiv(a, b) \in Nat
         /\ CeilDiv(a, b) * b >= a
         /\ a > 0 => CeilDiv(a, b) >= 1
<1> DEFINE x == a + b - 1
           q == x \div b
<1>1. x \in Nat  OBVIOUS
<1> HIDE DEF x
<1>2. q \in Int /\ b * q <= x /\ x < b * q + b  BY <1>1
<1> HIDE DEF q
<1>3. q >= 0  BY <1>1, <1>2
<1>4. q * b = b * q  BY <1>2
<1>5. q * b >= a  BY <1>2, <1>4 DEF x
<1>6. a > 0 => q # 0
  <2> SUFFICES ASSUME q = 0 PROVE a <= 0  OBVIOUS
  <2>1. q * b = 0  OBVIOUS
  <2> QED  BY <1>5, <2>1
<1>7. a > 0 => q >= 1  BY <1>2, <1>3, <1>6
<1> QED  BY <1>2, <1>3, <1>5, <1>7 DEF CeilDiv, q, x

LEMMA FunctionIsSequence ==
  ASSUME NEW S, NEW n \in Nat, NEW f \in [1..n -> S]
  PROVE  f \in Seq(S) /\ Len(f) = n
<1>1. f \in Seq(S)  BY SeqDef
<1>2. 1..Len(f) = 1..n /\ Len(f) \in Nat  BY <1>1, LenProperties
<1> QED  BY <1>1, <1>2

LEMMA Singleton ==
  ASSUME NEW S, NEW e \in S
  PROVE  <<e>> \in Seq(S) /\ Len(<<e>>) = 1 /\ <<e>>[1] = e
OBVIOUS

(* How many data frames DrainTx makes, and how many bytes they take. *)
LEMMA DrainCounts ==
  ASSUME NEW s \in TxRecord
  PROVE  LET n == Least(MaxFrames, DataFrames(s, MaxPayload))
             taken == Least(n * MaxPayload, Len(s.txBuf))
         IN  /\ n \in 0..MaxFrames /\ taken \in 0..Len(s.txBuf)
             /\ s.synNeeded \/ s.txBuf # <<>> => n >= 1
             /\ n < MaxFrames => taken = Len(s.txBuf)
             /\ Len(s.txBuf) <= MaxFrames * MaxPayload => taken = Len(s.txBuf)
<1> DEFINE l == Len(s.txBuf)
           c == CeilDiv(l, MaxPayload)
           k == DataFrames(s, MaxPayload)
           n == Least(MaxFrames, k)
           taken == Least(n * MaxPayload, l)
<1>1. s.txBuf \in Seq(Nat) /\ l \in Nat /\ (s.txBuf # <<>> => l > 0)
  BY EmptySeq, LenProperties DEF TxRecord
<1> HIDE DEF l
<1>2. c \in Nat /\ c * MaxPayload >= l /\ (l > 0 => c >= 1)  BY <1>1, CeilDivFacts, Constants
<1>3. k = IF s.synNeeded THEN Greatest(1, c) ELSE c  BY DEF DataFrames, l
<1> HIDE DEF c, k
<1>4. k \in Nat /\ k >= c /\ (s.synNeeded => k >= 1)  BY <1>2, <1>3 DEF Greatest
<1>5. k * MaxPayload >= l
  <2>1. k * MaxPayload >= c * MaxPayload  BY <1>2, <1>4, Constants
  <2>2. k * MaxPayload \in Int /\ c * MaxPayload \in Int  BY <1>2, <1>4, Constants
  <2> QED  BY <1>1, <1>2, <2>1, <2>2
<1>6. /\ n \in 0..MaxFrames
      /\ s.synNeeded \/ s.txBuf # <<>> => n >= 1
      /\ n < MaxFrames => n = k
      /\ n = k \/ n = MaxFrames
  BY <1>1, <1>2, <1>4, Constants DEF Least
<1> HIDE DEF n
<1>7. n * MaxPayload \in Nat  BY <1>6, Constants
<1>8. taken \in 0..l  BY <1>1, <1>7 DEF Least
<1>9. n < MaxFrames => taken = l  BY <1>1, <1>5, <1>6, <1>7 DEF Least
<1>10. l <= MaxFrames * MaxPayload => taken = l
  BY <1>1, <1>5, <1>6, <1>7 DEF Least
<1> QED  BY <1>6, <1>8, <1>9, <1>10 DEF n, k, l

(* DrainTx: consecutive frames, the SYN on the first, a FIN only after the *)
(* last byte.                                                              *)
LEMMA DrainShape ==
  ASSUME NEW s \in TxRecord
  PROVE  LET d == DrainTx(s, MaxPayload, MaxFrames)
             n == Least(MaxFrames, DataFrames(s, MaxPayload))
             taken == Least(n * MaxPayload, Len(s.txBuf))
             fin == FinPending(s) /\ n < MaxFrames
         IN  /\ d.snap = s
             /\ d.frames \in Seq(Frames)
             /\ Len(d.frames) = n + (IF fin THEN 1 ELSE 0)
             /\ \A i \in 1..Len(d.frames) :
                  /\ d.frames[i].seq = s.txSeq + i - 1
                  /\ i <= n => d.frames[i].syn = (s.synNeeded /\ i = 1)
                  /\ d.frames[i].fin = (fin /\ i = n + 1)
                  /\ i <= n => d.frames[i].payload =
                                 SubSeq(s.txBuf, (i - 1) * MaxPayload + 1,
                                        Least(i * MaxPayload, Len(s.txBuf)))
                  /\ i = n + 1 => d.frames[i].payload = <<>>
             /\ d.sess \in TxRecord
             /\ d.sess.txBuf = SubSeq(s.txBuf, taken + 1, Len(s.txBuf))
             /\ d.sess.txSeq = s.txSeq + Len(d.frames)
             /\ d.sess.synNeeded = (s.synNeeded /\ n = 0)
             /\ d.sess.closeReq = s.closeReq
             /\ d.sess.finSent = (s.finSent \/ fin)
<1> DEFINE d == DrainTx(s, MaxPayload, MaxFrames)
           n == Least(MaxFrames, DataFrames(s, MaxPayload))
           l == Len(s.txBuf)
           taken == Least(n * MaxPayload, l)
           fin == FinPending(s) /\ n < MaxFrames
           chunk(i) == SubSeq(s.txBuf, (i - 1) * MaxPayload + 1, Least(i * MaxPayload, l))
           data == [i \in 1..n |->
                      Frame(s.txSeq + i - 1, s.synNeeded /\ i = 1, FALSE, chunk(i))]
           last == Frame(s.txSeq + n, FALSE, TRUE, <<>>)
           tail == IF fin THEN <<last>> ELSE <<>>
           k == IF fin THEN 1 ELSE 0
           rest == SubSeq(s.txBuf, taken + 1, l)
<1>1. /\ s.txBuf \in Seq(Nat) /\ l \in Nat /\ s.txSeq \in Nat /\ s.synNeeded \in BOOLEAN
      /\ s.closeReq \in BOOLEAN /\ s.finSent \in BOOLEAN
      /\ \A i \in 1..l : s.txBuf[i] \in Nat
  BY LenProperties, ElementOfSeq DEF TxRecord
<1>2. n \in 0..MaxFrames /\ n \in Nat /\ taken \in 0..l  BY DrainCounts, Constants
<1>3. /\ d.snap = s
      /\ d.frames = data \o tail
      /\ d.sess = [s EXCEPT !.txBuf = SubSeq(@, taken + 1, Len(@)),
                            !.txSeq = @ + n + Len(tail),
                            !.synNeeded = @ /\ n = 0,
                            !.finSent = @ \/ fin]
  BY DEF DrainTx
<1>4. fin \in BOOLEAN  BY DEF FinPending
<1> HIDE DEF n, taken, l, d, fin
<1>5. \A i \in 1..n : chunk(i) \in Seq(Nat)
  <2> SUFFICES ASSUME NEW i \in 1..n PROVE chunk(i) \in Seq(Nat)  OBVIOUS
  <2> DEFINE a == (i - 1) * MaxPayload
             b == i * MaxPayload
  <2>1. a \in Nat /\ b \in Nat  BY <1>2, Constants
  <2> HIDE DEF a, b
  <2>2. a + 1 \in Int /\ Least(b, l) \in Int /\ Least(b, l) <= l  BY <1>1, <2>1 DEF Least
  <2>3. \A j \in (a + 1)..Least(b, l) : s.txBuf[j] \in Nat  BY <1>1, <2>1, <2>2
  <2>4. SubSeq(s.txBuf, a + 1, Least(b, l)) \in Seq(Nat)  BY <2>2, <2>3, SubSeqProperties
  <2> QED  BY <2>4 DEF a, b
<1> HIDE DEF chunk
<1>6. \A i \in 1..n : data[i] \in Frames  BY <1>1, <1>2, <1>5 DEF Frame, Frames
<1>7. data \in Seq(Frames) /\ Len(data) = n
  <2>1. data \in [1..n -> Frames]  BY <1>6
  <2> QED  BY <1>2, <2>1, FunctionIsSequence
<1>8. last \in Frames  BY <1>1, <1>2, EmptySeq DEF Frame, Frames
<1>9. tail \in Seq(Frames) /\ Len(tail) = k /\ (fin => tail[1] = last)
  <2> HIDE DEF last, data
  <2>1. CASE fin
    <3>1. tail = <<last>> /\ k = 1  BY <2>1
    <3> HIDE DEF tail, k
    <3> QED  BY <1>8, <3>1, Singleton
  <2>2. CASE ~fin
    <3>1. tail = <<>> /\ k = 0  BY <2>2
    <3> HIDE DEF tail, k
    <3> QED  BY <2>2, <3>1, EmptySeq
  <2> QED  BY <2>1, <2>2
<1>10. /\ d.frames \in Seq(Frames) /\ Len(d.frames) = n + k
       /\ \A i \in 1..(n + k) : d.frames[i] = IF i <= n THEN data[i] ELSE tail[i - n]
  <2> HIDE DEF data, tail, k
  <2>1. /\ data \o tail \in Seq(Frames) /\ Len(data \o tail) = Len(data) + Len(tail)
        /\ \A i \in 1..(Len(data) + Len(tail)) :
             (data \o tail)[i] = IF i <= Len(data) THEN data[i] ELSE tail[i - Len(data)]
    BY <1>7, <1>9, ConcatProperties
  <2> QED  BY <1>3, <1>7, <1>9, <2>1, Zenon
<1>11. \A i \in 1..(n + k) : i <= n \/ (fin /\ i = n + 1 /\ i - n = 1)  BY <1>2, <1>4
<1>12. /\ \A i \in 1..n : /\ data[i].seq = s.txSeq + i - 1
                          /\ data[i].syn = (s.synNeeded /\ i = 1)
                          /\ data[i].fin = FALSE
                          /\ data[i].payload = chunk(i)
       /\ last.seq = s.txSeq + n /\ last.fin = TRUE /\ last.payload = <<>>
  BY DEF Frame
<1>13. ASSUME NEW i \in 1..Len(d.frames)
       PROVE  /\ d.frames[i].seq = s.txSeq + i - 1
              /\ i <= n => d.frames[i].syn = (s.synNeeded /\ i = 1)
              /\ d.frames[i].fin = (fin /\ i = n + 1)
              /\ i <= n => d.frames[i].payload = chunk(i)
              /\ i = n + 1 => d.frames[i].payload = <<>>
  <2> HIDE DEF data, last, tail
  <2>0. i \in 1..(n + k)  BY <1>10
  <2>1. CASE i <= n
    <3>1. d.frames[i] = data[i] /\ i \in 1..n /\ i # n + 1  BY <1>2, <1>10, <2>0, <2>1
    <3> QED  BY <1>12, <3>1
  <2>2. CASE ~(i <= n)
    <3>1. fin /\ i = n + 1 /\ i - n = 1  BY <1>11, <2>0, <2>2
    <3>2. d.frames[i] = last  BY <1>9, <1>10, <2>0, <2>2, <3>1
    <3>3. s.txSeq + n = s.txSeq + i - 1  BY <1>1, <1>2, <3>1
    <3> QED  BY <1>12, <2>2, <3>1, <3>2, <3>3
  <2> QED  BY <2>1, <2>2
<1>14. rest \in Seq(Nat)
  <2>1. \A j \in (taken + 1)..l : s.txBuf[j] \in Nat  BY <1>1, <1>2
  <2> QED  BY <1>1, <1>2, <2>1, SubSeqProperties
<1>15. /\ d.sess.txBuf = rest /\ d.sess.txSeq = s.txSeq + n + k
       /\ d.sess.synNeeded = (s.synNeeded /\ n = 0)
       /\ d.sess.closeReq = s.closeReq
       /\ d.sess.finSent = (s.finSent \/ fin)
       /\ d.sess \in TxRecord
  <2> DEFINE q == s.txSeq + n + k
             y == s.synNeeded /\ n = 0
             z == s.finSent \/ fin
  <2>1. q \in Nat /\ y \in BOOLEAN /\ z \in BOOLEAN  BY <1>1, <1>2, <1>4
  <2>2. d.sess = [s EXCEPT !.txBuf = rest, !.txSeq = q, !.synNeeded = y, !.finSent = z]
    BY <1>3, <1>9 DEF l
  <2> HIDE DEF q, y, z, rest
  <2>3. /\ d.sess.txBuf = rest /\ d.sess.txSeq = q /\ d.sess.synNeeded = y
        /\ d.sess.finSent = z /\ d.sess.closeReq = s.closeReq /\ d.sess \in TxRecord
    BY <1>14, <2>1, <2>2 DEF TxRecord
  <2> QED  BY <2>3 DEF q, y, z
<1>16. s.txSeq + n + k = s.txSeq + Len(d.frames)
  <2>1. k \in Nat  OBVIOUS
  <2> HIDE DEF data, tail, last, k, rest
  <2>2. s.txSeq + n + k = s.txSeq + (n + k)  BY <1>1, <1>2, <2>1
  <2> QED  BY <1>10, <2>2
<1> HIDE DEF data, tail, last
<1> QED
  <2> HIDE DEF k, rest
  <2>1. Len(d.frames) = n + k  BY <1>10
  <2> QED  BY <1>3, <1>10, <1>13, <1>15, <1>16, <2>1 DEF d, n, taken, l, fin, chunk, k, rest

LEMMA DrainBatch ==
  ASSUME NEW s \in TxRecord, HasPendingTx(s), s.synNeeded <=> s.txSeq = 0
  PROVE  LET d == DrainTx(s, MaxPayload, MaxFrames)
         IN  /\ Batch(d.frames) /\ d.frames[1].seq = s.txSeq
             /\ d.sess \in TxRecord /\ d.snap = s
             /\ d.sess.txSeq = s.txSeq + Len(d.frames) /\ d.sess.txSeq # 0
             /\ ~d.sess.synNeeded
<1> DEFINE d == DrainTx(s, MaxPayload, MaxFrames)
           n == Least(MaxFrames, DataFrames(s, MaxPayload))
           taken == Least(n * MaxPayload, Len(s.txBuf))
           fin == FinPending(s) /\ n < MaxFrames
<1>1. /\ n \in 0..MaxFrames /\ n \in Nat
      /\ s.synNeeded \/ s.txBuf # <<>> => n >= 1
  BY DrainCounts, Constants
<1>2. /\ d.snap = s
      /\ d.frames \in Seq(Frames)
      /\ Len(d.frames) = n + (IF fin THEN 1 ELSE 0)
      /\ d.sess \in TxRecord
      /\ d.sess.txSeq = s.txSeq + Len(d.frames)
      /\ d.sess.synNeeded = (s.synNeeded /\ n = 0)
  BY DrainShape
<1>3. \A i \in 1..Len(d.frames) :
         /\ d.frames[i].seq = s.txSeq + i - 1
         /\ i <= n => d.frames[i].syn = (s.synNeeded /\ i = 1)
  BY DrainShape
<1>4. fin \/ n >= 1  BY <1>1, Constants DEF HasPendingTx
<1> HIDE DEF d, n, fin
<1>5. Len(d.frames) >= 1 /\ Len(d.frames) \in Nat /\ s.txSeq \in Nat
  BY <1>1, <1>2, <1>4 DEF TxRecord
<1>6. d.frames[1].seq = s.txSeq + 1 - 1 /\ s.txSeq + 1 - 1 = s.txSeq  BY <1>3, <1>5
<1>7. s.txSeq = 0 => d.frames[1].syn
  <2> SUFFICES ASSUME s.txSeq = 0 PROVE d.frames[1].syn  OBVIOUS
  <2>1. 1 \in 1..Len(d.frames) /\ 1 <= n  BY <1>1, <1>5
  <2> QED  BY <1>3, <2>1
<1>8. DOMAIN d.frames = 1..Len(d.frames)  BY <1>2, LenProperties
<1>9. Batch(d.frames)  BY <1>2, <1>3, <1>5, <1>6, <1>7, <1>8 DEF Batch
<1>10. d.sess.txSeq # 0  BY <1>2, <1>5
<1>11. ~d.sess.synNeeded
  <2>1. s.synNeeded => n # 0  BY <1>1
  <2> QED  BY <1>2, <2>1, Zenon
<1> QED  BY <1>2, <1>6, <1>9, <1>10, <1>11 DEF d

LEMMA LeastElement ==
  ASSUME NEW T \in SUBSET Nat, T # {}
  PROVE  \E m \in T : \A n \in T : m <= n
<1>1. PICK m \in T : \A n \in T : ~ (<<n, m>> \in OpToRel(<, Nat))
  BY NatLessThanWellFounded, WFMin, Zenon
<1>2. \A n \in T : ~ (n < m)  BY <1>1 DEF OpToRel
<1> QED  BY <1>2

---------------------------------------------------------------------------
(* deliverRx on a session with nothing parked.                             *)

LEMMA ToSendOne ==
  ASSUME NEW f
  PROVE  ToSend(<<f>>) = IF f.payload = <<>> THEN <<>> ELSE <<f.payload>>
<1> DEFINE Step(g) == [i \in 0..Len(<<f>>) |->
                         IF i = 0 THEN <<>>
                         ELSE IF <<f>>[i].payload = <<>> THEN g[i - 1]
                         ELSE Append(g[i - 1], <<f>>[i].payload)]
           h == CHOOSE g : g = Step(g)
           w == [i \in 0..1 |-> IF i = 0 \/ f.payload = <<>> THEN <<>> ELSE <<f.payload>>]
<1>1. w = Step(w)
  <2>1. Len(<<f>>) = 1 /\ <<f>>[1] = f /\ 0..1 = {0, 1}  OBVIOUS
  <2>2. w[0] = <<>>  OBVIOUS
  <2> QED  BY <2>1, <2>2
<1>2. h = Step(h)  BY <1>1
<1>3. ToSend(<<f>>) = h[Len(<<f>>)]  BY DEF ToSend
<1> HIDE DEF h, w
<1>4. h[0] = <<>>  BY <1>2
<1>5. h[1] = IF f.payload = <<>> THEN h[0] ELSE Append(h[0], f.payload)
  <2> DEFINE e == <<f>>
  <2>1. Len(e) = 1 /\ e[1] = f /\ 1 \in 0..1 /\ 1 # 0 /\ 1 - 1 = 0  OBVIOUS
  <2>2. h = [i \in 0..Len(e) |-> IF i = 0 THEN <<>>
                                 ELSE IF e[i].payload = <<>> THEN h[i - 1]
                                 ELSE Append(h[i - 1], e[i].payload)]
    BY <1>2
  <2> HIDE DEF e
  <2>3. h[1] = IF e[1].payload = <<>> THEN h[1 - 1] ELSE Append(h[1 - 1], e[1].payload)
    BY <2>1, <2>2
  <2> QED  BY <2>1, <2>3
<1> QED  BY <1>3, <1>4, <1>5

LEMMA FlattenOne ==
  ASSUME NEW p
  PROVE  FlattenSeq(<<p>>) = p /\ FlattenSeq(<<>>) = <<>>
BY DEF FlattenSeq

LEMMA RunOfOne ==
  ASSUME NEW q, NEW lo \in Nat, DOMAIN q = {lo}
  PROVE  RunEnd(q, lo) = lo
BY DEF RunEnd

LEMMA DeliverOld ==
  ASSUME NEW r, NEW f, r.rxClosed = FALSE, f.seq < r.rxSeq
  PROVE  LET d == DeliverRx(r, f)
         IN  d.rx = r /\ FlattenSeq(d.out) = <<>> /\ d.closing = FALSE
BY FlattenOne DEF DeliverRx

LEMMA DeliverNext ==
  ASSUME NEW r, NEW f \in Frames, r.rxClosed = FALSE, DOMAIN r.rxQueue = {},
         r.rxSeq \in Nat, f.seq = r.rxSeq
  PROVE  LET d == DeliverRx(r, f)
         IN  /\ d.rx = [rxSeq |-> r.rxSeq + 1, rxQueue |-> d.rx.rxQueue, rxClosed |-> f.fin]
             /\ DOMAIN d.rx.rxQueue = {}
             /\ FlattenSeq(d.out) = f.payload
             /\ d.closing = f.fin
<1> DEFINE q == WithFrame(r.rxQueue, f)
           hi == RunEnd(q, r.rxSeq)
           run == [i \in 1..(hi - r.rxSeq + 1) |-> q[r.rxSeq + i - 1]]
<1>1. DOMAIN q = {r.rxSeq} /\ q[r.rxSeq] = f  BY DEF WithFrame
<1>2. hi = r.rxSeq  BY <1>1, RunOfOne
<1> HIDE DEF q, hi
<1>3. run = <<f>>
  <2>1. hi - r.rxSeq + 1 = 1 /\ r.rxSeq + 1 - 1 = r.rxSeq  BY <1>2
  <2>2. run = [i \in 1..1 |-> f]  BY <1>1, <2>1
  <2> QED  BY <2>2
<1>4. DOMAIN [n \in DOMAIN q \ (r.rxSeq..hi) |-> q[n]] = {}  BY <1>1, <1>2
<1>5. FlattenSeq(ToSend(run)) = f.payload  BY <1>3, ToSendOne, FlattenOne
<1>6. ~(f.seq < r.rxSeq) /\ ~(f.seq > r.rxSeq)  OBVIOUS
<1>7. DeliverRx(r, f) =
        [rx |-> [rxSeq |-> hi + 1, rxQueue |-> [n \in DOMAIN q \ (r.rxSeq..hi) |-> q[n]],
                 rxClosed |-> q[hi].fin],
         out |-> ToSend(run), closing |-> q[hi].fin]
  BY <1>6 DEF DeliverRx, q, hi
<1> HIDE DEF run
<1>8. q[hi] = f  BY <1>1, <1>2
<1> DEFINE rest == [n \in DOMAIN q \ (r.rxSeq..hi) |-> q[n]]
<1>9. /\ DeliverRx(r, f).rx = [rxSeq |-> hi + 1, rxQueue |-> rest, rxClosed |-> q[hi].fin]
      /\ DeliverRx(r, f).out = ToSend(run) /\ DeliverRx(r, f).closing = q[hi].fin
  BY <1>7
<1>10. DOMAIN rest = {}  BY <1>4
<1> HIDE DEF rest
<1>11. DeliverRx(r, f).rx.rxQueue = rest  BY <1>9
<1> QED  BY <1>2, <1>5, <1>8, <1>9, <1>10, <1>11

---------------------------------------------------------------------------
(* Spans of the application's stream.                                      *)

(* The bytes after the a-th up to the b-th of the application's stream. *)
Span(a, b) == [i \in 1..(b - a) |-> a + i]

LEMMA SpanFacts ==
  ASSUME NEW a \in Nat, NEW b \in Nat, a <= b
  PROVE  /\ Span(a, b) \in Seq(Nat) /\ Len(Span(a, b)) = b - a
         /\ \A i \in 1..(b - a) : Span(a, b)[i] = a + i
<1>1. Span(a, b) \in [1..(b - a) -> Nat]  BY DEF Span
<1>2. \A i \in 1..(b - a) : Span(a, b)[i] = a + i  BY DEF Span
<1>3. b - a \in Nat  OBVIOUS
<1> QED  BY <1>1, <1>2, <1>3, FunctionIsSequence

LEMMA SpanEmpty == ASSUME NEW a \in Nat PROVE Span(a, a) = <<>>
<1>1. Span(a, a) \in Seq(Nat) /\ Len(Span(a, a)) = 0  BY SpanFacts
<1> QED  BY <1>1, EmptySeq

LEMMA SpanConcat ==
  ASSUME NEW a \in Nat, NEW b \in Nat, NEW c \in Nat, a <= b, b <= c
  PROVE  Span(a, b) \o Span(b, c) = Span(a, c)
<1> DEFINE s == Span(a, b)
           t == Span(b, c)
           u == Span(a, c)
<1>1. /\ s \in Seq(Nat) /\ Len(s) = b - a /\ \A i \in 1..(b - a) : s[i] = a + i
      /\ t \in Seq(Nat) /\ Len(t) = c - b /\ \A i \in 1..(c - b) : t[i] = b + i
      /\ u \in Seq(Nat) /\ Len(u) = c - a /\ \A i \in 1..(c - a) : u[i] = a + i
  <2>1. a <= c  OBVIOUS
  <2>2. s \in Seq(Nat) /\ Len(s) = b - a /\ \A i \in 1..(b - a) : s[i] = a + i  BY SpanFacts
  <2>3. t \in Seq(Nat) /\ Len(t) = c - b /\ \A i \in 1..(c - b) : t[i] = b + i  BY SpanFacts
  <2>4. u \in Seq(Nat) /\ Len(u) = c - a /\ \A i \in 1..(c - a) : u[i] = a + i
    BY <2>1, SpanFacts
  <2> QED  BY <2>2, <2>3, <2>4
<1> HIDE DEF s, t, u
<1>2. /\ s \o t \in Seq(Nat) /\ Len(s \o t) = (b - a) + (c - b)
      /\ \A i \in 1..((b - a) + (c - b)) : (s \o t)[i] = IF i <= b - a THEN s[i] ELSE t[i - (b - a)]
  <2>1. /\ s \o t \in Seq(Nat) /\ Len(s \o t) = Len(s) + Len(t)
        /\ \A i \in 1..(Len(s) + Len(t)) : (s \o t)[i] = IF i <= Len(s) THEN s[i] ELSE t[i - Len(s)]
    BY <1>1, ConcatProperties
  <2> QED  BY <1>1, <2>1, Zenon
<1>3. (b - a) + (c - b) = c - a  OBVIOUS
<1>4. \A i \in 1..(c - a) : (s \o t)[i] = u[i]
  <2> SUFFICES ASSUME NEW i \in 1..(c - a) PROVE (s \o t)[i] = u[i]  OBVIOUS
  <2>1. CASE i <= b - a
    <3>1. i \in 1..(b - a)  BY <2>1
    <3> QED  BY <1>1, <1>2, <1>3, <2>1, <3>1
  <2>2. CASE ~(i <= b - a)
    <3>1. i - (b - a) \in 1..(c - b) /\ b + (i - (b - a)) = a + i  BY <2>2
    <3> QED  BY <1>1, <1>2, <1>3, <2>2, <3>1
  <2> QED  BY <2>1, <2>2
<1>5. s \o t = u  BY <1>1, <1>2, <1>3, <1>4, SeqEqual
<1> QED  BY <1>5 DEF s, t, u

LEMMA SpanSub ==
  ASSUME NEW a \in Nat, NEW l \in Nat, NEW x \in Nat, NEW y \in Nat, y <= l, Least(x, l) <= y
  PROVE  SubSeq(Span(a, a + l), x + 1, y) = Span(a + Least(x, l), a + y)
<1> DEFINE s == Span(a, a + l)
           g == SubSeq(s, x + 1, y)
<1>1. s \in Seq(Nat) /\ Len(s) = l /\ \A i \in 1..l : s[i] = a + i
  <2>1. a + l \in Nat /\ a <= a + l /\ (a + l) - a = l  OBVIOUS
  <2> QED  BY <2>1, SpanFacts
<1> HIDE DEF s
<1>2. CASE x >= y
  <2>1. g = <<>>
    <3>1. y < x + 1 /\ x + 1 \in Int /\ y \in Int  BY <1>2
    <3> QED  BY <3>1, SubSeqEmpty
  <2>2. a + Least(x, l) = a + y /\ a + y \in Nat  BY <1>2 DEF Least
  <2> QED  BY <2>1, <2>2, SpanEmpty DEF s
<1>3. CASE x < y
  <2>1. Least(x, l) = x  BY <1>3 DEF Least
  <2> DEFINE u == Span(a + x, a + y)
  <2>2. a + x \in Nat /\ a + y \in Nat /\ a + x <= a + y /\ (a + y) - (a + x) = y - x  BY <1>3
  <2>3. u \in Seq(Nat) /\ Len(u) = y - x /\ \A i \in 1..(y - x) : u[i] = a + x + i
    BY <2>2, SpanFacts
  <2> HIDE DEF u
  <2>4. \A i \in (x + 1)..y : s[i] \in Nat  BY <1>1
  <2>5. x + 1 <= y /\ y - (x + 1) + 1 = y - x /\ x + 1 \in Int /\ y \in Int  BY <1>3
  <2>6. g \in Seq(Nat) /\ Len(g) = y - x /\ \A i \in 1..(y - x) : g[i] = s[x + 1 + i - 1]
    BY <2>4, <2>5, SubSeqProperties
  <2> HIDE DEF g
  <2>7. \A i \in 1..(y - x) : g[i] = u[i]
    <3> SUFFICES ASSUME NEW i \in 1..(y - x) PROVE g[i] = u[i]  OBVIOUS
    <3>1. x + 1 + i - 1 \in 1..l /\ a + (x + 1 + i - 1) = a + x + i  BY <1>3
    <3> QED  BY <1>1, <2>3, <2>6, <3>1
  <2>8. g = u  BY <2>3, <2>6, <2>7, SeqEqual
  <2> QED  BY <2>1, <2>8 DEF g, s, u
<1> QED  BY <1>2, <1>3

LEMMA SpanPrefix ==
  ASSUME NEW c \in Nat, NEW l \in Nat, c <= l
  PROVE  SubSeq(Span(0, l), 1, c) = Span(0, c)
<1>1. Least(0, l) = 0 /\ 0 + l = l /\ 0 + 1 = 1 /\ 0 + 0 = 0 /\ 0 + c = c /\ 0 <= c /\ 0 \in Nat
  BY DEF Least
<1>2. Least(0, l) <= c  BY <1>1
<1>3. SubSeq(Span(0, 0 + l), 0 + 1, c) = Span(0 + Least(0, l), 0 + c)
  BY <1>1, <1>2, SpanSub
<1> QED  BY <1>1, <1>3

---------------------------------------------------------------------------
(* deliverRx, with frames parked out of order.  The recursive functions of *)
(* ToSend and FlattenSeq exist: no least length lacks one.                 *)

LEMMA ToSendSteps ==
  ASSUME NEW run \in Seq(Frames)
  PROVE  \E h : /\ h[0] = <<>>
                /\ \A i \in 1..Len(run) :
                     h[i] = IF run[i].payload = <<>> THEN h[i - 1]
                            ELSE Append(h[i - 1], run[i].payload)
                /\ ToSend(run) = h[Len(run)]
<1> DEFINE L == Len(run)
           Rule(g, i) == IF i = 0 THEN <<>>
                         ELSE IF run[i].payload = <<>> THEN g[i - 1]
                         ELSE Append(g[i - 1], run[i].payload)
           Step(g, n) == [i \in 0..n |-> Rule(g, i)]
           T == {n \in Nat : ~ \E g : g = Step(g, n)}
           h == CHOOSE g : g = Step(g, L)
<1>1. L \in Nat  BY LenProperties
<1>2. T = {}
  <2> SUFFICES ASSUME T # {} PROVE FALSE  OBVIOUS
  <2>1. PICK n \in T : \A m \in T : n <= m
    <3>1. T \in SUBSET Nat  OBVIOUS
    <3> HIDE DEF T
    <3> QED  BY <3>1, LeastElement
  <2>2. n \in Nat /\ ~ \E g : g = Step(g, n)  OBVIOUS
  <2>3. CASE n = 0
    <3> DEFINE g == [i \in 0..0 |-> <<>>]
    <3>1. g = Step(g, 0)  OBVIOUS
    <3> QED  BY <2>2, <2>3, <3>1
  <2>4. CASE n # 0
    <3>1. n - 1 \in Nat /\ ~(n <= n - 1)  BY <2>2, <2>4
    <3>2. n - 1 \notin T  BY <2>1, <3>1
    <3>3. PICK g : g = Step(g, n - 1)  BY <3>1, <3>2
    <3> DEFINE w == [i \in 0..n |-> IF i = n THEN Rule(g, n) ELSE g[i]]
    <3>4. ASSUME NEW i \in 0..n PROVE w[i] = Rule(w, i)
      <4>1. CASE i = 0
        <5>1. g[0] = <<>>  BY <3>1, <3>3
        <5> QED  BY <2>4, <4>1, <5>1
      <4>2. CASE i # 0
        <5>1. i - 1 \in 0..n /\ i - 1 # n /\ i - 1 \in 0..(n - 1)  BY <2>2, <4>2
        <5>2. w[i - 1] = g[i - 1]  BY <5>1
        <5>3. CASE i = n  BY <4>2, <5>2, <5>3
        <5>4. CASE i # n
          <6>1. i \in 0..(n - 1)  BY <2>2, <5>4
          <6>2. w[i] = g[i]  BY <5>4
          <6>3. g[i] = Rule(g, i)  BY <3>3, <6>1
          <6> QED  BY <4>2, <5>2, <6>2, <6>3
        <5> QED  BY <5>3, <5>4
      <4> QED  BY <4>1, <4>2
    <3>5. w = [i \in 0..n |-> w[i]]  OBVIOUS
    <3> HIDE DEF w
    <3>6. w = Step(w, n)
      <4> HIDE DEF Rule
      <4> QED  BY <3>4, <3>5
    <3> QED  BY <2>2, <3>6
  <2> QED  BY <2>3, <2>4
<1>3. \E g : g = Step(g, L)  BY <1>1, <1>2
<1>4. h = Step(h, L)  BY <1>3
<1>5. ToSend(run) = h[L]  BY DEF ToSend
<1> HIDE DEF h
<1>6. \A i \in 0..L : h[i] = Rule(h, i)
  <2> HIDE DEF Rule
  <2> QED  BY <1>4
<1>7. h[0] = <<>>  BY <1>1, <1>6
<1>8. \A i \in 1..L : h[i] = IF run[i].payload = <<>> THEN h[i - 1]
                             ELSE Append(h[i - 1], run[i].payload)
  <2> SUFFICES ASSUME NEW i \in 1..L
               PROVE  h[i] = IF run[i].payload = <<>> THEN h[i - 1]
                             ELSE Append(h[i - 1], run[i].payload)
    OBVIOUS
  <2>1. i \in 0..L /\ i # 0  BY <1>1
  <2> QED  BY <1>6, <2>1
<1> QED  BY <1>5, <1>7, <1>8

LEMMA FlattenSteps ==
  ASSUME NEW s \in Seq(Seq(Nat)), Len(s) # 0
  PROVE  \E g : /\ g[1] = s[1]
                /\ \A i \in 2..Len(s) : g[i] = g[i - 1] \o s[i]
                /\ FlattenSeq(s) = g[Len(s)]
<1> DEFINE L == Len(s)
           Rule(g, i) == IF i = 1 THEN s[i] ELSE g[i - 1] \o s[i]
           Step(g, n) == [i \in 1..n |-> Rule(g, i)]
           T == {n \in Nat : ~ \E g : g = Step(g, n)}
           h == CHOOSE g : g = Step(g, L)
<1>1. L \in Nat /\ L # 0  BY LenProperties
<1>2. T = {}
  <2> SUFFICES ASSUME T # {} PROVE FALSE  OBVIOUS
  <2>1. PICK n \in T : \A m \in T : n <= m
    <3>1. T \in SUBSET Nat  OBVIOUS
    <3> HIDE DEF T
    <3> QED  BY <3>1, LeastElement
  <2>2. n \in Nat /\ ~ \E g : g = Step(g, n)  OBVIOUS
  <2>3. CASE n = 0
    <3> DEFINE g == <<>>
    <3>1. 1..0 = {}  OBVIOUS
    <3>2. g = Step(g, 0)  BY <3>1
    <3> QED  BY <2>2, <2>3, <3>2
  <2>4. CASE n # 0
    <3>1. n - 1 \in Nat /\ ~(n <= n - 1)  BY <2>2, <2>4
    <3>2. n - 1 \notin T  BY <2>1, <3>1
    <3>3. PICK g : g = Step(g, n - 1)  BY <3>1, <3>2
    <3> DEFINE w == [i \in 1..n |-> IF i = n THEN Rule(g, n) ELSE g[i]]
    <3>4. ASSUME NEW i \in 1..n PROVE w[i] = Rule(w, i)
      <4>1. CASE i = 1 /\ i = n  BY <4>1
      <4>2. CASE i = 1 /\ i # n
        <5>1. 1 \in 1..(n - 1)  BY <2>2, <4>2
        <5>2. g[1] = s[1]  BY <3>3, <5>1
        <5> QED  BY <4>2, <5>2
      <4>3. CASE i # 1
        <5>1. i - 1 \in 1..n /\ i - 1 # n /\ i - 1 \in 1..(n - 1)  BY <2>2, <4>3
        <5>2. w[i - 1] = g[i - 1]  BY <5>1
        <5>3. CASE i = n  BY <4>3, <5>2, <5>3
        <5>4. CASE i # n
          <6>1. i \in 1..(n - 1)  BY <2>2, <5>4
          <6>2. w[i] = g[i]  BY <5>4
          <6>3. g[i] = Rule(g, i)  BY <3>3, <6>1
          <6> QED  BY <4>3, <5>2, <6>2, <6>3
        <5> QED  BY <5>3, <5>4
      <4> QED  BY <4>1, <4>2, <4>3
    <3>5. w = [i \in 1..n |-> w[i]]  OBVIOUS
    <3> HIDE DEF w
    <3>6. w = Step(w, n)
      <4> HIDE DEF Rule
      <4> QED  BY <3>4, <3>5
    <3> QED  BY <2>2, <3>6
  <2> QED  BY <2>3, <2>4
<1>3. \E g : g = Step(g, L)  BY <1>1, <1>2
<1>4. h = Step(h, L)  BY <1>3
<1>5. FlattenSeq(s) = h[L]  BY <1>1 DEF FlattenSeq
<1> HIDE DEF h
<1>6. \A i \in 1..L : h[i] = Rule(h, i)
  <2> HIDE DEF Rule
  <2> QED  BY <1>4
<1>7. h[1] = s[1]
  <2>1. 1 \in 1..L  BY <1>1
  <2> QED  BY <1>6, <2>1
<1>8. \A i \in 2..L : h[i] = h[i - 1] \o s[i]
  <2> SUFFICES ASSUME NEW i \in 2..L PROVE h[i] = h[i - 1] \o s[i]  OBVIOUS
  <2>1. i \in 1..L /\ i # 1  BY <1>1
  <2> QED  BY <1>6, <2>1
<1> QED  BY <1>5, <1>7, <1>8

LEMMA FlattenAppend ==
  ASSUME NEW s \in Seq(Seq(Nat)), NEW p \in Seq(Nat)
  PROVE  /\ FlattenSeq(s) \in Seq(Nat)
         /\ FlattenSeq(Append(s, p)) = FlattenSeq(s) \o p
<1> DEFINE S == Seq(Nat)
           t == Append(s, p)
           L == Len(s)
<1>1. /\ L \in Nat /\ t \in Seq(S) /\ Len(t) = L + 1 /\ t[L + 1] = p
      /\ \A i \in 1..L : t[i] = s[i] /\ s[i] \in S
  <2> HIDE DEF S
  <2>1. s \in Seq(S) /\ p \in S  BY DEF S
  <2> QED  BY <2>1, AppendProperties, LenProperties, ElementOfSeq
<1> HIDE DEF t, L
<1>2. CASE L = 0
  <2>1. s = <<>>  BY <1>2, EmptySeq DEF L
  <2>2. FlattenSeq(s) = <<>>  BY <2>1, FlattenOne
  <2>3. t = <<p>>  BY <2>1 DEF t
  <2>4. FlattenSeq(t) = p  BY <2>3, FlattenOne
  <2>5. <<>> \o p = p  BY ConcatEmptySeq
  <2>6. <<>> \in Seq(Nat)  BY EmptySeq
  <2> QED  BY <2>2, <2>4, <2>5, <2>6 DEF t
<1>3. CASE L # 0
  <2>1. PICK g : g[1] = s[1] /\ (\A i \in 2..L : g[i] = g[i - 1] \o s[i]) /\ FlattenSeq(s) = g[L]
    BY <1>3, FlattenSteps DEF L
  <2>2. PICK h : h[1] = t[1] /\ (\A i \in 2..(L + 1) : h[i] = h[i - 1] \o t[i])
                 /\ FlattenSeq(t) = h[L + 1]
    <3>1. Len(t) # 0  BY <1>1
    <3>2. \E h : h[1] = t[1] /\ (\A i \in 2..Len(t) : h[i] = h[i - 1] \o t[i])
                 /\ FlattenSeq(t) = h[Len(t)]
      BY <1>1, <3>1, FlattenSteps DEF S
    <3> QED  BY <1>1, <3>2
  <2> DEFINE T == {i \in 1..L : ~(g[i] = h[i] /\ g[i] \in S)}
  <2>3. T = {}
    <3> SUFFICES ASSUME T # {} PROVE FALSE  OBVIOUS
    <3>1. T \in SUBSET Nat  BY <1>1
    <3>2. PICK m \in T : \A i \in T : m <= i
      <4> HIDE DEF T
      <4> QED  BY <3>1, LeastElement
    <3>3. m \in 1..L /\ ~(g[m] = h[m] /\ g[m] \in S)  OBVIOUS
    <3>4. m # 1  BY <1>1, <2>1, <2>2, <3>3
    <3>5. m - 1 \in 1..L /\ ~(m <= m - 1) /\ m \in 2..L /\ m \in 2..(L + 1)
      BY <1>1, <3>3, <3>4
    <3>6. g[m - 1] = h[m - 1] /\ g[m - 1] \in S  BY <3>2, <3>5
    <3>7. g[m] = g[m - 1] \o s[m] /\ h[m] = h[m - 1] \o t[m] /\ t[m] = s[m] /\ s[m] \in S
      BY <1>1, <2>1, <2>2, <3>3, <3>5
    <3>8. g[m - 1] \o s[m] \in S  BY <3>6, <3>7, ConcatProperties DEF S
    <3> QED  BY <3>3, <3>6, <3>7, <3>8
  <2>4. g[L] = h[L] /\ g[L] \in S
    <3>1. L \in 1..L  BY <1>1, <1>3
    <3> QED  BY <2>3, <3>1
  <2>5. h[L + 1] = h[L] \o p
    <3>1. PICK j \in 2..(L + 1) : j = L + 1 /\ j - 1 = L  BY <1>1, <1>3
    <3>2. h[j] = h[j - 1] \o t[j]  BY <2>2
    <3> QED  BY <1>1, <3>1, <3>2, Zenon
  <2> QED  BY <2>1, <2>2, <2>4, <2>5 DEF S, t
<1> QED  BY <1>2, <1>3

(* What a run sends is the concatenation of its payloads: the bytes        *)
(* between its ends when each frame carries its own.                       *)
LEMMA RunBytes ==
  ASSUME NEW run \in Seq(Frames)
  PROVE  /\ FlattenSeq(ToSend(run)) \in Seq(Nat)
         /\ \A o \in [Nat -> Nat], lo \in Nat :
              /\ \A m, k \in Nat : m <= k => o[m] <= o[k]
              /\ \A i \in 1..Len(run) : run[i].payload = Span(o[lo + i - 1], o[lo + i])
              => FlattenSeq(ToSend(run)) = Span(o[lo], o[lo + Len(run)])
<1> DEFINE L == Len(run)
           S == Seq(Nat)
<1>1. L \in Nat /\ \A i \in 1..L : run[i].payload \in S
  <2>1. L \in Nat  BY LenProperties
  <2>2. \A i \in 1..L : run[i] \in Frames  BY ElementOfSeq
  <2> QED  BY <2>1, <2>2 DEF Frames
<1>2. PICK h : /\ h[0] = <<>>
               /\ \A i \in 1..L : h[i] = IF run[i].payload = <<>> THEN h[i - 1]
                                         ELSE Append(h[i - 1], run[i].payload)
               /\ ToSend(run) = h[L]
  BY ToSendSteps
<1> HIDE DEF L
<1>3. \A i \in 0..L : h[i] \in Seq(S)
  <2> DEFINE T == {i \in 0..L : h[i] \notin Seq(S)}
  <2> SUFFICES ASSUME T # {} PROVE FALSE  OBVIOUS
  <2>1. T \in SUBSET Nat  BY <1>1
  <2>2. PICK m \in T : \A i \in T : m <= i
    <3> HIDE DEF T
    <3> QED  BY <2>1, LeastElement
  <2>3. m \in 0..L /\ h[m] \notin Seq(S)  OBVIOUS
  <2> HIDE DEF S
  <2>4. m # 0
    <3>1. <<>> \in Seq(S)  BY EmptySeq
    <3> QED  BY <1>2, <2>3, <3>1
  <2>5. m \in 1..L /\ m - 1 \in 0..L /\ ~(m <= m - 1)  BY <1>1, <2>3, <2>4
  <2>6. h[m - 1] \in Seq(S)  BY <2>2, <2>5
  <2>7. Append(h[m - 1], run[m].payload) \in Seq(S)  BY <1>1, <2>5, <2>6, AppendProperties
  <2> QED  BY <1>2, <2>3, <2>5, <2>6, <2>7
<1>4. h[L] \in Seq(S)  BY <1>1, <1>3
<1>5. FlattenSeq(ToSend(run)) \in Seq(Nat)
  <2>1. <<>> \in Seq(Nat)  BY EmptySeq
  <2> QED  BY <1>2, <1>4, <2>1, FlattenAppend DEF S
<1>6. ASSUME NEW o \in [Nat -> Nat], NEW lo \in Nat,
             \A m, k \in Nat : m <= k => o[m] <= o[k],
             \A i \in 1..L : run[i].payload = Span(o[lo + i - 1], o[lo + i])
      PROVE  FlattenSeq(ToSend(run)) = Span(o[lo], o[lo + L])
  <2> DEFINE T == {i \in 0..L : FlattenSeq(h[i]) # Span(o[lo], o[lo + i])}
  <2>1. T = {}
    <3> SUFFICES ASSUME T # {} PROVE FALSE  OBVIOUS
    <3>1. T \in SUBSET Nat  BY <1>1
    <3>2. PICK m \in T : \A i \in T : m <= i
      <4> HIDE DEF T
      <4> QED  BY <3>1, LeastElement
    <3>3. m \in 0..L /\ FlattenSeq(h[m]) # Span(o[lo], o[lo + m])  OBVIOUS
    <3>4. m # 0
      <4> SUFFICES ASSUME m = 0 PROVE FALSE  OBVIOUS
      <4>1. lo + m = lo /\ o[lo] \in Nat  BY <1>6
      <4>2. Span(o[lo], o[lo]) = <<>>  BY <4>1, SpanEmpty
      <4> QED  BY <1>2, <3>3, <4>1, <4>2, FlattenOne
    <3>5. m \in 1..L /\ m - 1 \in 0..L /\ ~(m <= m - 1)  BY <1>1, <3>3, <3>4
    <3>6. FlattenSeq(h[m - 1]) = Span(o[lo], o[lo + (m - 1)])  BY <3>2, <3>5
    <3> DEFINE a == o[lo]
               b == o[lo + m - 1]
               c == o[lo + m]
    <3>7. lo + (m - 1) = lo + m - 1 /\ lo + m - 1 \in Nat /\ lo + m \in Nat
          /\ lo <= lo + m - 1 /\ lo + m - 1 <= lo + m
      BY <3>5
    <3>8. a \in Nat /\ b \in Nat /\ c \in Nat /\ a <= b /\ b <= c  BY <1>6, <3>7
    <3>9. run[m].payload = Span(b, c) /\ FlattenSeq(h[m - 1]) = Span(a, b)
      BY <1>6, <3>5, <3>6, <3>7
    <3>10. Span(a, b) \o Span(b, c) = Span(a, c)  BY <3>8, SpanConcat
    <3> HIDE DEF a, b, c
    <3>11. CASE run[m].payload = <<>>
      <4>1. h[m] = h[m - 1]  BY <1>2, <3>5, <3>11
      <4>2. Span(a, b) \o <<>> = Span(a, b)
        <5>1. Span(a, b) \in Seq(Nat)  BY <3>8, SpanFacts
        <5> QED  BY <5>1, ConcatEmptySeq
      <4>3. FlattenSeq(h[m]) = Span(a, c)  BY <3>9, <3>10, <3>11, <4>1, <4>2
      <4> QED  BY <3>3, <4>3 DEF a, c
    <3>12. CASE run[m].payload # <<>>
      <4>1. h[m] = Append(h[m - 1], run[m].payload)  BY <1>2, <3>5, <3>12
      <4>2. h[m - 1] \in Seq(Seq(Nat)) /\ run[m].payload \in Seq(Nat)  BY <1>1, <1>3, <3>5 DEF S
      <4>3. FlattenSeq(h[m]) = FlattenSeq(h[m - 1]) \o run[m].payload
        BY <4>1, <4>2, FlattenAppend
      <4>4. FlattenSeq(h[m]) = Span(a, c)  BY <3>9, <3>10, <4>3
      <4> QED  BY <3>3, <4>4 DEF a, c
    <3> QED  BY <3>11, <3>12
  <2>2. L \in 0..L  BY <1>1
  <2>3. FlattenSeq(h[L]) = Span(o[lo], o[lo + L])  BY <2>1, <2>2
  <2> QED  BY <1>2, <2>3
<1> QED  BY <1>5, <1>6 DEF L

(* The run that deliverRx takes is there: parked frames are bounded. *)
LEMMA RunEndFacts ==
  ASSUME NEW q, NEW lo \in Nat, NEW n \in Nat, lo \in DOMAIN q,
         \A m \in DOMAIN q : m \in Nat /\ m < n
  PROVE  LET hi == RunEnd(q, lo)
         IN  /\ hi \in DOMAIN q /\ hi >= lo
             /\ \A m \in lo..hi : m \in DOMAIN q
<1> DEFINE T == {m \in Nat : m >= lo /\ (m + 1 \notin DOMAIN q \/ q[m].fin)}
<1>1. n \in T
  <2>1. n + 1 \notin DOMAIN q
    <3>1. ~(n + 1 < n)  OBVIOUS
    <3> QED  BY <3>1
  <2>2. n >= lo  OBVIOUS
  <2> QED  BY <2>1, <2>2
<1>2. PICK hi \in T : \A m \in T : hi <= m  BY <1>1, LeastElement
<1>3. hi \in Nat /\ hi >= lo /\ (hi + 1 \notin DOMAIN q \/ q[hi].fin)  OBVIOUS
<1>4. ASSUME NEW m \in lo..hi PROVE m \in DOMAIN q
  <2>1. CASE m = lo  BY <2>1
  <2>2. CASE m # lo
    <3>1. m - 1 \in Nat /\ m - 1 >= lo /\ ~(hi <= m - 1) /\ m - 1 + 1 = m  BY <1>3, <2>2
    <3>2. m - 1 \notin T  BY <1>2, <3>1
    <3> QED  BY <3>1, <3>2
  <2> QED  BY <2>1, <2>2
<1>5. ASSUME NEW m \in lo..(hi - 1) PROVE ~q[m].fin
  <2>1. m \in Nat /\ m >= lo /\ ~(hi <= m)  BY <1>3
  <2>2. m \notin T  BY <1>2, <2>1
  <2> QED  BY <2>1, <2>2
<1>6. hi \in DOMAIN q  BY <1>3, <1>4
<1> QED  BY <1>3, <1>4, <1>5, <1>6 DEF RunEnd

(* A frame of deliverRx's call: the one in hand or a parked one. *)
InHand(g, r, f) == g = f \/ \E m \in DOMAIN r.rxQueue : g = r.rxQueue[m]

LEMMA WithFrameFacts ==
  ASSUME NEW r \in RxRecord, NEW f \in Frames, Keyed(r.rxQueue), NEW n \in Nat,
         f.seq < n, \A m \in DOMAIN r.rxQueue : m < n
  PROVE  LET q == WithFrame(r.rxQueue, f)
         IN  /\ DOMAIN q = DOMAIN r.rxQueue \cup {f.seq}
             /\ \A m \in DOMAIN q : /\ m \in Nat /\ m < n /\ q[m] \in Frames
                                    /\ q[m].seq = m /\ InHand(q[m], r, f)
             /\ \A S \in SUBSET DOMAIN q : [m \in S |-> q[m]] \in Queues
<1> DEFINE p == r.rxQueue
           q == WithFrame(p, f)
<1>1. PICK D \in SUBSET Nat : p \in [D -> Frames]  BY DEF RxRecord, Queues
<1>2. f.seq \in Nat  BY DEF Frames
<1>3. q = [m \in DOMAIN p \cup {f.seq} |-> IF m = f.seq THEN f ELSE p[m]]  BY DEF WithFrame
<1>4. DOMAIN q = DOMAIN p \cup {f.seq} /\ DOMAIN p = D  BY <1>1, <1>3
<1>5. \A m \in DOMAIN q : q[m] = IF m = f.seq THEN f ELSE p[m]  BY <1>3, <1>4
<1>6. \A m \in DOMAIN p : m \in Nat /\ m < n /\ p[m] \in Frames /\ p[m].seq = m
  BY <1>1, <1>4 DEF Keyed
<1> HIDE DEF q
<1>7. ASSUME NEW m \in DOMAIN q
      PROVE  /\ m \in Nat /\ m < n /\ q[m] \in Frames
             /\ q[m].seq = m /\ InHand(q[m], r, f)
  <2>1. CASE m = f.seq  BY <1>2, <1>5, <2>1 DEF InHand
  <2>2. CASE m # f.seq
    <3>1. m \in DOMAIN p /\ q[m] = p[m]  BY <1>4, <1>5, <2>2
    <3> QED  BY <1>6, <3>1 DEF InHand
  <2> QED  BY <2>1, <2>2
<1>8. ASSUME NEW S \in SUBSET DOMAIN q PROVE [m \in S |-> q[m]] \in Queues
  <2>1. S \in SUBSET Nat /\ [m \in S |-> q[m]] \in [S -> Frames]  BY <1>7
  <2> QED  BY <2>1 DEF Queues
<1> QED  BY <1>4, <1>7, <1>8 DEF q

(* One call of deliverRx: it hands over nothing, or the run of frames that *)
(* starts at rxSeq.                                                        *)
LEMMA DeliverShape ==
  ASSUME NEW r \in RxRecord, r.rxClosed = FALSE, Keyed(r.rxQueue), NEW f \in Frames,
         NEW n \in Nat, f.seq < n, \A m \in DOMAIN r.rxQueue : m < n
  PROVE  LET d == DeliverRx(r, f)
         IN  /\ d.rx \in RxRecord /\ Keyed(d.rx.rxQueue)
             /\ \A m \in DOMAIN d.rx.rxQueue : InHand(d.rx.rxQueue[m], r, f)
             /\ \/ d.rx.rxSeq = r.rxSeq /\ d.rx.rxClosed = FALSE /\ d.out = <<>> /\ d.closing = FALSE
                \/ \E run \in Seq(Frames) :
                     /\ Len(run) >= 1
                     /\ \A i \in 1..Len(run) : InHand(run[i], r, f) /\ run[i].seq = r.rxSeq + i - 1
                     /\ d.rx.rxSeq = r.rxSeq + Len(run)
                     /\ d.rx.rxClosed = run[Len(run)].fin /\ d.closing = run[Len(run)].fin
                     /\ d.out = ToSend(run)
<1> DEFINE q == WithFrame(r.rxQueue, f)
           lo == r.rxSeq
           hi == RunEnd(q, lo)
           run == [i \in 1..(hi - lo + 1) |-> q[lo + i - 1]]
           rest == [m \in DOMAIN q \ (lo..hi) |-> q[m]]
           d == DeliverRx(r, f)
<1>1. /\ DOMAIN q = DOMAIN r.rxQueue \cup {f.seq}
      /\ \A m \in DOMAIN q : /\ m \in Nat /\ m < n /\ q[m] \in Frames
                             /\ q[m].seq = m /\ InHand(q[m], r, f)
      /\ \A S \in SUBSET DOMAIN q : [m \in S |-> q[m]] \in Queues
  BY WithFrameFacts
<1>2. lo \in Nat /\ f.seq \in Nat  BY DEF RxRecord, Frames
<1>3. CASE f.seq < lo
  <2>1. d = [rx |-> r, out |-> <<>>, closing |-> FALSE]  BY <1>3 DEF DeliverRx
  <2> HIDE DEF d
  <2>2. d.rx = r /\ d.out = <<>> /\ d.closing = FALSE  BY <2>1
  <2>3. \A m \in DOMAIN d.rx.rxQueue : InHand(d.rx.rxQueue[m], r, f)  BY <2>2 DEF InHand
  <2> QED  BY <2>2, <2>3 DEF d
<1>4. CASE f.seq > lo
  <2>1. ~(f.seq < lo)  BY <1>2, <1>4
  <2>2. d = [rx |-> [r EXCEPT !.rxQueue = q], out |-> <<>>, closing |-> FALSE]
    BY <1>4, <2>1 DEF DeliverRx
  <2>3. q \in Queues
    <3>1. q = [m \in DOMAIN q |-> q[m]]  BY DEF WithFrame
    <3> HIDE DEF q
    <3> QED  BY <1>1, <3>1
  <2> HIDE DEF q, d
  <2>4. /\ d.rx = [r EXCEPT !.rxQueue = q] /\ d.out = <<>> /\ d.closing = FALSE  BY <2>2
  <2>5. /\ d.rx \in RxRecord /\ d.rx.rxQueue = q /\ d.rx.rxSeq = r.rxSeq /\ d.rx.rxClosed = FALSE
    BY <2>3, <2>4 DEF RxRecord
  <2>6. Keyed(q)  BY <1>1 DEF Keyed
  <2> QED  BY <1>1, <2>4, <2>5, <2>6 DEF d
<1>5. CASE f.seq = lo
  <2>1. ~(f.seq < lo) /\ ~(f.seq > lo)  BY <1>2, <1>5
  <2>2. lo \in DOMAIN q  BY <1>1, <1>5
  <2>3. d = [rx |-> [rxSeq |-> hi + 1, rxQueue |-> rest, rxClosed |-> q[hi].fin],
             out |-> ToSend(run), closing |-> q[hi].fin]
    BY <2>1 DEF DeliverRx
  <2> HIDE DEF q, d
  <2>4. /\ hi \in DOMAIN q /\ hi >= lo
        /\ \A m \in lo..hi : m \in DOMAIN q
    BY <1>1, <1>2, <2>2, RunEndFacts
  <2> HIDE DEF hi
  <2> DEFINE L == hi - lo + 1
  <2>5. hi \in Nat /\ L \in Nat /\ L >= 1 /\ hi + 1 = lo + L /\ lo + L - 1 = hi
    BY <1>1, <1>2, <2>4
  <2>6. \A i \in 1..L : lo + i - 1 \in lo..hi  BY <1>2, <2>5
  <2>7. run \in [1..L -> Frames] /\ \A i \in 1..L : run[i] = q[lo + i - 1]
    BY <1>1, <2>4, <2>6
  <2>8. rest \in Queues /\ DOMAIN rest \subseteq DOMAIN q /\ \A m \in DOMAIN rest : rest[m] = q[m]
    <3>1. DOMAIN q \ (lo..hi) \in SUBSET DOMAIN q  OBVIOUS
    <3> QED  BY <1>1, <3>1
  <2> HIDE DEF run, rest
  <2>9. run \in Seq(Frames) /\ Len(run) = L  BY <2>5, <2>7, FunctionIsSequence
  <2>10. \A i \in 1..L : InHand(run[i], r, f) /\ run[i].seq = lo + i - 1
    BY <1>1, <2>4, <2>6, <2>7
  <2>11. run[L] = q[hi] /\ q[hi] \in Frames
    <3>1. L \in 1..L  BY <2>5
    <3> QED  BY <1>1, <2>4, <2>5, <2>7, <3>1
  <2> HIDE DEF L
  <2>12. /\ d.rx = [rxSeq |-> hi + 1, rxQueue |-> rest, rxClosed |-> q[hi].fin]
         /\ d.out = ToSend(run) /\ d.closing = q[hi].fin
    BY <2>3
  <2>13. d.rx \in RxRecord /\ d.rx.rxSeq = lo + L /\ d.rx.rxQueue = rest /\ d.rx.rxClosed = run[L].fin
    <3>1. hi + 1 \in Nat /\ q[hi].fin \in BOOLEAN  BY <2>5, <2>11 DEF Frames
    <3> QED  BY <2>5, <2>8, <2>11, <2>12, <3>1 DEF RxRecord
  <2>14. Keyed(rest) /\ \A m \in DOMAIN rest : InHand(rest[m], r, f)
    BY <1>1, <2>8 DEF Keyed
  <2> QED  BY <2>5, <2>9, <2>10, <2>11, <2>12, <2>13, <2>14 DEF d
<1>6. f.seq < lo \/ f.seq > lo \/ f.seq = lo  BY <1>2
<1> QED  BY <1>3, <1>4, <1>5, <1>6, Zenon

---------------------------------------------------------------------------
(* Sound, for all values of the constants.                                 *)

(* A frame the server holds. *)
Arrived(g) ==
  \/ \E i \in DOMAIN inbox : g = inbox[i]
  \/ \E m \in DOMAIN rx.rxQueue : g = rx.rxQueue[m]

LEMMA PollNotIdle == Polls \cap {Idle} = {}
BY DEF Polls, Idle

LEMMA FrameTypes ==
  ASSUME Sound
  PROVE  /\ tx \in TxRecord /\ rx \in RxRecord /\ rx.rxSeq \in Nat /\ rx.rxClosed \in BOOLEAN
         /\ \A i \in DOMAIN inbox : inbox[i] \in Frames /\ inbox[i].seq \in Nat
         /\ \A m \in DOMAIN rx.rxQueue : /\ m \in Nat /\ rx.rxQueue[m] \in Frames
                                         /\ rx.rxQueue[m].seq = m
         /\ \A b : Batch(b) => \A i \in DOMAIN b : b[i] \in Frames /\ b[i].seq \in Nat
         /\ poll # Idle => poll \in Polls /\ poll.snap \in TxRecord /\ poll.leaked \in BOOLEAN
<1>1. \A b \in Seq(Frames) : \A i \in DOMAIN b : b[i] \in Frames
  BY ElementOfSeq, LenProperties
<1>2. \A f \in Frames : f.seq \in Nat  BY DEF Frames
<1>3. \A b \in Seq(Frames) : \A i \in DOMAIN b : b[i] \in Frames /\ b[i].seq \in Nat
  BY <1>1, <1>2
<1>4. inbox \in Seq(Frames)  BY DEF Sound, TypeOK
<1>5. \A b : Batch(b) => b \in Seq(Frames)  BY DEF Batch
<1>6. tx \in TxRecord /\ rx \in RxRecord /\ rx.rxSeq \in Nat /\ rx.rxClosed \in BOOLEAN
  BY DEF Sound, TypeOK, TxRecord
<1>7. poll # Idle => poll \in Polls /\ poll.snap \in TxRecord /\ poll.leaked \in BOOLEAN
  BY DEF Sound, TypeOK, TxRecord, Polls
<1>8. \A m \in DOMAIN rx.rxQueue : /\ m \in Nat /\ rx.rxQueue[m] \in Frames
                                   /\ rx.rxQueue[m].seq = m
  <2>1. rx.rxQueue \in Queues  BY <1>6 DEF RxRecord
  <2>2. PICK D \in SUBSET Nat : rx.rxQueue \in [D -> Frames]  BY <2>1 DEF Queues
  <2> QED  BY <2>2 DEF Sound, Keyed
<1> QED  BY <1>3, <1>4, <1>5, <1>6, <1>7, <1>8

(* One turn of rxLoop: nothing is handed over, or a run of frames that     *)
(* starts at rxSeq.                                                        *)
LEMMA LoopShape ==
  ASSUME Sound, RxLoop
  PROVE  /\ UNCHANGED <<tx, written, poll, late, dials, known, elsewhere, reset, mishap, faults>>
         /\ ~rx.rxClosed /\ inbox # <<>>
         /\ inbox' \in Seq(Frames) /\ rx' \in RxRecord /\ Keyed(rx'.rxQueue)
         /\ upstream' \in Seq(Nat) /\ eof' \in BOOLEAN
         /\ \A i \in DOMAIN inbox' : Arrived(inbox'[i])
         /\ \A m \in DOMAIN rx'.rxQueue : Arrived(rx'.rxQueue[m])
         /\ \/ rx'.rxSeq = rx.rxSeq /\ rx'.rxClosed = FALSE /\ upstream' = upstream /\ eof' = FALSE
            \/ \E run \in Seq(Frames) :
                 /\ Len(run) >= 1
                 /\ \A i \in 1..Len(run) : Arrived(run[i]) /\ run[i].seq = rx.rxSeq + i - 1
                 /\ rx'.rxSeq = rx.rxSeq + Len(run)
                 /\ rx'.rxClosed = run[Len(run)].fin /\ eof' = run[Len(run)].fin
                 /\ upstream' = upstream \o FlattenSeq(ToSend(run))
<1> DEFINE f == Head(inbox)
           d == DeliverRx(rx, f)
<1>1. /\ inbox \in Seq(Frames) /\ inbox # <<>> /\ rx \in RxRecord /\ rx.rxClosed = FALSE
      /\ Keyed(rx.rxQueue) /\ upstream \in Seq(Nat)
  BY DEF Sound, TypeOK, RxLoop
<1>2. /\ rx' = d.rx /\ upstream' = upstream \o FlattenSeq(d.out) /\ eof' = d.closing
      /\ inbox' = Tail(inbox)
      /\ UNCHANGED <<tx, written, poll, late, dials, known, elsewhere, reset, mishap, faults>>
  BY DEF RxLoop, clientVars, astrayVars
<1>3. /\ f \in Frames /\ f = inbox[1] /\ 1 \in DOMAIN inbox
      /\ inbox' \in Seq(Frames)
      /\ \A i \in DOMAIN inbox' : i + 1 \in DOMAIN inbox /\ inbox'[i] = inbox[i + 1]
  <2> DEFINE l == Len(inbox)
  <2>1. l \in Nat /\ DOMAIN inbox = 1..l /\ l # 0  BY <1>1, LenProperties, EmptySeq
  <2>2. /\ f \in Frames /\ f = inbox[1] /\ inbox' \in Seq(Frames) /\ Len(inbox') = l - 1
        /\ \A i \in 1..(l - 1) : inbox'[i] = inbox[i + 1]
    BY <1>1, <1>2, HeadTailProperties
  <2>3. DOMAIN inbox' = 1..(l - 1)  BY <2>2, LenProperties
  <2> HIDE DEF l, f
  <2> QED  BY <2>1, <2>2, <2>3
<1>4. PICK n \in Nat : Below(n)  BY DEF Sound
<1>5. f.seq < n /\ \A m \in DOMAIN rx.rxQueue : m < n  BY <1>3, <1>4 DEF Below
<1> HIDE DEF f
<1>6. \A g : InHand(g, rx, f) => Arrived(g)  BY <1>3 DEF InHand, Arrived
<1>7. /\ d.rx \in RxRecord /\ Keyed(d.rx.rxQueue)
      /\ \A m \in DOMAIN d.rx.rxQueue : InHand(d.rx.rxQueue[m], rx, f)
      /\ \/ d.rx.rxSeq = rx.rxSeq /\ d.rx.rxClosed = FALSE /\ d.out = <<>> /\ d.closing = FALSE
         \/ \E run \in Seq(Frames) :
              /\ Len(run) >= 1
              /\ \A i \in 1..Len(run) : InHand(run[i], rx, f) /\ run[i].seq = rx.rxSeq + i - 1
              /\ d.rx.rxSeq = rx.rxSeq + Len(run)
              /\ d.rx.rxClosed = run[Len(run)].fin /\ d.closing = run[Len(run)].fin
              /\ d.out = ToSend(run)
  BY <1>1, <1>3, <1>5, DeliverShape
<1> HIDE DEF d
<1>8. /\ \A i \in DOMAIN inbox' : Arrived(inbox'[i])
      /\ \A m \in DOMAIN rx'.rxQueue : Arrived(rx'.rxQueue[m])
  <2>1. \A i \in DOMAIN inbox' : Arrived(inbox'[i])  BY <1>3 DEF Arrived
  <2> QED  BY <1>2, <1>6, <1>7, <2>1
<1>9. CASE d.rx.rxSeq = rx.rxSeq /\ d.rx.rxClosed = FALSE /\ d.out = <<>> /\ d.closing = FALSE
  <2>1. upstream' = upstream  BY <1>1, <1>2, <1>9, FlattenOne, ConcatEmptySeq
  <2> QED  BY <1>1, <1>2, <1>3, <1>7, <1>8, <1>9, <2>1
<1>10. ASSUME NEW run \in Seq(Frames),
              /\ Len(run) >= 1
              /\ \A i \in 1..Len(run) : InHand(run[i], rx, f) /\ run[i].seq = rx.rxSeq + i - 1
              /\ d.rx.rxSeq = rx.rxSeq + Len(run)
              /\ d.rx.rxClosed = run[Len(run)].fin /\ d.closing = run[Len(run)].fin
              /\ d.out = ToSend(run)
       PROVE  /\ upstream' \in Seq(Nat) /\ eof' \in BOOLEAN
              /\ \A i \in 1..Len(run) : Arrived(run[i]) /\ run[i].seq = rx.rxSeq + i - 1
              /\ rx'.rxSeq = rx.rxSeq + Len(run)
              /\ rx'.rxClosed = run[Len(run)].fin /\ eof' = run[Len(run)].fin
              /\ upstream' = upstream \o FlattenSeq(ToSend(run))
  <2>1. FlattenSeq(ToSend(run)) \in Seq(Nat)  BY RunBytes
  <2>2. upstream' = upstream \o FlattenSeq(ToSend(run))  BY <1>2, <1>10
  <2>3. upstream' \in Seq(Nat)  BY <1>1, <2>1, <2>2, ConcatProperties
  <2>4. eof' \in BOOLEAN  BY <1>2, <1>7, <1>10 DEF RxRecord
  <2> QED  BY <1>2, <1>6, <1>10, <2>2, <2>3, <2>4
<1>11. CASE ~(d.rx.rxSeq = rx.rxSeq /\ d.rx.rxClosed = FALSE /\ d.out = <<>> /\ d.closing = FALSE)
  <2>1. PICK run \in Seq(Frames) :
              /\ Len(run) >= 1
              /\ \A i \in 1..Len(run) : InHand(run[i], rx, f) /\ run[i].seq = rx.rxSeq + i - 1
              /\ d.rx.rxSeq = rx.rxSeq + Len(run)
              /\ d.rx.rxClosed = run[Len(run)].fin /\ d.closing = run[Len(run)].fin
              /\ d.out = ToSend(run)
    BY <1>7, <1>11
  <2>2. /\ upstream' \in Seq(Nat) /\ eof' \in BOOLEAN
        /\ \A i \in 1..Len(run) : Arrived(run[i]) /\ run[i].seq = rx.rxSeq + i - 1
        /\ rx'.rxSeq = rx.rxSeq + Len(run)
        /\ rx'.rxClosed = run[Len(run)].fin /\ eof' = run[Len(run)].fin
        /\ upstream' = upstream \o FlattenSeq(ToSend(run))
    BY <1>10, <2>1
  <2> QED  BY <1>1, <1>2, <1>3, <1>7, <1>8, <2>1, <2>2
<1> QED  BY <1>9, <1>11

(* FailedPoll: the next attempt, or the end of the loop. *)
LEMMA FailedFacts ==
  ASSUME poll \in Polls, NEW leaked \in BOOLEAN
  PROVE  LET p == FailedPoll(leaked)
         IN  /\ p \in Polls /\ p.frames = poll.frames /\ p.snap = poll.snap
             /\ p.st \in {"ready", "failed"} /\ p.leaked = leaked /\ p.handled = poll.handled
             /\ p.st = "failed" => poll.attempt = MaxAttempts
<1>1. CASE poll.attempt < MaxAttempts
  <2> DEFINE k == poll.attempt + 1
  <2>1. k \in 1..MaxAttempts  BY <1>1, Constants DEF Polls
  <2>2. FailedPoll(leaked) = [poll EXCEPT !.st = "ready", !.attempt = k, !.leaked = leaked]
    BY <1>1 DEF FailedPoll
  <2> HIDE DEF k
  <2> QED  BY <2>1, <2>2 DEF Polls
<1>2. CASE ~(poll.attempt < MaxAttempts)
  <2>1. poll.attempt = MaxAttempts  BY <1>2, Constants DEF Polls
  <2>2. FailedPoll(leaked) = [poll EXCEPT !.st = "failed", !.leaked = leaked]
    BY <1>2 DEF FailedPoll
  <2> QED  BY <2>1, <2>2 DEF Polls
<1> QED  BY <1>1, <1>2

(* rxInbox holds nothing but what it held and frames of g. *)
Receives(g) ==
  \A i \in DOMAIN inbox' : \/ \E j \in DOMAIN inbox : inbox'[i] = inbox[j]
                           \/ \E j \in DOMAIN g : inbox'[i] = g[j]

LEMMA RouteFacts ==
  ASSUME TypeOK, NEW h \in Seq(Frames), Route(h)
  PROVE  /\ inbox' \in Seq(Frames) /\ reset' \in BOOLEAN /\ Receives(h)
         /\ ~Listening => inbox' = inbox
         /\ Listening => inbox' = inbox \o h
<1>1. inbox \in Seq(Frames) /\ reset \in BOOLEAN  BY DEF TypeOK
<1>2. /\ inbox' = IF Listening THEN inbox \o h ELSE inbox
      /\ reset' = (reset \/ (~HasEntry /\ h # <<>>))
  BY DEF Route
<1>3. CASE ~Listening  BY <1>1, <1>2, <1>3 DEF Receives
<1>4. CASE Listening
  <2> DEFINE l == Len(inbox)
             k == Len(h)
  <2>1. /\ inbox' \in Seq(Frames) /\ l \in Nat /\ k \in Nat /\ Len(inbox') = l + k
        /\ \A i \in 1..(l + k) : inbox'[i] = IF i <= l THEN inbox[i] ELSE h[i - l]
    BY <1>1, <1>2, <1>4, ConcatProperties, LenProperties
  <2>2. DOMAIN inbox' = 1..(l + k) /\ DOMAIN inbox = 1..l /\ DOMAIN h = 1..k
    BY <1>1, <2>1, LenProperties
  <2> HIDE DEF l, k
  <2>3. ASSUME NEW i \in DOMAIN inbox'
        PROVE  \/ \E j \in DOMAIN inbox : inbox'[i] = inbox[j]
               \/ \E j \in DOMAIN h : inbox'[i] = h[j]
    <3>1. CASE i <= l
      <4>1. i \in 1..l  BY <2>1, <2>2, <3>1
      <4> QED  BY <2>1, <2>2, <3>1, <4>1
    <3>2. CASE ~(i <= l)
      <4>1. i - l \in 1..k  BY <2>1, <2>2, <3>2
      <4> QED  BY <2>1, <2>2, <3>2, <4>1
    <3> QED  BY <3>1, <3>2
  <2> QED  BY <1>1, <1>2, <1>4, <2>1, <2>3 DEF Receives
<1> QED  BY <1>3, <1>4

(* What a request does to the server, whether it arrives or its dial ends. *)
LEMMA ServerFacts ==
  ASSUME TypeOK, NEW g, Batch(g), Arrive(g) \/ EndDial(g)
  PROVE  /\ known' \in BOOLEAN /\ elsewhere' \in BOOLEAN /\ reset' \in BOOLEAN
         /\ inbox' \in Seq(Frames) /\ mishap' \subseteq {"blind", "refused", "other"}
         /\ Receives(g)
<1>1. /\ known \in BOOLEAN /\ elsewhere \in BOOLEAN /\ reset \in BOOLEAN
      /\ inbox \in Seq(Frames) /\ mishap \subseteq {"blind", "refused", "other"}
  BY DEF TypeOK
<1>2. g \in Seq(Frames) /\ g # <<>>  BY EmptySeq DEF Batch
<1>3. CASE Arrive(g)
  <2>1. Route(g) /\ UNCHANGED <<known, elsewhere>>
        /\ (mishap' = mishap \/ mishap' = mishap \cup {"refused"})
    BY <1>3 DEF Arrive
  <2> QED  BY <1>1, <1>2, <2>1, RouteFacts
<1>4. CASE DialedHere(g)  BY <1>1, <1>2, <1>4 DEF DialedHere, Receives
<1>5. CASE DialedElsewhere
  <2>1. Receives(g)  BY <1>5 DEF DialedElsewhere, Receives
  <2> QED  BY <1>1, <1>5, <2>1 DEF DialedElsewhere
<1>6. CASE DialFailed(g)
  <2> DEFINE h == Tail(g)
             k == Len(g)
  <2>1. /\ h \in Seq(Frames) /\ Len(h) = k - 1 /\ k \in Nat /\ DOMAIN g = 1..k
        /\ \A i \in 1..(k - 1) : h[i] = g[i + 1]
    BY <1>2, HeadTailProperties, LenProperties
  <2>2. DOMAIN h = 1..(k - 1)  BY <2>1, LenProperties
  <2>3. Route(h) /\ mishap' = mishap \cup {"refused"} /\ UNCHANGED <<known, elsewhere>>
    BY <1>6 DEF DialFailed
  <2> HIDE DEF h, k
  <2>4. inbox' \in Seq(Frames) /\ reset' \in BOOLEAN /\ Receives(h)  BY <2>1, <2>3, RouteFacts
  <2>5. \A j \in DOMAIN h : j + 1 \in DOMAIN g /\ h[j] = g[j + 1]  BY <2>1, <2>2
  <2>6. Receives(g)  BY <2>4, <2>5 DEF Receives
  <2> QED  BY <1>1, <2>3, <2>4, <2>6
<1> QED  BY <1>3, <1>4, <1>5, <1>6 DEF EndDial

(* The steps that move batches and requests but no byte. *)
Moving ==
  \/ Post \/ Commit \/ DropRequest \/ GiveUp \/ CommitBlind
  \/ HandleRequest \/ DialForRequest \/ EndDialForRequest
  \/ HandleLateRequest \/ DialForLateRequest \/ EndDialForLateRequest
  \/ UNCHANGED vars

(* The worker keeps its batch or lets go of it; what it has shown the      *)
(* server stays shown.                                                     *)
PollMoves ==
  \/ poll' = Idle
  \/ /\ poll # Idle /\ poll' \in Polls
     /\ poll'.frames = poll.frames /\ poll'.snap = poll.snap
     /\ Seen => Seen'
     /\ Premise /\ poll'.st = "failed" => ~poll'.leaked \/ poll' = poll

AstrayMoves ==
  \A b \in Astray' :
    b \in Astray \/ (poll # Idle /\ b = poll.frames /\ (poll' = Idle \/ Seen'))

InboxMoves ==
  \A i \in DOMAIN inbox' :
    \/ \E j \in DOMAIN inbox : inbox'[i] = inbox[j]
    \/ \E b \in Astray : \E j \in DOMAIN b : inbox'[i] = b[j]
    \/ poll # Idle /\ poll' # Idle /\ Seen' /\ \E j \in DOMAIN poll.frames : inbox'[i] = poll.frames[j]

LEMMA MovesOfWorker ==
  ASSUME Sound, Post \/ Commit \/ DropRequest \/ GiveUp \/ CommitBlind \/ DialForRequest
  PROVE  /\ UNCHANGED <<tx, written, serverVars>>
         /\ TypeOK' /\ PollMoves /\ AstrayMoves /\ InboxMoves
<1>1. poll \in Polls /\ poll # Idle /\ poll.leaked \in BOOLEAN /\ poll.handled \in BOOLEAN
      /\ poll.frames \in Seq(Frames)
  <2>1. poll.st \in {"ready", "posted", "dialing"}
    BY DEF Post, Commit, DropRequest, GiveUp, CommitBlind, DialForRequest
  <2>2. poll # Idle  BY <2>1 DEF Idle
  <2>3. poll \in Polls  BY <2>2 DEF Sound, TypeOK
  <2> QED  BY <2>2, <2>3 DEF Polls
<1>2. UNCHANGED <<tx, written, serverVars>>
  BY DEF Post, Commit, DropRequest, GiveUp, CommitBlind, DialForRequest, clientVars
<1>3. /\ poll' = Idle \/ poll' \in Polls
      /\ PollMoves
  <2>1. CASE Post
    <3>1. /\ poll' \in Polls /\ poll'.frames = poll.frames /\ poll'.snap = poll.snap
          /\ poll'.leaked = poll.leaked /\ poll'.st = "posted" /\ poll.st = "ready"
      BY <1>1, <2>1 DEF Post, Polls
    <3> QED  BY <1>1, <3>1 DEF PollMoves, Seen
  <2>2. CASE DialForRequest
    <3>1. /\ poll' \in Polls /\ poll'.frames = poll.frames /\ poll'.snap = poll.snap
          /\ poll'.leaked = poll.leaked /\ poll'.st = "dialing" /\ ~poll.handled
      BY <1>1, <2>2 DEF DialForRequest, Polls
    <3> QED  BY <1>1, <3>1 DEF PollMoves, Seen
  <2>3. CASE DropRequest
    <3>1. /\ poll' \in Polls /\ poll'.frames = poll.frames /\ poll'.snap = poll.snap
          /\ poll'.leaked = poll.leaked /\ ~poll.handled
          /\ poll'.st = "failed" => poll.attempt = MaxAttempts
      BY <1>1, <2>3, FailedFacts DEF DropRequest
    <3>2. Premise /\ poll'.st = "failed" => ~poll'.leaked  BY <2>3, <3>1 DEF DropRequest, MayFail
    <3> QED  BY <1>1, <3>1, <3>2 DEF PollMoves, Seen
  <2>4. CASE GiveUp
    <3>1. /\ poll' \in Polls /\ poll'.frames = poll.frames /\ poll'.snap = poll.snap
          /\ poll'.leaked = TRUE
          /\ poll'.st = "failed" => poll.attempt = MaxAttempts
      BY <1>1, <2>4, FailedFacts DEF GiveUp
    <3>2. ~(Premise /\ poll'.st = "failed")  BY <2>4, <3>1 DEF GiveUp, MayFail
    <3> QED  BY <1>1, <3>1, <3>2 DEF PollMoves, Seen
  <2>5. CASE Commit \/ CommitBlind  BY <2>5 DEF Commit, CommitBlind, PollMoves
  <2> QED  BY <2>1, <2>2, <2>3, <2>4, <2>5
<1>4. faults' \in 0..MaxFaults
  <2>1. faults' = faults \/ (faults < MaxFaults /\ faults' = faults + 1)
    BY DEF Post, Commit, DropRequest, GiveUp, CommitBlind, DialForRequest, MayFail
  <2> QED  BY <2>1, Constants DEF Sound, TypeOK
<1>5. /\ late' \subseteq late \cup {poll.frames} /\ dials' \subseteq dials \cup {poll.frames}
      /\ (late' \subseteq late /\ dials' \subseteq dials) \/ GiveUp \/ CommitBlind
  BY DEF Post, Commit, DropRequest, GiveUp, CommitBlind, DialForRequest, Abandon, astrayVars
<1>6. mishap' \subseteq {"blind", "refused", "other"}
  <2>1. mishap' = mishap \/ mishap' = mishap \cup {"blind"}
    BY DEF Post, Commit, DropRequest, GiveUp, CommitBlind, DialForRequest
  <2> QED  BY <2>1 DEF Sound, TypeOK
<1>7. TypeOK'
  BY <1>1, <1>2, <1>3, <1>4, <1>5, <1>6 DEF Sound, TypeOK, serverVars, PollMoves
<1>8. GiveUp => Seen'
  <2> SUFFICES ASSUME GiveUp PROVE Seen'  OBVIOUS
  <2>1. poll'.leaked = TRUE  BY <1>1, FailedFacts DEF GiveUp
  <2> QED  BY <2>1 DEF Seen
<1>9. CommitBlind => poll' = Idle  BY DEF CommitBlind
<1>10. AstrayMoves  BY <1>1, <1>5, <1>8, <1>9 DEF AstrayMoves, Astray
<1>11. InboxMoves  BY <1>2 DEF InboxMoves, serverVars
<1> QED  BY <1>2, <1>3, <1>7, <1>10, <1>11 DEF PollMoves

LEMMA MovesOfRequest ==
  ASSUME Sound, HandleRequest \/ EndDialForRequest
  PROVE  /\ UNCHANGED <<tx, written, rx, upstream, eof>>
         /\ TypeOK' /\ PollMoves /\ AstrayMoves /\ InboxMoves
         /\ poll \in Polls /\ poll' \in Polls /\ poll'.st = "posted" /\ poll'.handled
<1>1. poll \in Polls /\ poll # Idle /\ poll.leaked \in BOOLEAN /\ poll.frames \in Seq(Frames)
  BY PollNotIdle DEF Sound, TypeOK, HandleRequest, EndDialForRequest, Idle, Polls
<1>2. /\ Batch(poll.frames) /\ (Arrive(poll.frames) \/ EndDial(poll.frames))
      /\ UNCHANGED <<tx, written, late, dials, rx, upstream, eof, faults>>
  BY <1>1 DEF Sound, PollShape, HandleRequest, EndDialForRequest, clientVars, astrayVars
<1>3. /\ poll' \in Polls /\ poll'.frames = poll.frames /\ poll'.snap = poll.snap
      /\ poll'.leaked = poll.leaked /\ poll'.st = "posted" /\ poll'.handled = TRUE
  BY <1>1 DEF HandleRequest, EndDialForRequest, Polls
<1>4. TypeOK  BY DEF Sound
<1>5. PICK g : g = poll.frames  OBVIOUS
<1>6. /\ known' \in BOOLEAN /\ elsewhere' \in BOOLEAN /\ reset' \in BOOLEAN
      /\ inbox' \in Seq(Frames) /\ mishap' \subseteq {"blind", "refused", "other"}
      /\ Receives(g)
  BY <1>2, <1>4, <1>5, ServerFacts
<1>7. TypeOK'  BY <1>2, <1>3, <1>4, <1>6 DEF TypeOK
<1>8. Seen' /\ poll' # Idle  BY <1>3, PollNotIdle DEF Seen
<1>9. InboxMoves  BY <1>1, <1>5, <1>6, <1>8 DEF InboxMoves, Receives
<1>10. AstrayMoves  BY <1>2 DEF AstrayMoves, Astray
<1> QED  BY <1>1, <1>2, <1>3, <1>7, <1>8, <1>9, <1>10 DEF PollMoves

LEMMA MovesOfLate ==
  ASSUME Sound, HandleLateRequest \/ EndDialForLateRequest
  PROVE  /\ UNCHANGED <<tx, written, poll, rx, upstream, eof>>
         /\ TypeOK' /\ AstrayMoves /\ InboxMoves
<1>1. PICK g \in Astray :
        /\ Arrive(g) \/ EndDial(g)
        /\ late' \subseteq late /\ dials' \subseteq dials
        /\ UNCHANGED <<tx, written, poll, rx, upstream, eof, faults>>
  BY DEF HandleLateRequest, EndDialForLateRequest, Astray, clientVars
<1>2. TypeOK /\ Batch(g)  BY DEF Sound
<1>3. /\ known' \in BOOLEAN /\ elsewhere' \in BOOLEAN /\ reset' \in BOOLEAN
      /\ inbox' \in Seq(Frames) /\ mishap' \subseteq {"blind", "refused", "other"}
      /\ Receives(g)
  BY <1>1, <1>2, ServerFacts
<1>4. TypeOK'  BY <1>1, <1>2, <1>3 DEF TypeOK
<1>5. InboxMoves  BY <1>1, <1>3 DEF InboxMoves, Receives
<1>6. AstrayMoves  BY <1>1 DEF AstrayMoves, Astray
<1> QED  BY <1>1, <1>4, <1>5, <1>6

LEMMA MoveFacts ==
  ASSUME Sound, Moving
  PROVE  /\ UNCHANGED <<tx, written, rx, upstream, eof>>
         /\ TypeOK' /\ PollMoves /\ AstrayMoves /\ InboxMoves
<1>1. poll = Idle \/ (poll # Idle /\ poll \in Polls)  BY DEF Sound, TypeOK
<1>2. CASE Post \/ Commit \/ DropRequest \/ GiveUp \/ CommitBlind \/ DialForRequest
  BY <1>2, MovesOfWorker DEF serverVars
<1>3. CASE HandleRequest \/ EndDialForRequest  BY <1>3, MovesOfRequest
<1>4. CASE HandleLateRequest \/ EndDialForLateRequest
  <2>1. /\ UNCHANGED <<tx, written, poll, rx, upstream, eof>>
        /\ TypeOK' /\ AstrayMoves /\ InboxMoves
    BY <1>4, MovesOfLate
  <2> QED  BY <1>1, <2>1 DEF PollMoves, Seen
<1>5. CASE DialForLateRequest
  <2>1. /\ UNCHANGED <<tx, written, poll, serverVars, mishap, faults>>
        /\ late' \subseteq late /\ dials' \subseteq late \cup dials
    BY <1>5 DEF DialForLateRequest, clientVars
  <2>2. TypeOK'  BY <2>1 DEF Sound, TypeOK, serverVars
  <2>3. AstrayMoves /\ InboxMoves  BY <2>1 DEF AstrayMoves, InboxMoves, Astray, serverVars
  <2> QED  BY <1>1, <2>1, <2>2, <2>3 DEF PollMoves, Seen, serverVars
<1>6. CASE UNCHANGED vars
  <2>1. UNCHANGED <<tx, written, poll, late, dials, serverVars, mishap, faults>>
    BY <1>6 DEF vars, clientVars, astrayVars
  <2>2. TypeOK'  BY <2>1 DEF Sound, TypeOK, serverVars
  <2>3. AstrayMoves /\ InboxMoves  BY <2>1 DEF AstrayMoves, InboxMoves, Astray, serverVars
  <2> QED  BY <1>1, <2>1, <2>2, <2>3 DEF PollMoves, Seen, serverVars
<1> QED  BY <1>2, <1>3, <1>4, <1>5, <1>6 DEF Moving

LEMMA WriteFacts ==
  ASSUME TypeOK, NEW n \in 1..MaxWrite, Write(n)
  PROVE  LET data == [i \in 1..n |-> Len(written) + i]
         IN  /\ tx' \in TxRecord /\ written' \in Seq(Nat) /\ data \in Seq(Nat) /\ Len(data) = n
             /\ tx'.txSeq = tx.txSeq /\ tx'.synNeeded = tx.synNeeded
             /\ tx'.closeReq = tx.closeReq /\ tx'.finSent = tx.finSent
             /\ \/ tx' = tx /\ written' = written
                \/ /\ tx.synNeeded \/ ~tx.closeReq
                   /\ tx'.txBuf = tx.txBuf \o data /\ written' = written \o data
             /\ UNCHANGED <<poll, late, dials, serverVars, mishap, faults>>
<1> DEFINE data == [i \in 1..n |-> Len(written) + i]
           s == EnqueueInitialData(tx, data)
<1>1. tx \in TxRecord /\ written \in Seq(Nat) /\ Len(written) \in Nat /\ n \in Nat
  BY Constants, LenProperties DEF TypeOK, TxRecord
<1>2. data \in Seq(Nat) /\ Len(data) = n
  <2>1. data \in [1..n -> Nat]  BY <1>1
  <2> HIDE DEF data
  <2> QED  BY <1>1, <2>1, FunctionIsSequence
<1>3. /\ tx' = s /\ written' = IF s = tx THEN written ELSE written \o data
      /\ UNCHANGED <<poll, late, dials, serverVars, mishap, faults>>
  BY DEF Write, astrayVars
<1> HIDE DEF data
<1>4. \/ s = tx
      \/ (tx.synNeeded \/ ~tx.closeReq) /\ s = [tx EXCEPT !.txBuf = tx.txBuf \o data]
  BY DEF EnqueueInitialData, EnqueueTx
<1>5. CASE s = tx  BY <1>1, <1>2, <1>3, <1>5 DEF data
<1>6. CASE s # tx
  <2>1. tx.txBuf \o data \in Seq(Nat) /\ written \o data \in Seq(Nat)
    BY <1>1, <1>2, ConcatProperties DEF TxRecord
  <2> DEFINE buf == tx.txBuf \o data
  <2>2. s = [tx EXCEPT !.txBuf = buf] /\ buf \in Seq(Nat) /\ (tx.synNeeded \/ ~tx.closeReq)
    BY <1>4, <1>6, <2>1
  <2> HIDE DEF s, buf
  <2>3. /\ s \in TxRecord /\ s.txBuf = buf /\ s.txSeq = tx.txSeq /\ s.synNeeded = tx.synNeeded
        /\ s.closeReq = tx.closeReq /\ s.finSent = tx.finSent
    BY <1>1, <2>2 DEF TxRecord
  <2> QED  BY <1>2, <1>3, <1>6, <2>1, <2>2, <2>3 DEF buf, data
<1> QED  BY <1>5, <1>6

LEMMA CloseFacts ==
  ASSUME TypeOK, CloseWrite
  PROVE  /\ tx' \in TxRecord /\ tx'.txBuf = tx.txBuf
         /\ tx'.txSeq = tx.txSeq /\ tx'.synNeeded = tx.synNeeded
         /\ tx'.closeReq = TRUE /\ tx'.finSent = tx.finSent
         /\ UNCHANGED <<written, poll, late, dials, serverVars, mishap, faults>>
BY DEF TypeOK, TxRecord, CloseWrite, RequestClose, astrayVars

LEMMA RollbackFacts ==
  ASSUME TypeOK, Rollback
  PROVE  /\ poll \in Polls /\ poll # Idle /\ poll.st = "failed" /\ poll' = Idle
         /\ tx' \in TxRecord /\ tx'.txSeq = poll.snap.txSeq
         /\ tx'.txBuf = poll.snap.txBuf \o tx.txBuf
         /\ tx'.synNeeded = (tx.synNeeded \/ poll.snap.synNeeded)
         /\ tx'.closeReq = tx.closeReq
         /\ tx'.finSent = (tx.finSent /\ poll.snap.finSent)
         /\ UNCHANGED <<written, late, dials, serverVars, mishap, faults>>
<1>1. poll \in Polls /\ poll # Idle /\ poll.snap \in TxRecord /\ tx \in TxRecord
  BY PollNotIdle DEF TypeOK, Rollback, Idle, Polls, TxRecord
<1> DEFINE buf == poll.snap.txBuf \o tx.txBuf
           y == tx.synNeeded \/ poll.snap.synNeeded
           z == tx.finSent /\ poll.snap.finSent
<1>2. buf \in Seq(Nat) /\ y \in BOOLEAN /\ z \in BOOLEAN
  BY <1>1, ConcatProperties DEF TxRecord
<1>3. tx' = [tx EXCEPT !.txBuf = buf, !.txSeq = poll.snap.txSeq, !.synNeeded = y, !.finSent = z]
  BY DEF Rollback, RollbackDrain
<1> HIDE DEF buf, y, z
<1>4. /\ tx' \in TxRecord /\ tx'.txSeq = poll.snap.txSeq /\ tx'.txBuf = buf
      /\ tx'.synNeeded = y /\ tx'.finSent = z /\ tx'.closeReq = tx.closeReq
  BY <1>1, <1>2, <1>3 DEF TxRecord
<1> QED  BY <1>1, <1>4 DEF Rollback, astrayVars, buf, y, z

LEMMA DrainFacts ==
  ASSUME Sound, Drain
  PROVE  LET d == DrainTx(tx, MaxPayload, MaxFrames)
         IN  /\ poll = Idle /\ HasPendingTx(tx) /\ tx' = d.sess /\ d.snap = tx
             /\ poll' \in Polls /\ poll'.st = "ready" /\ poll'.leaked = FALSE
             /\ poll'.frames = d.frames /\ poll'.snap = tx
             /\ Batch(d.frames) /\ d.frames[1].seq = tx.txSeq
             /\ tx' \in TxRecord /\ tx'.txSeq = tx.txSeq + Len(d.frames) /\ tx'.txSeq # 0
             /\ ~tx'.synNeeded
             /\ UNCHANGED <<written, late, dials, serverVars, mishap, faults>>
<1> DEFINE d == DrainTx(tx, MaxPayload, MaxFrames)
<1>1. tx \in TxRecord /\ (tx.synNeeded <=> tx.txSeq = 0)  BY DEF Sound, TypeOK, TxRecord
<1>2. /\ Batch(d.frames) /\ d.frames[1].seq = tx.txSeq
      /\ d.sess \in TxRecord /\ d.snap = tx
      /\ d.sess.txSeq = tx.txSeq + Len(d.frames) /\ d.sess.txSeq # 0
      /\ ~d.sess.synNeeded
  BY <1>1, DrainBatch DEF Drain
<1>3. /\ tx' = d.sess
      /\ poll' = [st |-> "ready", attempt |-> 1, handled |-> FALSE,
                  leaked |-> FALSE, frames |-> d.frames, snap |-> d.snap]
      /\ poll = Idle /\ HasPendingTx(tx)
      /\ UNCHANGED <<written, late, dials, serverVars, mishap, faults>>
  BY DEF Drain, astrayVars
<1> HIDE DEF d
<1>4. poll' \in Polls  BY <1>1, <1>2, <1>3, Constants DEF Polls, Batch, TxRecord
<1>5. /\ poll'.frames = d.frames /\ poll'.snap = tx /\ poll'.st = "ready" /\ poll'.leaked = FALSE
  BY <1>2, <1>3
<1> QED  BY <1>2, <1>3, <1>4, <1>5 DEF d

LEMMA InitSound == Init => Sound
<1> SUFFICES ASSUME Init PROVE Sound  OBVIOUS
<1> DEFINE e == <<>>
<1>0. /\ e \in Seq(Nat) /\ e \in Seq(Frames) /\ DOMAIN e = {} /\ e \in [{} -> Frames]
      /\ written = e /\ inbox = e /\ upstream = e
      /\ poll = Idle /\ late = {} /\ dials = {} /\ known = FALSE /\ elsewhere = FALSE
      /\ eof = FALSE /\ reset = FALSE /\ mishap = {} /\ faults = 0
  BY EmptySeq DEF Init
<1>1. /\ tx \in TxRecord /\ tx.txSeq = 0 /\ tx.synNeeded = TRUE
      /\ rx = [rxSeq |-> 0, rxQueue |-> e, rxClosed |-> FALSE]
  BY <1>0 DEF Init, NewTx, NewRx, TxRecord
<1> HIDE DEF e
<1>2. rx.rxSeq = 0 /\ rx.rxQueue = e /\ rx.rxClosed = FALSE  BY <1>1
<1>3. rx \in RxRecord
  <2>1. e \in Queues  BY <1>0 DEF Queues
  <2> QED  BY <1>1, <2>1 DEF RxRecord
<1>4. TypeOK
  <2>1. 0 \in 0..MaxFaults  BY Constants
  <2>2. 0 \in Nat /\ FALSE \in BOOLEAN  OBVIOUS
  <2>3. tx \in [txBuf : Seq(Nat), txSeq : Nat, synNeeded : BOOLEAN,
               closeReq : BOOLEAN, finSent : BOOLEAN]
    BY <1>1 DEF TxRecord
  <2> QED  BY <1>0, <1>2, <2>1, <2>2, <2>3, Zenon DEF TypeOK
<1>5. Keyed(rx.rxQueue) /\ PollShape /\ Astray = {}  BY <1>0, <1>2 DEF Keyed, PollShape, Astray
<1>6. Below(0)
  <2>1. 0 <= 0  OBVIOUS
  <2> QED  BY <1>0, <1>1, <1>2, <1>5, <2>1, Zenon DEF Below
<1> QED  BY <1>1, <1>3, <1>4, <1>5, <1>6 DEF Sound

(* The application's steps and the rollback touch no frame. *)
LEMMA SoundOfTx ==
  ASSUME Sound, UNCHANGED <<late, dials, serverVars, mishap, faults>>,
         tx' \in TxRecord, written' \in Seq(Nat), tx'.synNeeded <=> tx'.txSeq = 0,
         tx'.txSeq <= tx.txSeq, poll' = Idle \/ (poll' = poll /\ tx'.txSeq = tx.txSeq)
  PROVE  Sound'
<1>1. TypeOK'  BY DEF Sound, TypeOK, TxRecord, serverVars
<1>2. PollShape'  BY DEF Sound, PollShape, Batch
<1>3. PICK n \in Nat : Below(n)  BY DEF Sound
<1>4. tx.txSeq \in Nat /\ tx'.txSeq \in Nat  BY FrameTypes DEF TxRecord
<1>5. tx'.txSeq <= n  BY <1>3, <1>4 DEF Below
<1>6. Below(n)'  BY <1>3, <1>5 DEF Below, Astray, serverVars
<1>7. rx' \in RxRecord /\ Keyed(rx.rxQueue)' /\ \A b \in Astray' : Batch(b)'
  BY DEF Sound, Keyed, Astray, Batch, serverVars
<1> QED  BY <1>1, <1>2, <1>3, <1>6, <1>7 DEF Sound

LEMMA SoundWrite == ASSUME Sound, NEW n \in 1..MaxWrite, Write(n) PROVE Sound'
<1>1. /\ tx' \in TxRecord /\ written' \in Seq(Nat)
      /\ tx'.txSeq = tx.txSeq /\ tx'.synNeeded = tx.synNeeded
      /\ UNCHANGED <<poll, late, dials, serverVars, mishap, faults>>
  BY WriteFacts DEF Sound
<1>2. tx'.txSeq <= tx.txSeq /\ (tx'.synNeeded <=> tx'.txSeq = 0)
  BY <1>1, FrameTypes DEF Sound, TxRecord
<1> QED  BY <1>1, <1>2, SoundOfTx

LEMMA SoundClose == ASSUME Sound, CloseWrite PROVE Sound'
<1>1. /\ tx' \in TxRecord /\ written' = written
      /\ tx'.txSeq = tx.txSeq /\ tx'.synNeeded = tx.synNeeded
      /\ UNCHANGED <<poll, late, dials, serverVars, mishap, faults>>
  BY CloseFacts DEF Sound
<1>2. tx'.txSeq <= tx.txSeq /\ (tx'.synNeeded <=> tx'.txSeq = 0) /\ written' \in Seq(Nat)
  BY <1>1, FrameTypes DEF Sound, TxRecord, TypeOK
<1> QED  BY <1>1, <1>2, SoundOfTx

LEMMA SoundRollback == ASSUME Sound, Rollback PROVE Sound'
<1>1. /\ poll \in Polls /\ poll # Idle /\ poll' = Idle
      /\ tx' \in TxRecord /\ tx'.txSeq = poll.snap.txSeq
      /\ tx'.synNeeded = (tx.synNeeded \/ poll.snap.synNeeded)
      /\ UNCHANGED <<written, late, dials, serverVars, mishap, faults>>
  BY RollbackFacts DEF Sound
<1>2. /\ tx.txSeq = poll.snap.txSeq + Len(poll.frames) /\ Len(poll.frames) >= 1
      /\ Len(poll.frames) \in Nat /\ poll.snap.txSeq \in Nat
      /\ poll.snap.synNeeded <=> poll.snap.txSeq = 0
  BY <1>1, LenProperties DEF Sound, PollShape, Batch, Polls
<1>3. tx.txSeq # 0 /\ tx'.txSeq <= tx.txSeq  BY <1>1, <1>2
<1>4. ~tx.synNeeded /\ written' \in Seq(Nat)  BY <1>1, <1>3 DEF Sound, TypeOK
<1>5. tx'.synNeeded <=> tx'.txSeq = 0  BY <1>1, <1>2, <1>4
<1> QED  BY <1>1, <1>3, <1>4, <1>5, SoundOfTx

LEMMA SoundDrain == ASSUME Sound, Drain PROVE Sound'
<1> DEFINE d == DrainTx(tx, MaxPayload, MaxFrames)
<1>1. /\ poll' \in Polls /\ poll'.frames = d.frames /\ poll'.snap = tx
      /\ Batch(d.frames) /\ d.frames[1].seq = tx.txSeq
      /\ tx' \in TxRecord /\ tx'.txSeq = tx.txSeq + Len(d.frames) /\ tx'.txSeq # 0
      /\ ~tx'.synNeeded
      /\ UNCHANGED <<written, late, dials, serverVars, mishap, faults>>
  BY DrainFacts
<1> HIDE DEF d
<1>2. TypeOK'  BY <1>1 DEF Sound, TypeOK, TxRecord, serverVars
<1>3. PollShape'  BY <1>1 DEF Sound, PollShape, Batch
<1>4. rx' \in RxRecord /\ Keyed(rx.rxQueue)' /\ \A b \in Astray' : Batch(b)'
  BY <1>1 DEF Sound, Keyed, Astray, Batch, serverVars
<1>5. PICK n \in Nat : Below(n)  BY DEF Sound
<1>6. tx'.txSeq \in Nat  BY <1>1 DEF TxRecord
<1>7. PICK k \in Nat : n <= k /\ tx'.txSeq <= k
  <2>1. n + tx'.txSeq \in Nat /\ n <= n + tx'.txSeq /\ tx'.txSeq <= n + tx'.txSeq  BY <1>6
  <2> QED  BY <2>1
<1>8. \A m \in Nat : m < n => m < k  BY <1>7
<1>9. Below(k)'
  <2>1. \A m \in DOMAIN rx.rxQueue : m < k  BY <1>5, <1>8, FrameTypes DEF Below
  <2>2. \A i \in DOMAIN inbox : inbox[i].seq < k  BY <1>5, <1>8, FrameTypes DEF Below
  <2>3. \A b \in Astray : \A i \in DOMAIN b : b[i].seq < k
    BY <1>5, <1>8, FrameTypes DEF Below, Sound
  <2>4. Astray' = Astray /\ rx' = rx /\ inbox' = inbox  BY <1>1 DEF Astray, serverVars
  <2> QED  BY <1>7, <2>1, <2>2, <2>3, <2>4 DEF Below
<1> QED  BY <1>1, <1>2, <1>3, <1>4, <1>7, <1>9 DEF Sound

(* The frames of a batch lie between the snapshot and the session. *)
LEMMA BatchBelow ==
  ASSUME Sound, poll # Idle
  PROVE  /\ \A i \in DOMAIN poll.frames : /\ poll.frames[i] \in Frames /\ poll.frames[i].seq \in Nat
                                          /\ poll.frames[i].seq < tx.txSeq
         /\ poll.snap.txSeq \in Nat /\ poll.snap.txSeq < tx.txSeq
<1> DEFINE k == Len(poll.frames)
           q == poll.snap.txSeq
<1>1. /\ poll \in Polls /\ Batch(poll.frames) /\ poll.frames[1].seq = q /\ q + k = tx.txSeq
      /\ k \in Nat /\ k >= 1 /\ q \in Nat /\ DOMAIN poll.frames = 1..k
      /\ \A i \in 1..k : poll.frames[i].seq = q + i - 1
  <2>1. poll \in Polls /\ Batch(poll.frames) /\ poll.frames[1].seq = q /\ q + k = tx.txSeq
    BY DEF Sound, PollShape, TypeOK
  <2>2. k \in Nat /\ k >= 1 /\ q \in Nat /\ DOMAIN poll.frames = 1..k
    BY <2>1, LenProperties DEF Batch, Polls
  <2> QED  BY <2>1, <2>2 DEF Batch
<1>2. \A i \in DOMAIN poll.frames : poll.frames[i] \in Frames /\ poll.frames[i].seq \in Nat
  BY <1>1, FrameTypes
<1> HIDE DEF k, q
<1>3. \A i \in 1..k : q + i - 1 < q + k  BY <1>1
<1>4. q < tx.txSeq
  <2>1. q < q + k  BY <1>1
  <2> QED  BY <1>1, <2>1
<1> QED  BY <1>1, <1>2, <1>3, <1>4 DEF q

LEMMA SoundMoves == ASSUME Sound, Moving PROVE Sound'
<1>1. /\ UNCHANGED <<tx, written, rx, upstream, eof>>
      /\ TypeOK' /\ PollMoves /\ AstrayMoves /\ InboxMoves
  BY MoveFacts
<1>2. PollShape'  BY <1>1 DEF PollMoves, Sound, PollShape, Batch
<1>3. \A b \in Astray' : Batch(b)'  BY <1>1 DEF AstrayMoves, Sound, PollShape, Batch
<1>4. PICK n \in Nat : Below(n)  BY DEF Sound
<1>5. poll # Idle => \A i \in DOMAIN poll.frames : poll.frames[i].seq < n
  <2> SUFFICES ASSUME poll # Idle, NEW i \in DOMAIN poll.frames PROVE poll.frames[i].seq < n
    OBVIOUS
  <2>1. poll.frames[i].seq \in Nat /\ poll.frames[i].seq < tx.txSeq  BY BatchBelow
  <2>2. tx.txSeq <= n /\ tx.txSeq \in Nat  BY <1>4, FrameTypes DEF Below, TxRecord
  <2> QED  BY <2>1, <2>2
<1>6. \A i \in DOMAIN inbox' : inbox'[i].seq < n
  BY <1>1, <1>4, <1>5 DEF InboxMoves, Below
<1>7. \A b \in Astray' : \A i \in DOMAIN b : b[i].seq < n
  BY <1>1, <1>4, <1>5 DEF AstrayMoves, Below
<1>8. Below(n)'  BY <1>1, <1>4, <1>6, <1>7 DEF Below
<1>9. rx' \in RxRecord /\ Keyed(rx.rxQueue)' /\ (tx'.synNeeded <=> tx'.txSeq = 0)
  BY <1>1 DEF Sound, Keyed
<1> QED  BY <1>1, <1>2, <1>3, <1>4, <1>8, <1>9 DEF Sound

LEMMA SoundRxLoop == ASSUME Sound, RxLoop PROVE Sound'
<1>1. /\ UNCHANGED <<tx, written, poll, late, dials, known, elsewhere, reset, mishap, faults>>
      /\ inbox' \in Seq(Frames) /\ rx' \in RxRecord /\ Keyed(rx'.rxQueue)
      /\ upstream' \in Seq(Nat) /\ eof' \in BOOLEAN
      /\ \A i \in DOMAIN inbox' : Arrived(inbox'[i])
      /\ \A m \in DOMAIN rx'.rxQueue : Arrived(rx'.rxQueue[m])
  BY LoopShape
<1>2. TypeOK'
  <2>1. rx'.rxSeq \in Nat /\ rx'.rxClosed \in BOOLEAN  BY <1>1 DEF RxRecord
  <2> QED  BY <1>1, <2>1 DEF Sound, TypeOK
<1>3. PollShape' /\ \A b \in Astray' : Batch(b)'  BY <1>1 DEF Sound, PollShape, Batch, Astray
<1>4. PICK n \in Nat : Below(n)  BY DEF Sound
<1>5. \A g : Arrived(g) => g.seq < n  BY <1>4, FrameTypes DEF Arrived, Below
<1>6. Below(n)'  BY <1>1, <1>4, <1>5 DEF Below, Keyed, Astray
<1>7. Keyed(rx.rxQueue)' /\ (tx'.synNeeded <=> tx'.txSeq = 0)  BY <1>1 DEF Sound, Keyed
<1> QED  BY <1>1, <1>2, <1>3, <1>4, <1>6, <1>7 DEF Sound

LEMMA NextCases ==
  ASSUME [Next]_vars
  PROVE  (\E n \in 1..MaxWrite : Write(n)) \/ CloseWrite \/ Drain \/ Rollback \/ RxLoop \/ Moving
BY DEF Next, Moving

LEMMA SoundStep == Sound /\ [Next]_vars => Sound'
BY NextCases, SoundWrite, SoundClose, SoundDrain, SoundRollback, SoundRxLoop, SoundMoves

LEMMA SoundHolds == Spec => []Sound
BY InitSound, SoundStep, PTL DEF Spec

(* For every batch size, every number of attempts and whatever the         *)
(* transport and the dials do: the poll, the session and the server stay   *)
(* well formed, although a rollback winds txSeq back, an abandoned request *)
(* may come in late and a committed one never.                             *)
THEOREM TypeCorrect == Spec => []TypeOK
<1>1. Sound => TypeOK  BY DEF Sound
<1> QED  BY <1>1, SoundHolds, PTL

---------------------------------------------------------------------------
(* Flow, until the first mishap.                                           *)

LEMMA InitFlow == Init => Flow
<1> SUFFICES ASSUME Init PROVE Flow  OBVIOUS
<1>1. /\ tx.txSeq = 0 /\ rx.rxSeq = 0 /\ rx.rxClosed = FALSE /\ DOMAIN rx.rxQueue = {}
      /\ poll = Idle /\ Astray = {} /\ inbox = <<>> /\ DOMAIN inbox = {}
      /\ reset = FALSE /\ elsewhere = FALSE
  BY DEF Init, NewTx, NewRx, Astray
<1>2. Receiver /\ Opened  BY <1>1 DEF Receiver, NoGap, Opened
<1>3. Committed  BY <1>1 DEF Committed
<1> QED  BY <1>1, <1>2, <1>3 DEF Flow

LEMMA MishapsStay == ASSUME [Next]_vars, mishap' = {} PROVE mishap = {}
<1>1. ASSUME NEW g, Arrive(g) \/ EndDial(g) PROVE mishap = {}
  BY <1>1 DEF Arrive, EndDial, DialedHere, DialedElsewhere, DialFailed
<1>2. CASE UNCHANGED mishap  BY <1>2
<1>3. CASE CommitBlind  BY <1>3 DEF CommitBlind
<1>4. CASE HandleRequest \/ EndDialForRequest  BY <1>1, <1>4 DEF HandleRequest, EndDialForRequest
<1>5. CASE HandleLateRequest \/ EndDialForLateRequest
  BY <1>1, <1>5 DEF HandleLateRequest, EndDialForLateRequest
<1>6. CASE (\E n \in 1..MaxWrite : Write(n)) \/ CloseWrite \/ Drain \/ Rollback \/ RxLoop
  BY <1>2, <1>6 DEF Write, CloseWrite, Drain, Rollback, RxLoop
<1>7. CASE Post \/ Commit \/ DropRequest \/ GiveUp \/ DialForRequest \/ DialForLateRequest
  BY <1>2, <1>7 DEF Post, Commit, DropRequest, GiveUp, DialForRequest, DialForLateRequest
<1>8. CASE UNCHANGED vars  BY <1>2, <1>8 DEF vars
<1> QED  BY <1>3, <1>4, <1>5, <1>6, <1>7, <1>8 DEF Next

(* Steps of the client while the server rests. *)
LEMMA FlowRests ==
  ASSUME Flow, UNCHANGED serverVars,
         poll' # Idle => Reached(poll'.frames),
         \A b \in Astray' : Reached(b),
         poll' = Idle \/ (poll'.st = "posted" /\ poll'.handled)
           => rx.rxClosed \/ \A m \in Nat : m < tx'.txSeq => Got(m)
  PROVE  Flow'
<1>1. rx' = rx /\ inbox' = inbox /\ known' = known /\ elsewhere' = elsewhere /\ reset' = reset
  BY DEF serverVars
<1>2. \A m \in Nat : Got(m)' <=> Got(m)  BY <1>1 DEF Got
<1>3. Receiver' /\ Opened'  BY <1>1 DEF Flow, Receiver, NoGap, Opened
<1>4. poll' # Idle => Reached(poll.frames)'
  <2>1. poll' # Idle => rx'.rxClosed \/ \A m \in Nat : m < poll'.frames[1].seq => Got(m)'
    BY <1>1, <1>2 DEF Reached
  <2> QED  BY <2>1 DEF Reached
<1>5. \A b \in Astray' : Reached(b)'
  <2> SUFFICES ASSUME NEW b \in Astray'
               PROVE rx'.rxClosed \/ \A m \in Nat : m < b[1].seq => Got(m)'
    BY DEF Reached
  <2> QED  BY <1>1, <1>2 DEF Reached
<1>6. Committed'  BY <1>1, <1>2 DEF Committed
<1> QED  BY <1>3, <1>4, <1>5, <1>6 DEF Flow

LEMMA FlowOfTx ==
  ASSUME Flow, UNCHANGED <<poll, late, dials, serverVars>>, tx'.txSeq = tx.txSeq
  PROVE  Flow'
BY FlowRests DEF Flow, Committed, Astray

LEMMA FlowDrain == ASSUME Sound, Flow, Drain PROVE Flow'
<1> DEFINE d == DrainTx(tx, MaxPayload, MaxFrames)
<1>1. /\ poll = Idle /\ poll' \in Polls /\ poll'.st = "ready" /\ poll'.frames = d.frames
      /\ d.frames[1].seq = tx.txSeq
      /\ UNCHANGED <<late, dials, serverVars>>
  BY DrainFacts
<1> HIDE DEF d
<1>2. Reached(poll'.frames)  BY <1>1 DEF Reached, Flow, Committed
<1>3. poll' # Idle  BY <1>1, PollNotIdle
<1> QED  BY <1>1, <1>2, <1>3, FlowRests DEF Flow, Astray

LEMMA FlowRollback == ASSUME Sound, Flow, Rollback PROVE Flow'
<1>1. /\ poll # Idle /\ poll' = Idle /\ tx'.txSeq = poll.snap.txSeq
      /\ UNCHANGED <<late, dials, serverVars>>
  BY RollbackFacts DEF Sound
<1>2. rx.rxClosed \/ \A m \in Nat : m < tx'.txSeq => Got(m)
  BY <1>1 DEF Flow, Sound, PollShape, Reached
<1> QED  BY <1>1, <1>2, FlowRests DEF Flow, Astray

LEMMA FlowWorker ==
  ASSUME Sound, Flow, Post \/ Commit \/ DropRequest \/ GiveUp \/ DialForRequest
  PROVE  Flow'
<1>1. UNCHANGED <<tx, serverVars>> /\ PollMoves /\ AstrayMoves  BY MovesOfWorker
<1>2. poll # Idle
  <2>1. poll.st \in {"ready", "posted", "dialing"}
    BY DEF Post, Commit, DropRequest, GiveUp, DialForRequest
  <2> QED  BY <2>1 DEF Idle
<1>3. Reached(poll.frames)  BY <1>2 DEF Flow
<1>4. poll' # Idle => Reached(poll'.frames)  BY <1>1, <1>3 DEF PollMoves
<1>5. \A b \in Astray' : Reached(b)  BY <1>1, <1>3 DEF AstrayMoves, Flow
<1>6. ASSUME poll' = Idle \/ (poll'.st = "posted" /\ poll'.handled)
      PROVE  rx.rxClosed \/ \A m \in Nat : m < tx'.txSeq => Got(m)
  <2>0. poll \in Polls /\ poll.leaked \in BOOLEAN  BY <1>2 DEF Sound, TypeOK, Polls
  <2>1. CASE Commit  BY <1>1, <2>1 DEF Commit, Flow, Committed
  <2>2. CASE Post
    <3>1. poll' \in Polls /\ poll'.handled = FALSE  BY <2>0, <2>2 DEF Post, Polls
    <3> QED  BY <1>6, <3>1, PollNotIdle
  <2>3. CASE DialForRequest
    <3>1. poll' \in Polls /\ poll'.st = "dialing"  BY <2>0, <2>3 DEF DialForRequest, Polls
    <3> QED  BY <1>6, <3>1, PollNotIdle
  <2>4. CASE DropRequest \/ GiveUp
    <3>1. poll' \in Polls /\ poll'.st \in {"ready", "failed"}
      BY <2>0, <2>4, FailedFacts DEF DropRequest, GiveUp
    <3> QED  BY <1>6, <3>1, PollNotIdle
  <2> QED  BY <2>1, <2>2, <2>3, <2>4
<1> QED  BY <1>1, <1>4, <1>5, <1>6, FlowRests

(* Without a mishap the session is open behind every request, and its      *)
(* frames queue up behind those they need.                                 *)
LEMMA OpensFacts ==
  ASSUME Sound, Flow, NEW b, Batch(b), Reached(b), Arrive(b) \/ EndDial(b), mishap' = {}
  PROVE  /\ known' = TRUE /\ reset' = FALSE /\ elsewhere' = FALSE
         /\ inbox' = IF rx.rxClosed THEN inbox ELSE inbox \o b
<1>0. /\ reset = FALSE /\ elsewhere = FALSE /\ known \in BOOLEAN /\ rx.rxClosed \in BOOLEAN
      /\ b \in Seq(Frames) /\ b # <<>> /\ b[1].seq \in Nat
  <2>1. b \in Seq(Frames) /\ Len(b) \in Nat /\ Len(b) >= 1 /\ b # <<>>
    BY LenProperties, EmptySeq DEF Batch
  <2>2. 1 \in DOMAIN b  BY <2>1, LenProperties
  <2> QED  BY <2>1, <2>2, FrameTypes DEF Flow, Opened, Sound, TypeOK
<1>1. ASSUME ~known PROVE b[1].syn
  <2>1. ~rx.rxClosed /\ rx.rxSeq = 0 /\ DOMAIN inbox = {}  BY <1>1 DEF Flow, Opened
  <2>2. ~Got(0)  BY <2>1 DEF Got
  <2>3. ~(0 < b[1].seq)  BY <2>1, <2>2 DEF Reached
  <2>4. b[1].seq = 0  BY <1>0, <2>3
  <2> QED  BY <2>4 DEF Batch
<1>2. CASE Arrive(b)
  <2>1. known  BY <1>0, <1>1, <1>2 DEF Arrive, HasEntry
  <2>2. HasEntry /\ (Listening <=> ~rx.rxClosed)  BY <1>0, <2>1 DEF HasEntry, Listening
  <2> QED  BY <1>0, <1>2, <2>1, <2>2 DEF Arrive, Route
<1>3. CASE EndDial(b)
  <2>1. DialedHere(b)  BY <1>3 DEF EndDial, DialedElsewhere, DialFailed
  <2>2. ~rx.rxClosed /\ inbox = <<>>  BY <2>1 DEF DialedHere, Flow, Opened
  <2>3. inbox \o b = b  BY <1>0, <2>2, ConcatEmptySeq
  <2> QED  BY <1>0, <2>1, <2>2, <2>3 DEF DialedHere
<1> QED  BY <1>2, <1>3

LEMMA ArriveFacts ==
  ASSUME Sound, Flow, NEW b, Batch(b), Reached(b), Arrive(b) \/ EndDial(b), mishap' = {},
         UNCHANGED rx
  PROVE  /\ Receiver' /\ Opened'
         /\ \A m \in Nat : Got(m) => Got(m)'
         /\ ~rx.rxClosed => \A i \in DOMAIN b : Got(b[i].seq)'
<1> DEFINE l == Len(inbox)
           k == Len(b)
           q == b[1].seq
<1>0. /\ inbox \in Seq(Frames) /\ b \in Seq(Frames) /\ l \in Nat /\ k \in Nat /\ k >= 1
      /\ DOMAIN inbox = 1..l /\ DOMAIN b = 1..k /\ rx.rxSeq \in Nat
  BY LenProperties DEF Sound, TypeOK, Batch
<1>1. q \in Nat
  <2>1. b[1] \in Frames  BY <1>0, ElementOfSeq
  <2> QED  BY <2>1 DEF Frames
<1>2. /\ known' = TRUE /\ reset' = FALSE /\ elsewhere' = FALSE
      /\ inbox' = IF rx.rxClosed THEN inbox ELSE inbox \o b
  BY OpensFacts
<1>3. CASE rx.rxClosed
  <2>1. inbox' = inbox /\ rx' = rx  BY <1>2, <1>3
  <2>2. Receiver' /\ (\A m \in Nat : Got(m) => Got(m)')
    BY <1>3, <2>1 DEF Flow, Receiver, Got
  <2> QED  BY <1>0, <1>2, <1>3, <2>1, <2>2 DEF Opened
<1>4. CASE ~rx.rxClosed
  <2>1. inbox' = inbox \o b  BY <1>2, <1>4
  <2>2. /\ inbox' \in Seq(Frames) /\ Len(inbox') = l + k
        /\ \A i \in 1..(l + k) : inbox'[i] = IF i <= l THEN inbox[i] ELSE b[i - l]
    BY <1>0, <2>1, ConcatProperties
  <2> HIDE DEF l, k, q
  <2>3. DOMAIN inbox' = 1..(l + k)  BY <2>2, LenProperties
  <2>4. \A i \in 1..l : i \in DOMAIN inbox' /\ inbox'[i] = inbox[i]  BY <1>0, <2>2, <2>3
  <2>5. \A i \in 1..k : i + l \in DOMAIN inbox' /\ inbox'[i + l] = b[i]
    <3> SUFFICES ASSUME NEW i \in 1..k PROVE i + l \in DOMAIN inbox' /\ inbox'[i + l] = b[i]
      OBVIOUS
    <3>1. i + l \in 1..(l + k) /\ ~(i + l <= l) /\ (i + l) - l = i  BY <1>0
    <3> QED  BY <2>2, <2>3, <3>1
  <2>6. \A i \in DOMAIN inbox' : i \in 1..l \/ (i - l \in 1..k /\ (i - l) + l = i)
    BY <1>0, <2>3
  <2>7. \A m \in Nat : Got(m) => Got(m)'
    <3> SUFFICES ASSUME NEW m \in Nat, Got(m) PROVE m < rx'.rxSeq \/ \E j \in DOMAIN inbox' : inbox'[j].seq = m
      BY DEF Got
    <3> QED  BY <1>0, <2>4 DEF Got
  <2>8. \A i \in DOMAIN b : Got(b[i].seq)'
    <3> SUFFICES ASSUME NEW i \in DOMAIN b PROVE \E j \in DOMAIN inbox' : inbox'[j].seq = b[i].seq
      BY DEF Got
    <3> QED  BY <1>0, <2>5
  <2>9. NoGap'
    <3> SUFFICES ASSUME NEW i \in DOMAIN inbox', NEW m \in Nat,
                        rx.rxSeq <= m, m < inbox'[i].seq
                 PROVE  \E j \in 1..(i - 1) : inbox'[j].seq = m
      BY DEF NoGap
    <3>1. CASE i \in 1..l
      <4>1. inbox'[i] = inbox[i]  BY <2>4, <3>1
      <4>2. PICK j \in 1..(i - 1) : inbox[j].seq = m
        BY <1>0, <1>4, <3>1, <4>1 DEF Flow, Receiver, NoGap
      <4>3. j \in 1..l  BY <1>0, <3>1
      <4> QED  BY <2>4, <4>2, <4>3
    <3>2. CASE i - l \in 1..k /\ (i - l) + l = i
      <4> DEFINE p == i - l
      <4>1. inbox'[i] = b[p]  BY <2>5, <3>2
      <4>2. b[p].seq = q + p - 1  BY <1>0, <3>2 DEF Batch, q
      <4>3. p \in 1..k /\ p + l = i /\ p \in Nat  BY <3>2
      <4> HIDE DEF p
      <4>4. CASE m < q
        <5>1. Got(m)  BY <1>4, <4>4 DEF Reached, q
        <5>2. PICK j \in DOMAIN inbox : inbox[j].seq = m  BY <1>0, <5>1 DEF Got
        <5>3. j \in 1..l /\ j \in 1..(i - 1)  BY <1>0, <4>3, <5>2
        <5> QED  BY <2>4, <5>2, <5>3
      <4>5. CASE q <= m
        <5> DEFINE j == m - q + 1
        <5>1. m < q + p - 1  BY <4>1, <4>2
        <5>2. j \in 1..k /\ q + j - 1 = m /\ j + l \in 1..(i - 1)
          BY <1>0, <1>1, <4>3, <4>5, <5>1
        <5> HIDE DEF j
        <5>3. b[j].seq = m  BY <1>0, <5>2 DEF Batch, q
        <5> QED  BY <2>5, <5>2, <5>3
      <4> QED  BY <1>1, <4>4, <4>5
    <3> QED  BY <2>6, <3>1, <3>2
  <2>10. Receiver'  BY <2>9 DEF Flow, Receiver
  <2> QED  BY <1>2, <2>7, <2>8, <2>10 DEF Opened
<1> QED  BY <1>3, <1>4

LEMMA FlowRequest ==
  ASSUME Sound, Flow, HandleRequest \/ EndDialForRequest, mishap' = {}
  PROVE  Flow'
<1>0. PICK g : g = poll.frames  OBVIOUS
<1>1. /\ UNCHANGED <<tx, rx, late, dials>>
      /\ PollMoves /\ poll \in Polls /\ poll' \in Polls /\ poll # Idle /\ poll' # Idle
      /\ poll'.frames = g /\ Batch(g) /\ Reached(g) /\ (Arrive(g) \/ EndDial(g))
  <2>1. /\ UNCHANGED <<tx, rx>> /\ PollMoves /\ poll \in Polls /\ poll' \in Polls
    BY MovesOfRequest
  <2>2. UNCHANGED <<late, dials>> /\ (Arrive(g) \/ EndDial(g))
    BY <1>0 DEF HandleRequest, EndDialForRequest, astrayVars
  <2>3. poll # Idle /\ poll' # Idle  BY <2>1, PollNotIdle
  <2> QED  BY <1>0, <2>1, <2>2, <2>3 DEF PollMoves, Sound, PollShape, Flow
<1>2. /\ Receiver' /\ Opened'
      /\ \A m \in Nat : Got(m) => Got(m)'
      /\ ~rx.rxClosed => \A i \in DOMAIN g : Got(g[i].seq)'
  BY <1>1, ArriveFacts
<1>3. \A b : Reached(b) => rx'.rxClosed \/ \A m \in Nat : m < b[1].seq => Got(m)'
  BY <1>1, <1>2 DEF Reached
<1>4. Reached(poll.frames)'
  <2>1. rx'.rxClosed \/ \A m \in Nat : m < poll'.frames[1].seq => Got(m)'  BY <1>1, <1>3
  <2> QED  BY <2>1 DEF Reached
<1>5. \A b \in Astray' : Reached(b)'
  <2> SUFFICES ASSUME NEW b \in Astray
               PROVE rx'.rxClosed \/ \A m \in Nat : m < b[1].seq => Got(m)'
    BY <1>1 DEF Astray, Reached
  <2> QED  BY <1>3 DEF Flow
<1>6. Committed'
  <2> SUFFICES ASSUME ~rx'.rxClosed, NEW m \in Nat, m < tx'.txSeq PROVE Got(m)'
    BY DEF Committed
  <2> DEFINE q == poll.snap.txSeq
             i == m - q + 1
  <2>1. /\ q \in Nat /\ g[1].seq = q /\ q + Len(g) = tx.txSeq
        /\ Len(g) \in Nat /\ DOMAIN g = 1..Len(g)
    BY <1>0, <1>1, LenProperties DEF Sound, PollShape, Polls, Batch
  <2> HIDE DEF q
  <2>2. CASE m < q  BY <1>1, <1>2, <2>1, <2>2 DEF Reached
  <2>3. CASE q <= m
    <3>1. i \in 1..Len(g) /\ q + i - 1 = m
      <4>0. Len(g) \in Nat  BY <2>1
      <4>1. PICK k \in Nat : k = Len(g)  BY <4>0, Zenon
      <4>2. q \in Nat /\ m < q + k  BY <1>1, <2>1, <4>1
      <4>3. i \in 1..k /\ q + i - 1 = m  BY <2>3, <4>2
      <4> QED  BY <4>1, <4>3
    <3> HIDE DEF i
    <3>2. g[i].seq = m  BY <1>1, <2>1, <3>1 DEF Batch
    <3>3. ~rx.rxClosed  BY <1>1
    <3> QED  BY <1>2, <2>1, <3>1, <3>2, <3>3
  <2> QED  BY <2>1, <2>2, <2>3
<1> QED  BY <1>2, <1>4, <1>5, <1>6 DEF Flow

LEMMA FlowLate ==
  ASSUME Sound, Flow, HandleLateRequest \/ EndDialForLateRequest, mishap' = {}
  PROVE  Flow'
<1>1. PICK g \in Astray :
        /\ Arrive(g) \/ EndDial(g)
        /\ late' \subseteq late /\ dials' \subseteq dials
        /\ UNCHANGED <<tx, poll, rx>>
  BY DEF HandleLateRequest, EndDialForLateRequest, Astray, clientVars
<1>2. Batch(g) /\ Reached(g)  BY DEF Sound, Flow
<1>3. /\ Receiver' /\ Opened'
      /\ \A m \in Nat : Got(m) => Got(m)'
  BY <1>1, <1>2, ArriveFacts
<1>4. \A b : Reached(b) => rx'.rxClosed \/ \A m \in Nat : m < b[1].seq => Got(m)'
  BY <1>1, <1>3 DEF Reached
<1>5. poll' # Idle => Reached(poll.frames)'
  <2>1. poll' # Idle => rx'.rxClosed \/ \A m \in Nat : m < poll'.frames[1].seq => Got(m)'
    BY <1>1, <1>4 DEF Flow
  <2> QED  BY <2>1 DEF Reached
<1>6. Committed'  BY <1>1, <1>3 DEF Flow, Committed
<1>7. \A b \in Astray' : Reached(b)'
  <2> SUFFICES ASSUME NEW b \in Astray
               PROVE rx'.rxClosed \/ \A m \in Nat : m < b[1].seq => Got(m)'
    BY <1>1 DEF Astray, Reached
  <2> QED  BY <1>4 DEF Flow
<1> QED  BY <1>3, <1>5, <1>6, <1>7 DEF Flow

(* rxLoop: the frame in hand is the one expected or an old one, and what   *)
(* the server has stays the same.                                          *)
LEMMA LoopFacts ==
  ASSUME Sound, Flow, RxLoop
  PROVE  LET f == Head(inbox)
         IN  /\ f \in Frames /\ f = inbox[1] /\ 1 \in DOMAIN inbox
             /\ f.seq <= rx.rxSeq
             /\ f.seq < rx.rxSeq => rx' = rx
             /\ f.seq = rx.rxSeq =>
                  /\ rx' = [rxSeq |-> rx.rxSeq + 1, rxQueue |-> rx'.rxQueue, rxClosed |-> f.fin]
                  /\ DOMAIN rx'.rxQueue = {}
             /\ inbox' = Tail(inbox) /\ ~rx.rxClosed
             /\ UNCHANGED <<tx, written, poll, late, dials, known, elsewhere, reset>>
<1> DEFINE f == Head(inbox)
           d == DeliverRx(rx, f)
<1>1. /\ inbox \in Seq(Frames) /\ inbox # <<>> /\ rx.rxSeq \in Nat /\ rx.rxClosed = FALSE
      /\ DOMAIN rx.rxQueue = {} /\ NoGap
  BY DEF Sound, TypeOK, Flow, Receiver, RxLoop
<1>2. f \in Frames /\ f = inbox[1] /\ 1 \in DOMAIN inbox
  BY <1>1, HeadTailProperties, EmptySeq, LenProperties
<1>3. f.seq \in Nat  BY <1>2 DEF Frames
<1>4. f.seq <= rx.rxSeq
  <2> SUFFICES ASSUME rx.rxSeq < f.seq PROVE FALSE  BY <1>1, <1>3
  <2>1. \E j \in 1..(1 - 1) : inbox[j].seq = rx.rxSeq  BY <1>1, <1>2, <1>3 DEF NoGap
  <2> QED  BY <2>1
<1>5. /\ rx' = d.rx /\ upstream' = upstream \o FlattenSeq(d.out) /\ eof' = d.closing
      /\ inbox' = Tail(inbox) /\ UNCHANGED <<tx, written, poll, late, dials, known, elsewhere, reset>>
  BY DEF RxLoop, clientVars, astrayVars
<1> HIDE DEF f
<1>6. f.seq < rx.rxSeq => d.rx = rx /\ FlattenSeq(d.out) = <<>> /\ d.closing = FALSE
  BY <1>1, DeliverOld
<1>7. f.seq = rx.rxSeq =>
        /\ d.rx = [rxSeq |-> rx.rxSeq + 1, rxQueue |-> d.rx.rxQueue, rxClosed |-> f.fin]
        /\ DOMAIN d.rx.rxQueue = {} /\ FlattenSeq(d.out) = f.payload /\ d.closing = f.fin
  BY <1>1, <1>2, DeliverNext
<1> HIDE DEF d
<1> QED  BY <1>1, <1>2, <1>4, <1>5, <1>6, <1>7 DEF f

LEMMA LoopKeeps ==
  ASSUME Sound, Flow, RxLoop
  PROVE  /\ \A m \in Nat : Got(m)' <=> Got(m)
         /\ Receiver' /\ inbox' \in Seq(Frames)
         /\ rx'.rxSeq \in Nat /\ rx'.rxClosed \in BOOLEAN
         /\ \A i \in DOMAIN inbox' : i + 1 \in DOMAIN inbox /\ inbox'[i] = inbox[i + 1]
<1> DEFINE f == Head(inbox)
<1>1. /\ f \in Frames /\ f = inbox[1] /\ 1 \in DOMAIN inbox
      /\ f.seq <= rx.rxSeq /\ inbox' = Tail(inbox) /\ ~rx.rxClosed
      /\ f.seq < rx.rxSeq => rx' = rx
      /\ f.seq = rx.rxSeq =>
           /\ rx' = [rxSeq |-> rx.rxSeq + 1, rxQueue |-> rx'.rxQueue, rxClosed |-> f.fin]
           /\ DOMAIN rx'.rxQueue = {}
  BY LoopFacts
<1>2. /\ inbox \in Seq(Frames) /\ inbox # <<>> /\ rx.rxSeq \in Nat /\ rx.rxClosed \in BOOLEAN
      /\ NoGap /\ DOMAIN rx.rxQueue = {}
  BY <1>1 DEF Sound, TypeOK, Flow, Receiver, RxLoop
<1> DEFINE l == Len(inbox)
<1>3. /\ l \in Nat /\ l >= 1 /\ DOMAIN inbox = 1..l
      /\ inbox' \in Seq(Frames) /\ Len(inbox') = l - 1
      /\ \A i \in 1..(l - 1) : inbox'[i] = inbox[i + 1]
  BY <1>1, <1>2, HeadTailProperties, LenProperties, EmptySeq
<1>4. f.seq \in Nat /\ f.fin \in BOOLEAN  BY <1>1 DEF Frames
<1> HIDE DEF f, l
<1>5. DOMAIN inbox' = 1..(l - 1)  BY <1>3, LenProperties
<1>6. \A i \in DOMAIN inbox' : i + 1 \in DOMAIN inbox /\ inbox'[i] = inbox[i + 1]
  BY <1>3, <1>5
<1>7. /\ rx'.rxSeq = IF f.seq = rx.rxSeq THEN rx.rxSeq + 1 ELSE rx.rxSeq
      /\ DOMAIN rx'.rxQueue = {}
      /\ rx'.rxClosed \in BOOLEAN
  <2>1. CASE f.seq = rx.rxSeq
    <3>1. rx'.rxSeq = rx.rxSeq + 1 /\ rx'.rxClosed = f.fin  BY <1>1, <2>1
    <3> QED  BY <1>1, <1>4, <2>1, <3>1
  <2>2. CASE f.seq # rx.rxSeq
    <3>1. rx' = rx  BY <1>1, <1>2, <1>4, <2>2
    <3> QED  BY <1>2, <2>2, <3>1
  <2> QED  BY <2>1, <2>2
<1>8. rx'.rxSeq \in Nat /\ rx.rxSeq <= rx'.rxSeq  BY <1>2, <1>7
<1>9. \A m \in Nat : Got(m)' <=> Got(m)
  <2> SUFFICES ASSUME NEW m \in Nat
               PROVE  (m < rx'.rxSeq \/ \E j \in DOMAIN inbox' : inbox'[j].seq = m)
                      <=> (m < rx.rxSeq \/ \E j \in DOMAIN inbox : inbox[j].seq = m)
    BY DEF Got
  <2>1. ASSUME m < rx'.rxSeq PROVE m < rx.rxSeq \/ \E j \in DOMAIN inbox : inbox[j].seq = m
    <3>1. m < rx.rxSeq \/ m = f.seq  BY <1>2, <1>7, <2>1
    <3> QED  BY <1>1, <3>1 DEF f
  <2>2. ASSUME NEW j \in DOMAIN inbox', inbox'[j].seq = m
        PROVE  \E i \in DOMAIN inbox : inbox[i].seq = m
    BY <1>6, <2>2
  <2>3. ASSUME m < rx.rxSeq PROVE m < rx'.rxSeq  BY <1>2, <1>8, <2>3
  <2>4. ASSUME NEW j \in DOMAIN inbox, inbox[j].seq = m
        PROVE  m < rx'.rxSeq \/ \E i \in DOMAIN inbox' : inbox'[i].seq = m
    <3>1. CASE j = 1
      <4>1. m = f.seq  BY <1>1, <2>4, <3>1
      <4> QED  BY <1>1, <1>2, <1>4, <1>7, <4>1
    <3>2. CASE j # 1
      <4>1. j - 1 \in 1..(l - 1) /\ (j - 1) + 1 = j  BY <1>3, <3>2
      <4> QED  BY <1>3, <1>5, <2>4, <4>1
    <3> QED  BY <3>1, <3>2
  <2> QED  BY <2>1, <2>2, <2>3, <2>4
<1>10. NoGap'
  <2> SUFFICES ASSUME NEW i \in DOMAIN inbox', NEW m \in Nat,
                      rx'.rxSeq <= m, m < inbox'[i].seq
               PROVE  \E j \in 1..(i - 1) : inbox'[j].seq = m
    BY DEF NoGap
  <2>1. inbox'[i] = inbox[i + 1] /\ i + 1 \in DOMAIN inbox /\ i \in 1..(l - 1)
    BY <1>5, <1>6
  <2>2. rx.rxSeq <= m  BY <1>2, <1>8
  <2>3. PICK j \in 1..((i + 1) - 1) : inbox[j].seq = m  BY <1>2, <2>1, <2>2 DEF NoGap
  <2>4. j # 1
    <3> SUFFICES ASSUME j = 1 PROVE FALSE  OBVIOUS
    <3>1. m = f.seq  BY <1>1, <2>3
    <3> QED  BY <1>1, <1>2, <1>4, <1>7, <2>2, <3>1
  <2>5. j - 1 \in 1..(i - 1) /\ j - 1 \in 1..(l - 1) /\ (j - 1) + 1 = j
    <3>1. l \in Nat  BY <1>3
    <3>2. i \in 1..(l - 1) /\ j \in 1..((i + 1) - 1) /\ j # 1  BY <2>1, <2>4
    <3> QED  BY <3>1, <3>2
  <2> QED  BY <1>3, <2>3, <2>5
<1> QED  BY <1>3, <1>6, <1>7, <1>8, <1>9, <1>10 DEF Receiver

LEMMA FlowRxLoop == ASSUME Sound, Flow, RxLoop PROVE Flow'
<1>1. /\ \A m \in Nat : Got(m)' <=> Got(m)
      /\ Receiver'
  BY LoopKeeps
<1>2. ~rx.rxClosed /\ inbox # <<>> /\ UNCHANGED <<tx, poll, late, dials, known, elsewhere, reset>>
  BY LoopShape
<1>3. Opened'  BY <1>2 DEF Flow, Opened
<1>4. \A b : Reached(b) => \A m \in Nat : m < b[1].seq => Got(m)'  BY <1>1, <1>2 DEF Reached
<1>5. poll' # Idle => Reached(poll.frames)'
  <2>1. poll' # Idle => \A m \in Nat : m < poll'.frames[1].seq => Got(m)'
    BY <1>2, <1>4 DEF Flow
  <2> QED  BY <2>1 DEF Reached
<1>6. Committed'  BY <1>1, <1>2 DEF Flow, Committed
<1>7. \A b \in Astray' : Reached(b)'
  <2> SUFFICES ASSUME NEW b \in Astray PROVE \A m \in Nat : m < b[1].seq => Got(m)'
    BY <1>2 DEF Astray, Reached
  <2> QED  BY <1>4 DEF Flow
<1> QED  BY <1>1, <1>3, <1>5, <1>6, <1>7 DEF Flow

Calm == mishap = {} => Flow

LEMMA CalmStep == Sound /\ Calm /\ [Next]_vars => Calm'
<1> SUFFICES ASSUME Sound, Calm, [Next]_vars, mishap' = {} PROVE Flow'  BY DEF Calm
<1>0. Flow  BY MishapsStay DEF Calm
<1>1. ASSUME NEW n \in 1..MaxWrite, Write(n) PROVE Flow'
  <2>1. tx'.txSeq = tx.txSeq /\ UNCHANGED <<poll, late, dials, serverVars>>
    BY <1>1, WriteFacts DEF Sound
  <2> QED  BY <1>0, <2>1, FlowOfTx
<1>2. CASE CloseWrite
  <2>1. tx'.txSeq = tx.txSeq /\ UNCHANGED <<poll, late, dials, serverVars>>
    BY <1>2, CloseFacts DEF Sound
  <2> QED  BY <1>0, <2>1, FlowOfTx
<1>3. CASE CommitBlind  BY <1>3 DEF CommitBlind
<1>4. CASE DialForLateRequest
  <2>1. UNCHANGED <<tx, poll, serverVars>> /\ Astray' \subseteq Astray
    BY <1>4 DEF DialForLateRequest, clientVars, Astray
  <2> QED  BY <1>0, <2>1, FlowRests DEF Flow, Committed
<1>5. CASE UNCHANGED vars
  <2>1. tx' = tx /\ UNCHANGED <<poll, late, dials, serverVars>>
    BY <1>5 DEF vars, clientVars, astrayVars
  <2> QED  BY <1>0, <2>1, FlowOfTx
<1> QED
  BY <1>0, <1>1, <1>2, <1>3, <1>4, <1>5, FlowDrain, FlowRollback, FlowWorker, FlowRequest,
     FlowLate, FlowRxLoop DEF Next

LEMMA CalmHolds == Spec => [](Sound /\ Calm)
<1>1. Init => Calm  BY InitFlow DEF Calm
<1> QED  BY <1>1, CalmStep, SoundHolds, PTL DEF Spec

(* Until a batch is committed blindly, a dial is refused or the session is *)
(* opened a second time, routeIncoming never answers the session with RST, *)
(* whatever is dropped, delayed or given up: the first request it can see  *)
(* carries the SYN.                                                        *)
THEOREM SynIsFirst == Spec => []SynComesFirst
<1>1. Calm => SynComesFirst  BY DEF Calm, Flow, Opened, SynComesFirst
<1> QED  BY <1>1, CalmHolds, PTL

---------------------------------------------------------------------------
(* Ordered: under rollbackDrained's premise the FIN is the last frame, and *)
(* what the server may have seen is never wound back.                      *)

LEMMA InitOrdered == Init => Ordered
<1> SUFFICES ASSUME Init PROVE Ordered  OBVIOUS
<1>1. inbox = <<>> /\ rx.rxQueue = <<>> /\ late = {} /\ dials = {} /\ poll = Idle
  BY DEF Init, NewRx
<1>2. DOMAIN <<>> = {}  OBVIOUS
<1>3. /\ tx.txSeq = 0 /\ tx.finSent = FALSE /\ rx.rxSeq = 0 /\ rx.rxClosed = FALSE /\ eof = FALSE
  BY DEF Init, NewTx, NewRx
<1>4. Limit = 0  BY <1>1, <1>3 DEF Limit
<1>5. PollKnown  BY <1>1 DEF PollKnown
<1>6. Ending
  <2>1. 0 <= 0  OBVIOUS
  <2> QED  BY <1>3, <1>4, <2>1 DEF Ending
<1> QED  BY <1>1, <1>2, <1>5, <1>6 DEF Ordered, AllShown, Astray

LEMMA LimitFacts ==
  ASSUME Sound
  PROVE  Limit \in Nat /\ tx.txSeq \in Nat /\ Limit <= tx.txSeq
<1>1. tx.txSeq \in Nat  BY FrameTypes DEF TxRecord
<1>2. CASE poll # Idle /\ ~Seen
  <2>1. poll.snap.txSeq \in Nat /\ poll.snap.txSeq < tx.txSeq  BY <1>2, BatchBelow
  <2>2. Limit = poll.snap.txSeq  BY <1>2 DEF Limit
  <2> QED  BY <1>1, <2>1, <2>2
<1>3. CASE ~(poll # Idle /\ ~Seen)
  <2>1. Limit = tx.txSeq  BY <1>3 DEF Limit
  <2> QED  BY <1>1, <2>1
<1> QED  BY <1>2, <1>3

LEMMA ShownStays ==
  ASSUME Sound, Ordered, UNCHANGED <<late, dials, serverVars>>,
         \A f : f.seq \in Nat /\ Shown(f) => Shown(f)'
  PROVE  AllShown'
<1>1. inbox' = inbox /\ rx' = rx /\ Astray' = Astray  BY DEF serverVars, Astray
<1>2. ASSUME NEW i \in DOMAIN inbox' PROVE Shown(inbox[i])'
  <2>1. PICK f : f = inbox'[i]  OBVIOUS
  <2>2. f.seq \in Nat /\ Shown(f)  BY <1>1, <2>1, FrameTypes DEF Ordered, AllShown
  <2>3. Shown(f)'  BY <2>2
  <2> QED  BY <2>1, <2>3 DEF Shown, EndsWithFin
<1>3. ASSUME NEW m \in DOMAIN rx'.rxQueue PROVE Shown(rx.rxQueue[m])'
  <2>1. PICK f : f = rx'.rxQueue[m]  OBVIOUS
  <2>2. f.seq \in Nat /\ Shown(f)  BY <1>1, <2>1, FrameTypes DEF Ordered, AllShown
  <2>3. Shown(f)'  BY <2>2
  <2> QED  BY <2>1, <2>3 DEF Shown, EndsWithFin
<1>4. ASSUME NEW b \in Astray', NEW i \in DOMAIN b PROVE Shown(b[i])'
  <2>1. b[i].seq \in Nat /\ Shown(b[i])  BY <1>1, FrameTypes DEF Ordered, AllShown, Sound
  <2> QED  BY <2>1
<1> QED  BY <1>2, <1>3, <1>4 DEF AllShown

(* The application's steps. *)
LEMMA OrderedOfTx ==
  ASSUME Sound, Ordered, UNCHANGED <<poll, late, dials, serverVars>>,
         tx'.txSeq = tx.txSeq, tx'.finSent = tx.finSent,
         tx'.finSent => tx'.closeReq /\ tx'.txBuf = <<>>
  PROVE  Ordered'
<1>1. Limit' = Limit  BY DEF Limit, Seen
<1>2. AllShown'
  <2>1. \A f : f.seq \in Nat /\ Shown(f) => Shown(f)'  BY <1>1 DEF Shown, EndsWithFin
  <2> QED  BY <2>1, ShownStays
<1>3. PollKnown'  BY DEF Ordered, PollKnown, EndsWithFin
<1>4. Ending'  BY <1>1 DEF Ordered, Ending, serverVars
<1> QED  BY <1>2, <1>3, <1>4 DEF Ordered

LEMMA OrderedWrite == ASSUME Sound, Ordered, NEW n \in 1..MaxWrite, Write(n) PROVE Ordered'
<1>1. /\ tx'.txSeq = tx.txSeq /\ tx'.finSent = tx.finSent /\ tx'.closeReq = tx.closeReq
      /\ tx' = tx \/ tx.synNeeded \/ ~tx.closeReq
      /\ UNCHANGED <<poll, late, dials, serverVars>>
  BY WriteFacts DEF Sound
<1>2. tx.finSent => tx.closeReq /\ tx.txBuf = <<>> /\ ~tx.synNeeded
  BY DEF Ordered, Ending, Sound
<1>3. tx'.finSent => tx'.closeReq /\ tx'.txBuf = <<>>  BY <1>1, <1>2
<1> QED  BY <1>1, <1>3, OrderedOfTx

LEMMA OrderedClose == ASSUME Sound, Ordered, CloseWrite PROVE Ordered'
<1>1. /\ tx'.txSeq = tx.txSeq /\ tx'.finSent = tx.finSent /\ tx'.closeReq = TRUE
      /\ tx'.txBuf = tx.txBuf /\ UNCHANGED <<poll, late, dials, serverVars>>
  BY CloseFacts DEF Sound
<1>2. tx'.finSent => tx'.closeReq /\ tx'.txBuf = <<>>  BY <1>1 DEF Ordered, Ending
<1> QED  BY <1>1, <1>2, OrderedOfTx

LEMMA OrderedRollback == ASSUME Sound, Ordered, Rollback PROVE Ordered'
<1> DEFINE q == poll.snap.txSeq
<1>0. /\ poll \in Polls /\ poll # Idle /\ poll.st = "failed" /\ poll' = Idle
      /\ tx' \in TxRecord /\ tx'.txSeq = q
      /\ tx'.finSent = (tx.finSent /\ poll.snap.finSent)
      /\ UNCHANGED <<late, dials, serverVars>>
  BY RollbackFacts DEF Sound
<1>1. ~Seen /\ ~tx'.finSent  BY <1>0 DEF Ordered, PollKnown, Seen
<1>2. Limit = q /\ Limit' = q  BY <1>0, <1>1 DEF Limit
<1>3. q \in Nat /\ tx.txSeq \in Nat /\ rx.rxSeq \in Nat /\ q < tx.txSeq
  BY <1>0, BatchBelow, FrameTypes DEF TxRecord
<1> HIDE DEF q
<1>4. ASSUME NEW f, f.seq \in Nat, Shown(f) PROVE Shown(f)'
  <2>1. f.seq < q /\ f.seq + 1 # tx.txSeq  BY <1>2, <1>3, <1>4 DEF Shown
  <2>2. ~f.fin  BY <1>4, <2>1 DEF Shown, EndsWithFin
  <2> QED  BY <1>2, <2>1, <2>2 DEF Shown, EndsWithFin
<1>5. AllShown'  BY <1>0, <1>4, ShownStays
<1>6. PollKnown'  BY <1>0 DEF PollKnown
<1>7. Ending'
  <2>1. rx.rxSeq <= q /\ (rx.rxClosed => rx.rxSeq = tx.txSeq) /\ eof = rx.rxClosed
    BY <1>2 DEF Ordered, Ending
  <2>2. ~rx.rxClosed  BY <1>3, <2>1
  <2> QED  BY <1>0, <1>1, <1>2, <2>1, <2>2 DEF Ending, serverVars
<1> QED  BY <1>5, <1>6, <1>7 DEF Ordered

(* A session that has sent its FIN has nothing to drain, so the FIN is the *)
(* last frame.                                                             *)
LEMMA OrderedDrain == ASSUME Sound, Ordered, Drain PROVE Ordered'
<1> DEFINE d == DrainTx(tx, MaxPayload, MaxFrames)
           n == Least(MaxFrames, DataFrames(tx, MaxPayload))
           taken == Least(n * MaxPayload, Len(tx.txBuf))
           fin == FinPending(tx) /\ n < MaxFrames
           k == Len(d.frames)
<1>0. /\ poll = Idle /\ HasPendingTx(tx) /\ tx' = d.sess
      /\ poll' \in Polls /\ poll'.st = "ready" /\ poll'.leaked = FALSE
      /\ poll'.frames = d.frames /\ poll'.snap = tx
      /\ Batch(d.frames)
      /\ tx'.txSeq = tx.txSeq + k /\ tx'.txSeq # 0
      /\ UNCHANGED <<late, dials, serverVars>>
  BY DrainFacts
<1>1. tx \in TxRecord /\ tx.txSeq \in Nat /\ rx.rxSeq \in Nat /\ (tx.synNeeded <=> tx.txSeq = 0)
  BY FrameTypes DEF Sound, TxRecord
<1>2. ~tx.finSent  BY <1>0, <1>1 DEF HasPendingTx, FinPending, Ordered, Ending
<1>3. /\ n \in Nat /\ taken \in 0..Len(tx.txBuf) /\ (n < MaxFrames => taken = Len(tx.txBuf))
  BY <1>1, DrainCounts, Constants
<1>4. /\ k = n + (IF fin THEN 1 ELSE 0)
      /\ \A i \in 1..k : d.frames[i].seq = tx.txSeq + i - 1 /\ d.frames[i].fin = (fin /\ i = n + 1)
      /\ d.sess.txBuf = SubSeq(tx.txBuf, taken + 1, Len(tx.txBuf))
      /\ d.sess.closeReq = tx.closeReq
      /\ d.sess.finSent = (tx.finSent \/ fin)
  BY <1>1, DrainShape
<1>5. fin => tx.closeReq /\ d.sess.txBuf = <<>>
  <2> SUFFICES ASSUME fin PROVE tx.closeReq /\ d.sess.txBuf = <<>>  OBVIOUS
  <2>1. Len(tx.txBuf) \in Nat  BY <1>1, LenProperties DEF TxRecord
  <2>2. SubSeq(tx.txBuf, Len(tx.txBuf) + 1, Len(tx.txBuf)) = <<>>  BY <2>1, SubSeqEmpty
  <2> QED  BY <1>3, <1>4, <2>2 DEF FinPending
<1>6. k \in Nat /\ DOMAIN d.frames = 1..k  BY <1>0, LenProperties DEF Batch
<1> HIDE DEF d, n, taken, fin, k
<1>7. tx'.finSent <=> fin  BY <1>0, <1>2, <1>4
<1>8. poll' # Idle /\ ~Seen' /\ Limit' = tx.txSeq /\ Limit = tx.txSeq
  BY <1>0, PollNotIdle DEF Seen, Limit
<1>9. ASSUME NEW f, f.seq \in Nat, Shown(f) PROVE Shown(f)'
  <2>1. f.seq < tx.txSeq /\ ~f.fin  BY <1>2, <1>8, <1>9 DEF Shown, EndsWithFin
  <2> QED  BY <1>8, <2>1 DEF Shown, EndsWithFin
<1>10. AllShown'  BY <1>0, <1>9, ShownStays
<1>11. PollKnown'
  <2>1. ASSUME NEW i \in 1..k, d.frames[i].fin
        PROVE  tx'.finSent /\ d.frames[i].seq + 1 = tx'.txSeq
    <3>1. fin /\ i = k  BY <1>3, <1>4, <2>1
    <3>2. d.frames[i].seq = tx.txSeq + k - 1  BY <1>4, <3>1
    <3> QED  BY <1>0, <1>1, <1>6, <1>7, <3>1, <3>2
  <2> QED  BY <1>0, <1>2, <1>6, <2>1 DEF PollKnown, EndsWithFin
<1>12. Ending'
  <2>1. rx.rxSeq <= Limit' /\ ~rx.rxClosed  BY <1>2, <1>8 DEF Ordered, Ending
  <2>2. tx'.finSent => tx'.closeReq /\ tx'.txBuf = <<>> /\ tx'.txSeq # 0
    BY <1>0, <1>4, <1>5, <1>7
  <2> QED  BY <1>0, <2>1, <2>2 DEF Ordered, Ending, serverVars
<1> QED  BY <1>10, <1>11, <1>12 DEF Ordered

LEMMA OrderedMoves == ASSUME Premise, Sound, Ordered, Moving PROVE Ordered'
<1>1. /\ UNCHANGED <<tx, written, rx, upstream, eof>>
      /\ PollMoves /\ AstrayMoves /\ InboxMoves /\ Sound'
  BY MoveFacts, SoundMoves
<1>2. Limit <= Limit' /\ Limit \in Nat /\ Limit' \in Nat
  <2>1. Limit \in Nat /\ Limit <= tx.txSeq /\ tx.txSeq \in Nat  BY LimitFacts
  <2>2. CASE poll' = Idle \/ Seen'
    <3>1. Limit' = tx.txSeq  BY <1>1, <2>2 DEF Limit
    <3> QED  BY <2>1, <3>1
  <2>3. CASE ~(poll' = Idle \/ Seen')
    <3>1. Limit' = poll.snap.txSeq /\ Limit = poll.snap.txSeq
      BY <1>1, <2>3 DEF Limit, PollMoves
    <3> QED  BY <2>1, <3>1
  <2> QED  BY <2>2, <2>3
<1>3. ASSUME NEW f, f.seq \in Nat, Shown(f) PROVE Shown(f)'
  BY <1>1, <1>2, <1>3 DEF Shown, EndsWithFin
<1>4. ASSUME poll # Idle, poll' = Idle \/ Seen', NEW j \in DOMAIN poll.frames,
             NEW f, f = poll.frames[j]
      PROVE  Shown(f)'
  <2>1. Limit' = tx.txSeq  BY <1>1, <1>4 DEF Limit
  <2>2. f.seq < tx.txSeq  BY <1>4, BatchBelow
  <2>3. EndsWithFin(f)  BY <1>4 DEF Ordered, PollKnown
  <2> QED  BY <1>1, <2>1, <2>2, <2>3 DEF Shown, EndsWithFin
<1>5. ASSUME NEW i \in DOMAIN inbox' PROVE Shown(inbox[i])'
  <2>1. PICK f : f = inbox'[i]  OBVIOUS
  <2>2. CASE \E j \in DOMAIN inbox : f = inbox[j]
    <3>1. f.seq \in Nat /\ Shown(f)  BY <2>2, FrameTypes DEF Ordered, AllShown
    <3> QED  BY <1>3, <2>1, <3>1 DEF Shown, EndsWithFin
  <2>3. CASE \E b \in Astray : \E j \in DOMAIN b : f = b[j]
    <3>1. f.seq \in Nat /\ Shown(f)  BY <2>3, FrameTypes DEF Ordered, AllShown, Sound
    <3> QED  BY <1>3, <2>1, <3>1 DEF Shown, EndsWithFin
  <2>4. CASE poll # Idle /\ Seen' /\ \E j \in DOMAIN poll.frames : f = poll.frames[j]
    <3>1. Shown(f)'  BY <1>4, <2>4
    <3> QED  BY <2>1, <3>1 DEF Shown, EndsWithFin
  <2> QED  BY <1>1, <2>1, <2>2, <2>3, <2>4 DEF InboxMoves
<1>6. ASSUME NEW m \in DOMAIN rx'.rxQueue PROVE Shown(rx.rxQueue[m])'
  <2>1. PICK f : f = rx'.rxQueue[m]  OBVIOUS
  <2>2. f.seq \in Nat /\ Shown(f)  BY <1>1, <2>1, FrameTypes DEF Ordered, AllShown
  <2> QED  BY <1>3, <2>1, <2>2 DEF Shown, EndsWithFin
<1>7. ASSUME NEW b \in Astray', NEW i \in DOMAIN b PROVE Shown(b[i])'
  <2>1. CASE b \in Astray
    <3>1. b[i].seq \in Nat /\ Shown(b[i])  BY <2>1, FrameTypes DEF Ordered, AllShown, Sound
    <3> QED  BY <1>3, <3>1
  <2>2. CASE poll # Idle /\ b = poll.frames /\ (poll' = Idle \/ Seen')  BY <1>4, <2>2
  <2> QED  BY <1>1, <2>1, <2>2 DEF AstrayMoves
<1>8. PollKnown'
  <2> SUFFICES ASSUME poll' # Idle PROVE PollKnown'  BY DEF PollKnown
  <2>1. /\ poll # Idle /\ poll'.frames = poll.frames /\ poll'.snap = poll.snap
        /\ poll'.st = "failed" => ~poll'.leaked \/ poll' = poll
    BY <1>1 DEF PollMoves
  <2> QED  BY <1>1, <2>1 DEF Ordered, PollKnown, EndsWithFin
<1>9. Ending'
  <2>1. rx.rxSeq <= Limit'
    <3>1. rx.rxSeq \in Nat /\ rx.rxSeq <= Limit  BY FrameTypes DEF Ordered, Ending
    <3> QED  BY <1>2, <3>1
  <2> QED  BY <1>1, <2>1 DEF Ordered, Ending
<1> QED  BY <1>5, <1>6, <1>7, <1>8, <1>9 DEF Ordered, AllShown

LEMMA OrderedRxLoop == ASSUME Sound, Ordered, RxLoop PROVE Ordered'
<1>1. /\ UNCHANGED <<tx, poll, late, dials>> /\ rx' \in RxRecord
      /\ \A i \in DOMAIN inbox' : Arrived(inbox'[i])
      /\ \A m \in DOMAIN rx'.rxQueue : Arrived(rx'.rxQueue[m])
      /\ \/ rx'.rxSeq = rx.rxSeq /\ rx'.rxClosed = FALSE /\ eof' = FALSE
         \/ \E run \in Seq(Frames) :
              /\ Len(run) >= 1
              /\ \A i \in 1..Len(run) : Arrived(run[i]) /\ run[i].seq = rx.rxSeq + i - 1
              /\ rx'.rxSeq = rx.rxSeq + Len(run)
              /\ rx'.rxClosed = run[Len(run)].fin /\ eof' = run[Len(run)].fin
  BY LoopShape
<1>2. Limit' = Limit  BY <1>1 DEF Limit, Seen
<1>3. \A f : Shown(f)' <=> Shown(f)  BY <1>1, <1>2 DEF Shown, EndsWithFin
<1>4. \A f : Arrived(f) => Shown(f)  BY DEF Arrived, Ordered, AllShown
<1>5. ASSUME NEW i \in DOMAIN inbox' PROVE Shown(inbox[i])'
  <2>1. PICK f : f = inbox'[i]  OBVIOUS
  <2>2. Shown(f)'  BY <1>1, <1>3, <1>4, <2>1
  <2> QED  BY <2>1, <2>2 DEF Shown, EndsWithFin
<1>6. ASSUME NEW m \in DOMAIN rx'.rxQueue PROVE Shown(rx.rxQueue[m])'
  <2>1. PICK f : f = rx'.rxQueue[m]  OBVIOUS
  <2>2. Shown(f)'  BY <1>1, <1>3, <1>4, <2>1
  <2> QED  BY <2>1, <2>2 DEF Shown, EndsWithFin
<1>7. ASSUME NEW b \in Astray', NEW i \in DOMAIN b PROVE Shown(b[i])'
  BY <1>1, <1>3 DEF Astray, Ordered, AllShown
<1>8. PollKnown'  BY <1>1 DEF Ordered, PollKnown, EndsWithFin
<1>9. rx'.rxSeq <= Limit /\ (rx'.rxClosed => tx.finSent /\ rx'.rxSeq = tx.txSeq)
      /\ eof' = rx'.rxClosed
  <2>1. CASE rx'.rxSeq = rx.rxSeq /\ rx'.rxClosed = FALSE /\ eof' = FALSE
    BY <2>1 DEF Ordered, Ending
  <2>2. ASSUME NEW run \in Seq(Frames), Len(run) >= 1,
               \A i \in 1..Len(run) : Arrived(run[i]) /\ run[i].seq = rx.rxSeq + i - 1,
               rx'.rxSeq = rx.rxSeq + Len(run),
               rx'.rxClosed = run[Len(run)].fin, eof' = run[Len(run)].fin
        PROVE  rx'.rxSeq <= Limit /\ (rx'.rxClosed => tx.finSent /\ rx'.rxSeq = tx.txSeq)
               /\ eof' = rx'.rxClosed
    <3> DEFINE k == Len(run)
               f == run[k]
    <3>1. k \in Nat /\ k \in 1..k  BY <2>2, LenProperties
    <3>2. f.seq = rx.rxSeq + k - 1 /\ Shown(f)  BY <1>4, <2>2, <3>1
    <3> HIDE DEF k
    <3>3. rx.rxSeq \in Nat /\ Limit \in Nat  BY FrameTypes, LimitFacts
    <3>4. rx'.rxSeq = rx.rxSeq + k /\ rx'.rxClosed = f.fin /\ eof' = f.fin  BY <2>2 DEF k
    <3> HIDE DEF f
    <3>5. rx'.rxSeq = f.seq + 1 /\ f.seq \in Int
      <4>1. \A x, y \in Nat : x + y = (x + y - 1) + 1 /\ x + y - 1 \in Int  OBVIOUS
      <4> QED  BY <3>1, <3>2, <3>3, <3>4, <4>1
    <3>6. f.seq < Limit /\ (f.fin => tx.finSent /\ f.seq + 1 = tx.txSeq)
      BY <3>2 DEF Shown, EndsWithFin
    <3> QED  BY <3>3, <3>4, <3>5, <3>6
  <2> QED  BY <1>1, <2>1, <2>2
<1>10. Ending'  BY <1>1, <1>2, <1>9 DEF Ordered, Ending
<1> QED  BY <1>5, <1>6, <1>7, <1>8, <1>10 DEF Ordered, AllShown

LEMMA OrderedStep ==
  ASSUME Premise
  PROVE  Sound /\ Ordered /\ [Next]_vars => Ordered'
BY Premise, NextCases, OrderedWrite, OrderedClose, OrderedDrain, OrderedRollback, OrderedMoves,
   OrderedRxLoop

LEMMA OrderedHolds ==
  ASSUME Premise
  PROVE  Spec => [](Sound /\ Calm /\ Ordered)
<1>1. Sound /\ Ordered /\ [Next]_vars => Ordered'  BY OrderedStep
<1> QED  BY <1>1, InitOrdered, CalmHolds, PTL DEF Spec

(* Without a mishap, and as long as a poll that is rolled back never       *)
(* reached the server, client and server agree on the next sequence number *)
(* whenever no batch is in flight, for every batch size and also when a    *)
(* drain was cut short: the partial rollback that doubles bytes does not   *)
(* disturb the numbering.                                                  *)
THEOREM NumbersAgree ==
  ASSUME Premise
  PROVE  Spec => []SeqAgreement
<1>1. Sound /\ Calm /\ Ordered => SeqAgreement
  <2> SUFFICES ASSUME Sound, Flow, Ordered, poll = Idle
               PROVE  tx.txSeq = Max({rx.rxSeq} \cup {inbox[i].seq + 1 : i \in DOMAIN inbox})
    BY DEF SeqAgreement, Calm
  <2> DEFINE T == {rx.rxSeq} \cup {inbox[i].seq + 1 : i \in DOMAIN inbox}
             q == tx.txSeq
  <2>1. /\ q \in Nat /\ rx.rxSeq \in Nat /\ rx.rxSeq <= q
        /\ \A i \in DOMAIN inbox : inbox[i].seq \in Nat /\ inbox[i].seq < q
    BY FrameTypes DEF TxRecord, Ordered, AllShown, Shown, Ending, Limit
  <2>0. rx.rxClosed => rx.rxSeq = q  BY DEF Ordered, Ending
  <2> HIDE DEF q
  <2>2. T \subseteq Nat /\ \A y \in T : y <= q  BY <2>1
  <2>3. q \in T
    <3>1. CASE q = 0  BY <2>1, <3>1
    <3>2. CASE q # 0
      <4>1. q - 1 \in Nat /\ q - 1 < q /\ (q - 1) + 1 = q  BY <2>1, <3>2
      <4>2. rx.rxClosed \/ Got(q - 1)  BY <4>1 DEF q, Flow, Committed
      <4>3. CASE q - 1 < rx.rxSeq
        <5>1. rx.rxSeq = q  BY <2>1, <4>3
        <5> QED  BY <5>1
      <4>4. CASE \E j \in DOMAIN inbox : inbox[j].seq = q - 1  BY <4>1, <4>4
      <4>5. CASE rx.rxClosed  BY <2>0, <4>5
      <4> QED  BY <4>2, <4>3, <4>4, <4>5 DEF Got
    <3> QED  BY <3>1, <3>2
  <2> HIDE DEF T
  <2>4. \A x \in T : (\A y \in T : x >= y) => x = q  BY <2>1, <2>2, <2>3
  <2>5. Max(T) = q  BY <2>1, <2>2, <2>3, <2>4 DEF Max
  <2> QED  BY <2>5 DEF T, q
<1> QED  BY <1>1, OrderedHolds, PTL

---------------------------------------------------------------------------
(* Positions: which bytes each sequence number stands for.                 *)

Carries(f, o) == f.payload = Span(o[f.seq], o[f.seq + 1])

(* The bytes before o[m] are those of the frames numbered below m. *)
Positions(o) ==
  /\ o \in [Nat -> Nat]
  /\ \A m, k \in Nat : m <= k => o[m] <= o[k]
  /\ written = Span(0, Len(written))
  /\ o[tx.txSeq] <= Len(written)
  /\ tx.txBuf = Span(o[tx.txSeq], Len(written))
  /\ upstream = Span(0, o[rx.rxSeq])
  /\ \A i \in DOMAIN inbox : Carries(inbox[i], o)
  /\ \A m \in DOMAIN rx.rxQueue : Carries(rx.rxQueue[m], o)
  /\ \A b \in Astray : \A i \in DOMAIN b : Carries(b[i], o)
  /\ poll # Idle => \A i \in DOMAIN poll.frames : Carries(poll.frames[i], o)

Placed == \E o \in [Nat -> Nat] : Positions(o)

(* One batch takes everything that waits in txBuf. *)
Fits == Len(tx.txBuf) <= MaxFrames * MaxPayload

(* The payloads of a batch are the bytes between its ends. *)
LEMMA FlattenBatch ==
  ASSUME NEW b, Batch(b), NEW o \in [Nat -> Nat], \A m, k \in Nat : m <= k => o[m] <= o[k],
         b[1].seq \in Nat, \A i \in DOMAIN b : Carries(b[i], o)
  PROVE  FlattenSeq([i \in DOMAIN b |-> b[i].payload]) = Span(o[b[1].seq], o[b[1].seq + Len(b)])
<1> DEFINE q == b[1].seq
           k == Len(b)
           p == [i \in DOMAIN b |-> b[i].payload]
<1>1. /\ k \in Nat /\ k >= 1 /\ DOMAIN b = 1..k /\ q \in Nat
      /\ \A i \in 1..k : b[i].seq = q + i - 1
  BY LenProperties DEF Batch
<1> HIDE DEF q, k
<1>2. \A i \in 1..k : p[i] = Span(o[q + i - 1], o[q + i])
  <2> SUFFICES ASSUME NEW i \in 1..k PROVE p[i] = Span(o[q + i - 1], o[q + i])  OBVIOUS
  <2>1. b[i].seq = q + i - 1 /\ q + i - 1 + 1 = q + i  BY <1>1
  <2>2. b[i].payload = Span(o[q + i - 1], o[q + i - 1 + 1])  BY <1>1, <2>1 DEF Carries
  <2>3. p[i] = b[i].payload  BY <1>1
  <2> QED  BY <2>1, <2>2, <2>3
<1>3. p \in Seq(Seq(Nat)) /\ Len(p) = k
  <2>1. p \in [1..k -> Seq(Nat)]
    <3>1. \A i \in 1..k : b[i].payload \in Seq(Nat)
      <4>1. \A i \in 1..k : b[i] \in Frames  BY <1>1, ElementOfSeq DEF Batch
      <4> QED  BY <4>1 DEF Frames
    <3> QED  BY <1>1, <3>1
  <2> HIDE DEF p
  <2> QED  BY <1>1, <2>1, FunctionIsSequence
<1> HIDE DEF p
<1>4. PICK h : h[1] = p[1] /\ (\A i \in 2..k : h[i] = h[i - 1] \o p[i]) /\ FlattenSeq(p) = h[k]
  <2>1. Len(p) # 0  BY <1>1, <1>3
  <2>2. \E h : h[1] = p[1] /\ (\A i \in 2..Len(p) : h[i] = h[i - 1] \o p[i])
               /\ FlattenSeq(p) = h[Len(p)]
    BY <1>3, <2>1, FlattenSteps
  <2> QED  BY <1>3, <2>2
<1>5. \A i \in 1..k : h[i] = Span(o[q], o[q + i])
  <2> DEFINE T == {i \in 1..k : h[i] # Span(o[q], o[q + i])}
  <2> SUFFICES ASSUME T # {} PROVE FALSE  OBVIOUS
  <2>1. T \in SUBSET Nat  BY <1>1
  <2>2. PICK i \in T : \A j \in T : i <= j
    <3> HIDE DEF T
    <3> QED  BY <2>1, LeastElement
  <2>3. i \in 1..k /\ h[i] # Span(o[q], o[q + i])  OBVIOUS
  <2>4. i # 1
    <3>1. 1 \in 1..k /\ q + 1 - 1 = q  BY <1>1
    <3>2. p[1] = Span(o[q + 1 - 1], o[q + 1])  BY <1>2, <3>1
    <3>3. h[1] = Span(o[q], o[q + 1])  BY <1>4, <3>1, <3>2
    <3> QED  BY <2>3, <3>3
  <2>5. i - 1 \in 1..k /\ ~(i <= i - 1) /\ i \in 2..k /\ q + (i - 1) = q + i - 1
    BY <1>1, <2>3, <2>4
  <2>6. i - 1 \notin T  BY <2>2, <2>5
  <2>7. h[i - 1] = Span(o[q], o[q + i - 1])  BY <2>5, <2>6
  <2>8. /\ o[q] \in Nat /\ o[q + i - 1] \in Nat /\ o[q + i] \in Nat
        /\ o[q] <= o[q + i - 1] /\ o[q + i - 1] <= o[q + i]
    <3>0. q \in Nat /\ i \in Nat /\ i >= 1  BY <1>1, <2>3
    <3>1. /\ q + i \in Nat /\ q + i - 1 \in Nat /\ q <= q + i - 1 /\ q + i - 1 <= q + i
      BY <3>0
    <3> QED  BY <1>1, <3>1
  <2>9. h[i] = Span(o[q], o[q + i - 1]) \o Span(o[q + i - 1], o[q + i])
    BY <1>2, <1>4, <2>3, <2>5, <2>7
  <2> QED  BY <2>3, <2>8, <2>9, SpanConcat
<1>6. k \in 1..k  BY <1>1
<1>7. FlattenSeq(p) = Span(o[q], o[q + k])  BY <1>4, <1>5, <1>6
<1> QED  BY <1>7 DEF p, q, k

LEMMA InitPlaced == Init => Placed
<1> SUFFICES ASSUME Init PROVE Placed  OBVIOUS
<1> DEFINE o == [m \in Nat |-> 0]
<1>1. /\ tx.txSeq = 0 /\ tx.txBuf = <<>> /\ rx.rxSeq = 0 /\ poll = Idle /\ Astray = {}
      /\ DOMAIN inbox = {} /\ DOMAIN rx.rxQueue = {} /\ written = <<>> /\ upstream = <<>>
  BY DEF Init, NewTx, NewRx, Astray
<1>2. Span(0, 0) = <<>> /\ Len(written) = 0  BY <1>1, SpanEmpty, EmptySeq
<1>3. o \in [Nat -> Nat] /\ o[0] = 0 /\ \A m, k \in Nat : m <= k => o[m] <= o[k]  OBVIOUS
<1>4. 0 <= 0  OBVIOUS
<1> HIDE DEF o
<1>5. Positions(o)  BY <1>1, <1>2, <1>3, <1>4, Zenon DEF Positions
<1> QED  BY <1>3, <1>5 DEF Placed

LEMMA PositionFacts ==
  ASSUME Sound, NEW o, Positions(o)
  PROVE  /\ tx.txSeq \in Nat /\ rx.rxSeq \in Nat /\ Len(written) \in Nat
         /\ o[tx.txSeq] \in Nat /\ o[rx.rxSeq] \in Nat
         /\ written \in Seq(Nat) /\ upstream \in Seq(Nat) /\ Len(upstream) = o[rx.rxSeq]
         /\ Len(tx.txBuf) = Len(written) - o[tx.txSeq]
<1>1. /\ tx.txSeq \in Nat /\ rx.rxSeq \in Nat /\ Len(written) \in Nat
      /\ written \in Seq(Nat) /\ upstream \in Seq(Nat) /\ 0 \in Nat
  BY LenProperties DEF Sound, TypeOK
<1>2. o[tx.txSeq] \in Nat /\ o[rx.rxSeq] \in Nat /\ 0 <= o[rx.rxSeq]
  <2>1. o \in [Nat -> Nat]  BY DEF Positions
  <2>2. \A m \in Nat : o[m] \in Nat  BY <2>1
  <2>3. \A m \in Nat : 0 <= m  OBVIOUS
  <2> QED  BY <1>1, <2>2, <2>3, Zenon
<1>3. Len(upstream) = o[rx.rxSeq] - 0 /\ Len(tx.txBuf) = Len(written) - o[tx.txSeq]
  BY <1>1, <1>2, SpanFacts DEF Positions
<1> QED  BY <1>1, <1>2, <1>3

LEMMA PlaceWrite ==
  ASSUME Sound, NEW n \in 1..MaxWrite, Write(n), NEW o, Positions(o)
  PROVE  Positions(o)'
<1> DEFINE data == [i \in 1..n |-> Len(written) + i]
           l == Len(written)
           a == o[tx.txSeq]
<1>1. /\ tx'.txSeq = tx.txSeq /\ data \in Seq(Nat) /\ Len(data) = n
      /\ \/ tx' = tx /\ written' = written
         \/ tx'.txBuf = tx.txBuf \o data /\ written' = written \o data
      /\ UNCHANGED <<poll, late, dials, serverVars>>
  BY WriteFacts DEF Sound
<1>2. l \in Nat /\ n \in Nat /\ l <= l + n /\ l + n \in Nat /\ a \in Nat /\ a <= l /\ a <= l + n
      /\ 0 \in Nat /\ 0 <= l /\ 0 <= l + n
  <2>1. l \in Nat /\ a \in Nat /\ a <= l  BY PositionFacts DEF Positions
  <2>2. n \in Nat  BY Constants
  <2> HIDE DEF l, a, data
  <2> QED  BY <2>1, <2>2
<1>3. data = Span(l, l + n)
  <2>1. (l + n) - l = n  BY <1>2
  <2> QED  BY <2>1 DEF Span
<1>4. written = Span(0, l) /\ tx.txBuf = Span(a, l)  BY DEF Positions
<1> HIDE DEF data, l, a
<1>5. Span(0, l) \o Span(l, l + n) = Span(0, l + n) /\ Span(a, l) \o Span(l, l + n) = Span(a, l + n)
  BY <1>2, SpanConcat
<1>6. Len(Span(0, l + n)) = l + n
  <2>1. Len(Span(0, l + n)) = (l + n) - 0  BY <1>2, SpanFacts
  <2> QED  BY <1>2, <2>1
<1>7. /\ written' = Span(0, Len(written')) /\ a <= Len(written')
      /\ tx'.txBuf = Span(a, Len(written'))
  <2>1. CASE tx' = tx /\ written' = written  BY <1>2, <1>4, <2>1 DEF l
  <2>2. CASE tx'.txBuf = tx.txBuf \o data /\ written' = written \o data
    <3>1. written' = Span(0, l + n) /\ tx'.txBuf = Span(a, l + n)
      BY <1>3, <1>4, <1>5, <2>2
    <3>2. Len(written') = l + n  BY <1>6, <3>1
    <3> QED  BY <1>2, <3>1, <3>2
  <2> QED  BY <1>1, <2>1, <2>2
<1> QED  BY <1>1, <1>7 DEF Positions, Carries, Astray, serverVars, a

(* Steps that move batches and requests but no byte. *)
LEMMA PlaceMoves ==
  ASSUME Sound, Moving, NEW o, Positions(o)
  PROVE  Positions(o)'
<1>1. /\ UNCHANGED <<tx, written, rx, upstream>>
      /\ PollMoves /\ AstrayMoves /\ InboxMoves
  BY MoveFacts
<1>2. \A i \in DOMAIN inbox' : Carries(inbox'[i], o)  BY <1>1 DEF InboxMoves, Positions
<1>3. \A b \in Astray' : \A i \in DOMAIN b : Carries(b[i], o)  BY <1>1 DEF AstrayMoves, Positions
<1>4. poll' # Idle => \A i \in DOMAIN poll'.frames : Carries(poll'.frames[i], o)
  BY <1>1 DEF PollMoves, Positions
<1>5. \A m \in DOMAIN rx'.rxQueue : Carries(rx'.rxQueue[m], o)  BY <1>1 DEF Positions
<1> QED  BY <1>1, <1>2, <1>3, <1>4, <1>5 DEF Positions, Carries

LEMMA PlaceClose == ASSUME Sound, CloseWrite, NEW o, Positions(o) PROVE Positions(o)'
<1>1. tx'.txSeq = tx.txSeq /\ tx'.txBuf = tx.txBuf
      /\ UNCHANGED <<written, poll, late, dials, serverVars>>
  BY CloseFacts DEF Sound
<1> QED  BY <1>1 DEF Positions, Carries, Astray, serverVars

(* RollbackRestoresPrefix is what makes the buffer whole again. *)
LEMMA PlaceRollback ==
  ASSUME Sound, Rollback, NEW o, Positions(o),
         tx'.txBuf = FlattenSeq([i \in DOMAIN poll.frames |-> poll.frames[i].payload]) \o tx.txBuf
  PROVE  Positions(o)'
<1> DEFINE q == poll.snap.txSeq
           l == Len(written)
<1>1. /\ poll \in Polls /\ poll # Idle /\ poll' = Idle /\ tx'.txSeq = q
      /\ UNCHANGED <<written, late, dials, serverVars>>
  BY RollbackFacts DEF Sound
<1>2. /\ Batch(poll.frames) /\ poll.frames[1].seq = q /\ q + Len(poll.frames) = tx.txSeq
      /\ q \in Nat /\ Len(poll.frames) \in Nat
  BY <1>1, LenProperties DEF Sound, PollShape, Polls, Batch
<1>3. /\ o \in [Nat -> Nat] /\ \A m, k \in Nat : m <= k => o[m] <= o[k]
      /\ \A i \in DOMAIN poll.frames : Carries(poll.frames[i], o)
  BY <1>1 DEF Positions
<1>4. FlattenSeq([i \in DOMAIN poll.frames |-> poll.frames[i].payload]) = Span(o[q], o[tx.txSeq])
  BY <1>2, <1>3, FlattenBatch
<1>5. /\ tx.txSeq \in Nat /\ l \in Nat /\ o[tx.txSeq] \in Nat /\ o[tx.txSeq] <= l
      /\ tx.txBuf = Span(o[tx.txSeq], l)
  BY PositionFacts DEF Positions
<1> HIDE DEF q, l
<1>6. q <= tx.txSeq  BY <1>2, <1>5
<1>7. o[q] \in Nat /\ o[q] <= o[tx.txSeq]  BY <1>2, <1>3, <1>5, <1>6
<1>8. tx'.txBuf = Span(o[q], l)
  <2>1. Span(o[q], o[tx.txSeq]) \o Span(o[tx.txSeq], l) = Span(o[q], l)
    BY <1>5, <1>7, SpanConcat
  <2> QED  BY <1>4, <1>5, <2>1
<1>9. o[q] <= l
  <2>1. \A x, y, z \in Nat : x <= y /\ y <= z => x <= z  OBVIOUS
  <2> QED  BY <1>5, <1>7, <2>1, Zenon
<1> QED  BY <1>1, <1>8, <1>9 DEF Positions, Carries, Astray, serverVars, l

LEMMA PlaceRxLoop ==
  ASSUME Sound, RxLoop, NEW o, Positions(o)
  PROVE  Positions(o)'
<1>1. /\ UNCHANGED <<tx, written, poll, late, dials>>
      /\ \A i \in DOMAIN inbox' : Arrived(inbox'[i])
      /\ \A m \in DOMAIN rx'.rxQueue : Arrived(rx'.rxQueue[m])
      /\ \/ rx'.rxSeq = rx.rxSeq /\ upstream' = upstream
         \/ \E run \in Seq(Frames) :
              /\ Len(run) >= 1
              /\ \A i \in 1..Len(run) : Arrived(run[i]) /\ run[i].seq = rx.rxSeq + i - 1
              /\ rx'.rxSeq = rx.rxSeq + Len(run)
              /\ upstream' = upstream \o FlattenSeq(ToSend(run))
  BY LoopShape
<1>2. \A g : Arrived(g) => Carries(g, o)  BY DEF Arrived, Positions
<1>3. o \in [Nat -> Nat] /\ \A m, k \in Nat : m <= k => o[m] <= o[k]  BY DEF Positions
<1>4. rx.rxSeq \in Nat /\ o[rx.rxSeq] \in Nat /\ upstream = Span(0, o[rx.rxSeq])
  BY PositionFacts DEF Positions
<1>5. ASSUME NEW run \in Seq(Frames), Len(run) >= 1,
             \A i \in 1..Len(run) : Arrived(run[i]) /\ run[i].seq = rx.rxSeq + i - 1,
             rx'.rxSeq = rx.rxSeq + Len(run), upstream' = upstream \o FlattenSeq(ToSend(run))
      PROVE  upstream' = Span(0, o[rx'.rxSeq])
  <2> DEFINE k == Len(run)
             lo == rx.rxSeq
  <2>1. k \in Nat /\ lo \in Nat  BY <1>4, LenProperties
  <2> HIDE DEF k, lo
  <2>2. \A i \in 1..k : run[i].payload = Span(o[lo + i - 1], o[lo + i])
    <3> SUFFICES ASSUME NEW i \in 1..k PROVE run[i].payload = Span(o[lo + i - 1], o[lo + i])
      OBVIOUS
    <3>1. run[i].seq = lo + i - 1 /\ Carries(run[i], o)  BY <1>2, <1>5 DEF k, lo
    <3>2. lo + i - 1 + 1 = lo + i  BY <2>1
    <3> QED  BY <3>1, <3>2 DEF Carries
  <2>3. FlattenSeq(ToSend(run)) = Span(o[lo], o[lo + k])
    BY <1>3, <2>1, <2>2, RunBytes DEF k
  <2>4. lo + k \in Nat /\ lo <= lo + k  BY <2>1
  <2>5. o[lo] \in Nat /\ o[lo + k] \in Nat /\ o[lo] <= o[lo + k] /\ 0 \in Nat /\ 0 <= o[lo]
    <3>1. o[lo] \in Nat /\ o[lo + k] \in Nat /\ o[lo] <= o[lo + k]  BY <1>3, <2>1, <2>4
    <3>2. \A x \in Nat : 0 <= x  OBVIOUS
    <3> QED  BY <3>1, <3>2
  <2>6. Span(0, o[lo]) \o Span(o[lo], o[lo + k]) = Span(0, o[lo + k])  BY <2>5, SpanConcat
  <2> QED  BY <1>4, <1>5, <2>3, <2>6 DEF k, lo
<1>6. upstream' = Span(0, o[rx'.rxSeq])  BY <1>1, <1>4, <1>5
<1>7. /\ \A i \in DOMAIN inbox' : Carries(inbox'[i], o)
      /\ \A m \in DOMAIN rx'.rxQueue : Carries(rx'.rxQueue[m], o)
  BY <1>1, <1>2
<1> QED  BY <1>1, <1>6, <1>7 DEF Positions, Carries, Astray

LEMMA Multiples ==
  ASSUME NEW p \in Nat
  PROVE  /\ \A i \in Nat : i * p \in Nat
         /\ \A i, j \in Nat : i <= j => i * p <= j * p
         /\ 0 * p = 0
OBVIOUS

(* drainTx numbers the bytes it takes: frame by frame, without a gap. *)
LEMMA PlaceDrain ==
  ASSUME Sound, Ordered, Drain, NEW o, Positions(o)
  PROVE  \E u \in [Nat -> Nat] :
           /\ Positions(u)'
           /\ Fits => poll'.snap.txBuf = Span(u[poll'.snap.txSeq], u[tx'.txSeq])
<1> DEFINE d == DrainTx(tx, MaxPayload, MaxFrames)
           n == Least(MaxFrames, DataFrames(tx, MaxPayload))
           c == Len(tx.txBuf)
           taken == Least(n * MaxPayload, c)
           fin == FinPending(tx) /\ n < MaxFrames
           k == Len(d.frames)
           q == tx.txSeq
           a == o[q]
           l == Len(written)
           At(i) == Least(i * MaxPayload, taken)
           u == [m \in Nat |-> IF m <= q THEN o[m] ELSE a + At(m - q)]
<1>0. /\ tx' = d.sess /\ poll = Idle /\ HasPendingTx(tx)
      /\ poll'.frames = d.frames /\ poll'.snap = tx
      /\ UNCHANGED <<written, late, dials, serverVars>>
  BY DrainFacts
<1>1. tx \in TxRecord /\ q \in Nat /\ rx.rxSeq \in Nat /\ rx.rxSeq <= q
      /\ (tx.synNeeded <=> tx.txSeq = 0)
  <2>1. Limit = q  BY <1>0 DEF Limit
  <2> QED  BY <2>1, FrameTypes DEF Sound, TxRecord, Ordered, Ending
<1>2. /\ l \in Nat /\ a \in Nat /\ a <= l /\ c = l - a /\ tx.txBuf = Span(a, l)
      /\ written = Span(0, l)
  BY PositionFacts DEF Positions
<1>3. o \in [Nat -> Nat] /\ \A m, j \in Nat : m <= j => o[m] <= o[j]  BY DEF Positions
<1>4. /\ n \in Nat /\ taken \in 0..c  BY <1>1, DrainCounts, Constants
<1>5. /\ d.frames \in Seq(Frames) /\ k >= 1 /\ d.sess.txSeq = q + k
      /\ Batch(d.frames)
  BY <1>0, <1>1, DrainBatch DEF Batch
<1>6. /\ k = n + (IF fin THEN 1 ELSE 0)
      /\ \A i \in 1..k : /\ d.frames[i].seq = q + i - 1
                         /\ i <= n => d.frames[i].payload =
                                        SubSeq(tx.txBuf, (i - 1) * MaxPayload + 1,
                                               Least(i * MaxPayload, c))
                         /\ i = n + 1 => d.frames[i].payload = <<>>
      /\ d.sess.txBuf = SubSeq(tx.txBuf, taken + 1, c)
  BY <1>1, DrainShape
<1>7. poll'.frames = d.frames  BY <1>0
<1>8. MaxPayload \in Nat  BY Constants
<1>9. taken <= n * MaxPayload /\ (taken = n * MaxPayload \/ taken = c)
  <2>1. n * MaxPayload \in Nat /\ c \in Nat  BY <1>2, <1>4, <1>8, Multiples
  <2> QED  BY <2>1 DEF Least
<1> HIDE DEF d, n, c, taken, fin, q, a, l
<1>10. k \in Nat /\ DOMAIN d.frames = 1..k /\ n <= k /\ c \in Nat /\ taken \in Nat /\ l = a + c
       /\ taken <= c
  <2>1. k \in Nat /\ DOMAIN d.frames = 1..k  BY <1>5, LenProperties
  <2> HIDE DEF k
  <2>2. n <= k  BY <1>4, <1>6
  <2> QED  BY <1>2, <1>4, <2>1, <2>2
<1> HIDE DEF k
<1>11. /\ \A i \in Nat : At(i) \in Nat /\ At(i) <= taken
       /\ \A i, j \in Nat : i <= j => At(i) <= At(j)
       /\ At(0) = 0
       /\ \A i \in Nat : n <= i => At(i) = taken
       /\ \A i \in Nat : i <= n => At(i) = Least(i * MaxPayload, c)
  <2>1. /\ \A i \in Nat : i * MaxPayload \in Nat
        /\ \A i, j \in Nat : i <= j => i * MaxPayload <= j * MaxPayload
        /\ 0 * MaxPayload = 0
    BY <1>8, Multiples
  <2>2. \A x \in Nat : Least(x, taken) \in Nat /\ Least(x, taken) <= taken
    BY <1>10 DEF Least
  <2>3. \A x, y \in Nat : x <= y => Least(x, taken) <= Least(y, taken)  BY <1>10 DEF Least
  <2>4. \A x \in Nat : taken <= x => Least(x, taken) = taken  BY <1>10 DEF Least
  <2>5. \A x \in Nat : x <= n * MaxPayload => Least(x, taken) = Least(x, c)
    <3>1. PICK w \in Nat : w = n * MaxPayload  BY <1>4, <2>1
    <3>2. \A x \in Nat : x <= w => Least(x, taken) = Least(x, c)
      BY <1>9, <1>10, <3>1 DEF Least
    <3> QED  BY <3>1, <3>2
  <2>6. \A i \in Nat : n <= i => taken <= i * MaxPayload
    <3> SUFFICES ASSUME NEW i \in Nat, n <= i PROVE taken <= i * MaxPayload  OBVIOUS
    <3>1. n * MaxPayload <= i * MaxPayload /\ n * MaxPayload \in Nat /\ i * MaxPayload \in Nat
      BY <1>4, <2>1
    <3> QED  BY <1>9, <1>10, <3>1
  <2>7. Least(0, taken) = 0  BY <1>10 DEF Least
  <2> QED  BY <1>4, <2>1, <2>2, <2>3, <2>4, <2>5, <2>6, <2>7
<1> HIDE DEF At
<1>12. /\ u \in [Nat -> Nat]
       /\ \A m \in Nat : m <= q => u[m] = o[m]
       /\ \A i \in Nat : q + i \in Nat /\ u[q + i] = a + At(i)
  <2>1. ASSUME NEW m \in Nat PROVE u[m] \in Nat
    <3>1. CASE m <= q  BY <1>3, <3>1
    <3>2. CASE ~(m <= q)
      <4>1. m - q \in Nat  BY <1>1, <3>2
      <4>2. a + At(m - q) \in Nat  BY <1>2, <1>11, <4>1
      <4> QED  BY <3>2, <4>2
    <3> QED  BY <3>1, <3>2
  <2>2. ASSUME NEW i \in Nat PROVE q + i \in Nat /\ u[q + i] = a + At(i)
    <3>0. q + i \in Nat  BY <1>1
    <3>1. CASE i = 0
      <4>1. q + i = q /\ q <= q  BY <1>1, <3>1
      <4>2. u[q + i] = a  BY <1>1, <4>1 DEF a
      <4> QED  BY <1>2, <1>11, <3>0, <3>1, <4>2
    <3>2. CASE i # 0
      <4>1. ~(q + i <= q) /\ (q + i) - q = i  BY <1>1, <3>2
      <4> QED  BY <3>0, <4>1
    <3> QED  BY <3>1, <3>2
  <2> QED  BY <2>1, <2>2
<1> HIDE DEF u
<1>13. \A m, j \in Nat : m <= j => u[m] <= u[j]
  <2> SUFFICES ASSUME NEW m \in Nat, NEW j \in Nat, m <= j PROVE u[m] <= u[j]  OBVIOUS
  <2>1. CASE j <= q
    <3>1. m <= q  BY <1>1, <2>1
    <3> QED  BY <1>3, <1>12, <2>1, <3>1
  <2>2. CASE q < j
    <3>1. j - q \in Nat /\ q + (j - q) = j  BY <1>1, <2>2
    <3>2. u[j] = a + At(j - q)  BY <1>12, <3>1
    <3>3. CASE m <= q
      <4>1. u[m] = o[m] /\ o[m] \in Nat /\ o[m] <= a  BY <1>1, <1>3, <1>12, <3>3 DEF a
      <4>2. At(j - q) \in Nat  BY <1>11, <3>1
      <4> QED  BY <1>2, <3>2, <4>1, <4>2
    <3>4. CASE q < m
      <4>1. m - q \in Nat /\ q + (m - q) = m /\ m - q <= j - q  BY <1>1, <3>4
      <4>2. u[m] = a + At(m - q)  BY <1>12, <4>1
      <4>3. At(m - q) <= At(j - q) /\ At(m - q) \in Nat /\ At(j - q) \in Nat
        BY <1>11, <3>1, <4>1
      <4> QED  BY <1>2, <3>2, <4>2, <4>3
    <3> QED  BY <1>1, <3>3, <3>4
  <2> QED  BY <1>1, <2>1, <2>2
<1>14. \A f : f.seq \in Nat /\ f.seq < q /\ Carries(f, o) => Carries(f, u)
  <2> SUFFICES ASSUME NEW f, f.seq \in Nat, f.seq < q, Carries(f, o) PROVE Carries(f, u)
    OBVIOUS
  <2>1. f.seq <= q /\ f.seq + 1 <= q /\ f.seq + 1 \in Nat  BY <1>1
  <2> QED  BY <1>12, <2>1 DEF Carries
<1>15. \A i \in 1..k : Carries(d.frames[i], u)
  <2> SUFFICES ASSUME NEW i \in 1..k PROVE Carries(d.frames[i], u)  OBVIOUS
  <2>1. i \in Nat /\ i - 1 \in Nat /\ q + i - 1 = q + (i - 1) /\ q + (i - 1) + 1 = q + i
        /\ i - 1 <= i
    BY <1>1
  <2>2. /\ d.frames[i].seq = q + (i - 1)
        /\ u[q + (i - 1)] = a + At(i - 1) /\ u[q + (i - 1) + 1] = a + At(i)
    BY <1>6, <1>12, <2>1
  <2>3. d.frames[i].payload = Span(a + At(i - 1), a + At(i))
    <3>1. CASE i <= n
      <4> DEFINE x == (i - 1) * MaxPayload
                 y == Least(i * MaxPayload, c)
      <4>0. i * MaxPayload \in Nat  BY <1>8, <2>1, Multiples
      <4>1. x \in Nat /\ y \in Nat /\ y <= c
        <5>1. x \in Nat  BY <1>8, <2>1, Multiples
        <5> HIDE DEF x
        <5> QED  BY <1>10, <4>0, <5>1 DEF Least
      <4>2. i - 1 <= n  BY <1>4, <3>1
      <4>3. At(i) = y /\ At(i - 1) = Least(x, c)  BY <1>11, <2>1, <3>1, <4>2
      <4>4. Least(x, c) <= y  BY <1>11, <2>1, <4>3
      <4>5. d.frames[i].payload = SubSeq(Span(a, a + c), x + 1, y)
        BY <1>2, <1>6, <1>10, <3>1
      <4> HIDE DEF x, y
      <4>6. SubSeq(Span(a, a + c), x + 1, y) = Span(a + Least(x, c), a + y)
        <5>1. a \in Nat /\ c \in Nat  BY <1>2, <1>10
        <5> QED  BY <4>1, <4>4, <5>1, SpanSub
      <4> QED  BY <4>3, <4>5, <4>6
    <3>2. CASE ~(i <= n)
      <4>1. i = n + 1 /\ n <= i - 1 /\ n <= i
        <5>1. k <= n + 1  BY <1>4, <1>6
        <5> QED  BY <1>4, <3>2, <5>1, <1>10
      <4>2. At(i - 1) = taken /\ At(i) = taken  BY <1>11, <2>1, <4>1
      <4>3. d.frames[i].payload = <<>>  BY <1>6, <4>1
      <4>4. a + taken \in Nat  BY <1>2, <1>10
      <4> QED  BY <4>2, <4>3, <4>4, SpanEmpty
    <3> QED  BY <3>1, <3>2
  <2> QED  BY <2>2, <2>3 DEF Carries
<1>16. u[tx'.txSeq] = a + taken
  BY <1>0, <1>5, <1>10, <1>11, <1>12
<1>17. a + taken <= l  BY <1>2, <1>10
<1>18. tx'.txBuf = Span(a + taken, l)
  <2>1. c <= c /\ Least(taken, c) = taken  BY <1>10 DEF Least
  <2>2. SubSeq(Span(a, a + c), taken + 1, c) = Span(a + Least(taken, c), a + c)
    <3>1. Least(taken, c) <= c  BY <1>10, <2>1
    <3>2. a \in Nat /\ c \in Nat /\ taken \in Nat /\ c <= c  BY <1>2, <1>10
    <3> QED  BY <3>1, <3>2, SpanSub
  <2> QED  BY <1>0, <1>2, <1>6, <1>10, <2>1, <2>2
<1>19. upstream = Span(0, u[rx.rxSeq])  BY <1>1, <1>12 DEF Positions
<1>20. \A i \in DOMAIN inbox : Carries(inbox[i], u)
  <2> SUFFICES ASSUME NEW i \in DOMAIN inbox PROVE Carries(inbox[i], u)  OBVIOUS
  <2>1. inbox[i].seq \in Nat /\ inbox[i].seq < q /\ Carries(inbox[i], o)
    BY <1>0, FrameTypes DEF Ordered, AllShown, Shown, Limit, Positions, q
  <2> QED  BY <1>14, <2>1
<1>21. \A b \in Astray : \A i \in DOMAIN b : Carries(b[i], u)
  <2> SUFFICES ASSUME NEW b \in Astray, NEW i \in DOMAIN b PROVE Carries(b[i], u)  OBVIOUS
  <2>1. b[i].seq \in Nat  BY FrameTypes DEF Sound
  <2>2. b[i].seq < q /\ Carries(b[i], o)
    BY <1>0 DEF Ordered, AllShown, Shown, Limit, Positions, q
  <2> QED  BY <1>14, <2>1, <2>2
<1>22. \A m \in DOMAIN rx.rxQueue : Carries(rx.rxQueue[m], u)
  <2> SUFFICES ASSUME NEW m \in DOMAIN rx.rxQueue PROVE Carries(rx.rxQueue[m], u)  OBVIOUS
  <2>1. /\ rx.rxQueue[m].seq \in Nat /\ rx.rxQueue[m].seq < q /\ Carries(rx.rxQueue[m], o)
    BY <1>0, FrameTypes DEF Ordered, AllShown, Shown, Limit, Positions, q
  <2> QED  BY <1>14, <2>1
<1>23. PICK w : w = u  OBVIOUS
<1>24. Positions(w)'
  <2>1. \A i \in DOMAIN poll'.frames : Carries(poll'.frames[i], w)
    BY <1>7, <1>10, <1>15, <1>23
  <2>2. written' = written /\ Astray' = Astray /\ inbox' = inbox /\ rx' = rx /\ upstream' = upstream
    BY <1>0 DEF serverVars, Astray
  <2>3. Len(written') = l /\ written' = Span(0, l)  BY <1>2, <2>2 DEF l
  <2>4. w[tx'.txSeq] <= l /\ tx'.txBuf = Span(w[tx'.txSeq], l)
    BY <1>16, <1>17, <1>18, <1>23
  <2>5. upstream' = Span(0, w[rx'.rxSeq])  BY <1>19, <1>23, <2>2
  <2>6. \A i \in DOMAIN inbox' : Carries(inbox'[i], w)  BY <1>20, <1>23, <2>2
  <2>7. \A b \in Astray' : \A i \in DOMAIN b : Carries(b[i], w)  BY <1>21, <1>23, <2>2
  <2>9. \A m \in DOMAIN rx'.rxQueue : Carries(rx'.rxQueue[m], w)  BY <1>23, <1>22, <2>2
  <2>8. w \in [Nat -> Nat] /\ \A m, j \in Nat : m <= j => w[m] <= w[j]
    BY <1>12, <1>13, <1>23
  <2> QED  BY <2>1, <2>3, <2>4, <2>5, <2>6, <2>7, <2>8, <2>9 DEF Positions, Carries
<1>25. ASSUME Fits PROVE poll'.snap.txBuf = Span(w[poll'.snap.txSeq], w[tx'.txSeq])
  <2>1. poll'.snap = tx  BY <1>0
  <2>2. taken = c  BY <1>1, <1>25, DrainCounts DEF Fits, taken, c, n
  <2>3. w[q] = a  BY <1>1, <1>12, <1>23 DEF a
  <2>4. w[tx'.txSeq] = l  BY <1>10, <1>16, <1>23, <2>2
  <2>5. tx.txBuf = Span(a, l)  BY <1>2
  <2> QED  BY <2>1, <2>3, <2>4, <2>5 DEF q
<1> QED  BY <1>12, <1>23, <1>24, <1>25

(* The rollback that the comment of DrainTxLimitedTxn promises. *)
Restores ==
  Rollback => tx'.txBuf = FlattenSeq([i \in DOMAIN poll.frames |-> poll.frames[i].payload])
                            \o tx.txBuf

LEMMA PlaceKeeps ==
  ASSUME Sound, NEW o, Positions(o), [Next]_vars, [Restores]_vars, ~Drain
  PROVE  Positions(o)'
<1>1. ASSUME NEW n \in 1..MaxWrite, Write(n) PROVE Positions(o)'  BY <1>1, PlaceWrite
<1>2. CASE Rollback
  <2>1. UNCHANGED vars => Moving  BY DEF Moving
  <2> QED  BY <1>2, <2>1, PlaceRollback, PlaceMoves DEF Restores
<1> QED  BY <1>1, <1>2, NextCases, PlaceClose, PlaceMoves, PlaceRxLoop

LEMMA PlaceStep ==
  ASSUME Sound, Ordered, Placed, [Next]_vars, [Restores]_vars
  PROVE  Placed'
<1>1. PICK o \in [Nat -> Nat] : Positions(o)  BY DEF Placed
<1>2. CASE Drain
  <2>1. PICK u \in [Nat -> Nat] : Positions(u)'  BY <1>1, <1>2, PlaceDrain
  <2> QED  BY <2>1 DEF Placed
<1>3. CASE ~Drain
  <2>1. Positions(o)'  BY <1>1, <1>3, PlaceKeeps
  <2> QED  BY <2>1 DEF Placed
<1> QED  BY <1>2, <1>3

---------------------------------------------------------------------------
(* The refinement: every step is a step of the byte stream, or none.       *)

LEMMA StreamWrite ==
  ASSUME Sound, Ordered, Placed, NEW n \in 1..MaxWrite, Write(n)
  PROVE  [Stream!Next]_(Stream!vars)
<1> DEFINE data == [i \in 1..n |-> Len(written) + i]
           l == Len(written)
<1>1. /\ tx'.closeReq = tx.closeReq
      /\ data \in Seq(Nat) /\ Len(data) = n
      /\ \/ tx' = tx /\ written' = written
         \/ (tx.synNeeded \/ ~tx.closeReq) /\ written' = written \o data
      /\ UNCHANGED serverVars
  BY WriteFacts DEF Sound
<1>2. written \in Seq(Nat) /\ l \in Nat /\ n \in Nat /\ n >= 1 /\ l + n \in Nat
  BY Constants, LenProperties DEF Sound, TypeOK
<1>3. upstream' = upstream /\ eof' = eof  BY <1>1 DEF serverVars
<1> HIDE DEF data
<1>4. CASE written' = written  BY <1>1, <1>3, <1>4 DEF Stream!vars
<1>5. CASE (tx.synNeeded \/ ~tx.closeReq) /\ written' = written \o data
  <2>1. ~eof  BY <1>5 DEF Sound, Ordered, Ending
  <2>2. Len(written') = l + n  BY <1>1, <1>2, <1>5, ConcatProperties
  <2> HIDE DEF l
  <2>3. Len(written') > l /\ l <= l + n  BY <1>2, <2>2
  <2>4. SubSeq(written', 1, l) = written
    <3>1. PICK o \in [Nat -> Nat] : Positions(o)  BY DEF Placed
    <3>2. Positions(o)'  BY <3>1, PlaceWrite
    <3>3. written = Span(0, l) /\ written' = Span(0, l + n)  BY <2>2, <3>1, <3>2 DEF Positions, l
    <3> QED  BY <1>2, <2>3, <3>3, SpanPrefix
  <2> QED  BY <1>1, <1>3, <2>1, <2>3, <2>4 DEF Stream!Next, Stream!Write, l
<1> QED  BY <1>1, <1>4, <1>5

(* What rxLoop hands over lies within what was written, and all of it has  *)
(* been handed over when the FIN comes.                                    *)
LEMMA StreamDeliver ==
  ASSUME Sound, Ordered, Ordered', Placed, RxLoop
  PROVE  [Stream!Next]_(Stream!vars)
<1> DEFINE l == Len(written)
           t == tx.txSeq
           r == rx'.rxSeq
<1>1. PICK o \in [Nat -> Nat] : Positions(o)  BY DEF Placed
<1>2. Positions(o)'  BY <1>1, PlaceRxLoop
<1>3. /\ ~rx.rxClosed /\ UNCHANGED <<tx, written, poll>> /\ rx' \in RxRecord /\ eof' \in BOOLEAN
      /\ rx.rxSeq \in Nat
      /\ \/ upstream' = upstream /\ eof' = FALSE
         \/ rx.rxSeq <= rx'.rxSeq
  <2>1. rx.rxSeq \in Nat  BY FrameTypes
  <2>2. ASSUME NEW run \in Seq(Frames), rx'.rxSeq = rx.rxSeq + Len(run)
        PROVE  rx.rxSeq <= rx'.rxSeq
    <3>1. Len(run) \in Nat  BY LenProperties
    <3>2. \A x, y \in Nat : x <= x + y  OBVIOUS
    <3> QED  BY <2>1, <2>2, <3>1, <3>2
  <2> QED  BY <2>1, <2>2, LoopShape
<1>4. ~eof /\ eof = FALSE  BY <1>3 DEF Ordered, Ending, Sound, TypeOK
<1>5. CASE upstream' = upstream /\ eof' = FALSE  BY <1>3, <1>4, <1>5 DEF Stream!vars
<1>6. CASE rx.rxSeq <= rx'.rxSeq
  <2>1. /\ t \in Nat /\ rx.rxSeq \in Nat /\ l \in Nat /\ Len(upstream) = o[rx.rxSeq]
        /\ Len(tx.txBuf) = l - o[t]
    BY <1>1, PositionFacts
  <2>2. r \in Nat /\ rx.rxSeq <= r  BY <1>3, <1>6 DEF RxRecord
  <2>3. r <= t /\ (eof' => r = t /\ tx.closeReq /\ tx.txBuf = <<>>)
    <3>1. r <= Limit' /\ eof' = rx'.rxClosed /\ (rx'.rxClosed => tx'.finSent /\ r = tx'.txSeq)
          /\ (tx'.finSent => tx'.closeReq /\ tx'.txBuf = <<>>)
      BY DEF Ordered, Ending
    <3>2. Limit' = Limit  BY <1>3 DEF Limit, Seen
    <3>3. Limit \in Nat /\ Limit <= t  BY LimitFacts
    <3>4. r <= t
      <4>1. \A x, y, z \in Nat : x <= y /\ y <= z => x <= z  OBVIOUS
      <4>2. r \in Nat /\ t \in Nat /\ r <= Limit  BY <2>1, <2>2, <3>1, <3>2
      <4> QED  BY <3>3, <4>1, <4>2, Zenon
    <3> QED  BY <1>3, <3>1, <3>4
  <2>4. /\ o[t] \in Nat /\ o[r] \in Nat /\ o[rx.rxSeq] \in Nat
        /\ o[rx.rxSeq] <= o[r] /\ o[r] <= o[t] /\ o[t] <= l
    <3>1. \A m, k \in Nat : m <= k => o[m] <= o[k]  BY <1>1 DEF Positions
    <3>2. o[t] <= l  BY <1>1 DEF Positions
    <3> HIDE DEF t, r, l
    <3>3. o[t] \in Nat /\ o[r] \in Nat /\ o[rx.rxSeq] \in Nat  BY <2>1, <2>2
    <3> QED  BY <2>1, <2>2, <2>3, <3>1, <3>2, <3>3
  <2>5. upstream' = Span(0, o[r]) /\ written = Span(0, l)
    BY <1>1, <1>2 DEF Positions
  <2> HIDE DEF t, r, l
  <2>6. Len(upstream') = o[r]
    <3>1. 0 \in Nat /\ 0 <= o[r] /\ o[r] - 0 = o[r]  BY <2>4
    <3>2. Len(Span(0, o[r])) = o[r] - 0  BY <2>4, <3>1, SpanFacts
    <3> QED  BY <2>5, <3>1, <3>2
  <2>7. o[r] <= l
    <3>1. \A x, y, z \in Nat : x <= y /\ y <= z => x <= z  OBVIOUS
    <3> QED  BY <2>1, <2>4, <3>1, Zenon
  <2>8. upstream' = SubSeq(written, 1, Len(upstream'))
    <3>1. SubSeq(Span(0, l), 1, o[r]) = Span(0, o[r])  BY <2>1, <2>4, <2>7, SpanPrefix
    <3> QED  BY <2>5, <2>6, <3>1
  <2>9. ASSUME eof' PROVE tx.closeReq /\ upstream' = written
    <3>1. r = t /\ tx.closeReq /\ tx.txBuf = <<>>  BY <2>3, <2>9
    <3>2. Len(tx.txBuf) = 0  BY <3>1, EmptySeq
    <3>3. o[t] = l
      <4>1. \A x, y \in Nat : y - x = 0 => x = y  OBVIOUS
      <4>2. l - o[t] = 0  BY <2>1, <3>2, Zenon
      <4> QED  BY <2>1, <2>4, <4>1, <4>2, Zenon
    <3> QED  BY <2>5, <3>1, <3>3
  <2>10. Len(upstream') >= Len(upstream) /\ Len(upstream') <= Len(written)
    BY <2>1, <2>4, <2>6, <2>7 DEF l
  <2>11. Stream!Deliver
    BY <1>3, <1>4, <2>8, <2>9, <2>10 DEF Stream!Deliver
  <2> QED  BY <2>11 DEF Stream!Next
<1> QED  BY <1>3, <1>5, <1>6

LEMMA StreamStep ==
  ASSUME Sound, Ordered, Ordered', Placed, [Next]_vars
  PROVE  [Stream!Next]_(Stream!vars)
<1>1. ASSUME UNCHANGED <<written, upstream, eof>>, tx'.closeReq = tx.closeReq
      PROVE  [Stream!Next]_(Stream!vars)
  BY <1>1 DEF Stream!vars
<1>2. ASSUME NEW n \in 1..MaxWrite, Write(n) PROVE [Stream!Next]_(Stream!vars)
  BY <1>2, StreamWrite
<1>3. CASE CloseWrite
  <2>1. tx'.closeReq = TRUE /\ UNCHANGED <<written, serverVars>>  BY <1>3, CloseFacts DEF Sound
  <2> QED  BY <2>1 DEF Stream!Next, Stream!Close, serverVars
<1>4. CASE Drain
  <2>1. tx'.closeReq = tx.closeReq  BY <1>4, FrameTypes, DrainShape DEF Drain
  <2> QED  BY <1>1, <1>4, <2>1 DEF Drain, serverVars
<1>5. CASE Rollback
  <2>1. tx'.closeReq = tx.closeReq  BY <1>5, RollbackFacts DEF Sound
  <2> QED  BY <1>1, <1>5, <2>1 DEF Rollback, serverVars
<1>6. CASE Moving  BY <1>1, <1>6, MoveFacts
<1>7. CASE RxLoop  BY <1>7, StreamDeliver
<1> QED  BY <1>2, <1>3, <1>4, <1>5, <1>6, <1>7, NextCases

LEMMA PlacedHolds ==
  ASSUME Premise
  PROVE  Spec /\ RollbackRestoresPrefix => [](Sound /\ Ordered /\ Placed)
<1>1. Sound /\ Ordered /\ Placed /\ [Next]_vars /\ [Restores]_vars => Placed'
  BY PlaceStep
<1>2. RollbackRestoresPrefix <=> [][Restores]_vars  BY DEF RollbackRestoresPrefix, Restores
<1> QED  BY <1>1, <1>2, InitPlaced, OrderedHolds, PTL DEF Spec

(* If no batch of a rolled back poll has reached the server and every      *)
(* rollback restores what was drained, then drain, POST, failover,         *)
(* rollback, rxInbox and deliverRx together are a byte stream: the         *)
(* upstream connection is given every byte once, in order, and is closed   *)
(* only after the last, whatever is dropped, delayed or sent again.        *)
THEOREM StreamIsDelivered ==
  ASSUME Premise
  PROVE  Spec /\ RollbackRestoresPrefix => ImplementsByteStream
<1>1. Init => Stream!Init  BY DEF Init, Stream!Init, NewTx
<1>2. (Sound /\ Ordered /\ Placed) /\ (Sound /\ Ordered /\ Placed)' /\ [Next]_vars
        => [Stream!Next]_(Stream!vars)
  BY StreamStep
<1> QED
  BY <1>1, <1>2, PlacedHolds, PTL DEF Spec, ImplementsByteStream, Stream!Spec

---------------------------------------------------------------------------
(* Drains that empty the buffer: their rollback needs no promise.          *)

(* The snapshot holds exactly the bytes of the batch. *)
Snapped(o) == poll # Idle => poll.snap.txBuf = Span(o[poll.snap.txSeq], o[tx.txSeq])

Whole == \E o \in [Nat -> Nat] : Positions(o) /\ Snapped(o)

LEMMA SnapshotStays ==
  ASSUME Sound, [Next]_vars, ~Drain
  PROVE  poll' = Idle \/ (poll # Idle /\ poll'.snap = poll.snap /\ tx'.txSeq = tx.txSeq)
<1>1. ASSUME NEW n \in 1..MaxWrite, Write(n) PROVE poll' = poll /\ tx'.txSeq = tx.txSeq
  BY <1>1, WriteFacts DEF Sound
<1>2. ASSUME CloseWrite PROVE poll' = poll /\ tx'.txSeq = tx.txSeq
  BY <1>2, CloseFacts DEF Sound
<1>3. ASSUME RxLoop PROVE poll' = poll /\ tx'.txSeq = tx.txSeq  BY <1>3, LoopShape
<1>4. ASSUME Rollback PROVE poll' = Idle  BY <1>4 DEF Rollback
<1>5. CASE Moving  BY <1>5, MoveFacts DEF PollMoves
<1> QED  BY <1>1, <1>2, <1>3, <1>4, <1>5, NextCases

LEMMA WholeRestores ==
  ASSUME Sound, Whole, Rollback
  PROVE  Restores
<1> DEFINE q == poll.snap.txSeq
           p == FlattenSeq([i \in DOMAIN poll.frames |-> poll.frames[i].payload])
<1>1. PICK o \in [Nat -> Nat] : Positions(o) /\ Snapped(o)  BY DEF Whole
<1>2. /\ poll \in Polls /\ poll # Idle /\ tx'.txBuf = poll.snap.txBuf \o tx.txBuf
  BY RollbackFacts DEF Sound
<1>3. /\ Batch(poll.frames) /\ poll.frames[1].seq = q /\ q + Len(poll.frames) = tx.txSeq
      /\ q \in Nat
  BY <1>2 DEF Sound, PollShape, Polls, Batch
<1>4. /\ \A m, k \in Nat : m <= k => o[m] <= o[k]
      /\ \A i \in DOMAIN poll.frames : Carries(poll.frames[i], o)
  BY <1>1, <1>2 DEF Positions
<1>5. p = Span(o[q], o[tx.txSeq])  BY <1>3, <1>4, FlattenBatch
<1>6. poll.snap.txBuf = Span(o[q], o[tx.txSeq])  BY <1>1, <1>2 DEF Snapped
<1>7. poll.snap.txBuf = p  BY <1>5, <1>6
<1> QED  BY <1>2, <1>7 DEF Restores

LEMMA WholeStep ==
  ASSUME Sound, Ordered, Whole, Fits, [Next]_vars
  PROVE  Whole' /\ Restores
<1>1. PICK o \in [Nat -> Nat] : Positions(o) /\ Snapped(o)  BY DEF Whole
<1>2. Restores
  <2>1. CASE Rollback  BY <2>1, WholeRestores
  <2>2. CASE ~Rollback  BY <2>2 DEF Restores
  <2> QED  BY <2>1, <2>2
<1>3. Whole'
  <2>1. CASE Drain
    <3>1. PICK u \in [Nat -> Nat] :
            /\ Positions(u)'
            /\ poll'.snap.txBuf = Span(u[poll'.snap.txSeq], u[tx'.txSeq])
      BY <1>1, <2>1, PlaceDrain
    <3>2. Snapped(u)'  BY <3>1 DEF Snapped
    <3> QED  BY <3>1, <3>2 DEF Whole
  <2>2. CASE ~Drain
    <3>1. Positions(o)'  BY <1>1, <1>2, <2>2, PlaceKeeps
    <3>2. Snapped(o)'  BY <1>1, <2>2, SnapshotStays DEF Snapped
    <3> QED  BY <3>1, <3>2 DEF Whole
  <2> QED  BY <2>1, <2>2
<1> QED  BY <1>2, <1>3

LEMMA InitWhole == Init => Whole
<1> SUFFICES ASSUME Init PROVE Whole  OBVIOUS
<1>1. PICK o \in [Nat -> Nat] : Positions(o)  BY InitPlaced DEF Placed
<1>2. Snapped(o)  BY DEF Snapped, Init
<1> QED  BY <1>1, <1>2 DEF Whole

(* While one batch can carry all that waits in txBuf, a rollback restores  *)
(* what was drained, so RollbackDrain keeps the promise of the comment of  *)
(* DrainTxLimitedTxn, and the byte stream holds without further promise.   *)
THEOREM WholeDrainsAreSafe ==
  ASSUME Premise
  PROVE  Spec /\ []Fits => RollbackRestoresPrefix /\ ImplementsByteStream
<1>1. Sound /\ Ordered /\ Whole /\ Fits /\ [Next]_vars => Whole' /\ [Restores]_vars
  BY WholeStep
<1>2. RollbackRestoresPrefix <=> [][Restores]_vars  BY DEF RollbackRestoresPrefix, Restores
<1>3. Spec /\ []Fits => RollbackRestoresPrefix
  BY <1>1, <1>2, InitWhole, OrderedHolds, PTL DEF Spec
<1> QED  BY <1>3, StreamIsDelivered, PTL

(* A stream no longer than one batch is delivered, whatever the transport  *)
(* does short of breaking rollbackDrained's premise.                       *)
THEOREM ShortStreamsAreDelivered ==
  ASSUME Premise, MaxBytes <= MaxFrames * MaxPayload
  PROVE  Spec => ImplementsByteStream
<1> DEFINE Bounded == Len(written) <= MaxBytes
<1>1. Init => Bounded
  <2>1. Len(<<>>) = 0  BY EmptySeq
  <2> QED  BY <2>1, Constants DEF Init
<1>2. Sound /\ Bounded /\ [Next]_vars => Bounded'
  <2> SUFFICES ASSUME Sound, Bounded, [Next]_vars PROVE Bounded'  OBVIOUS
  <2>1. ASSUME NEW n \in 1..MaxWrite, Write(n) PROVE Bounded'
    <3> DEFINE data == [i \in 1..n |-> Len(written) + i]
    <3>1. /\ data \in Seq(Nat) /\ Len(data) = n
          /\ written' = written \/ written' = written \o data
      BY <2>1, WriteFacts DEF Sound
    <3>2. Len(written) + n <= MaxBytes /\ written \in Seq(Nat)
      BY <2>1 DEF Write, Sound, TypeOK
    <3> HIDE DEF data
    <3>3. Len(written \o data) = Len(written) + n  BY <3>1, <3>2, ConcatProperties
    <3> QED  BY <3>1, <3>2, <3>3
  <2>2. ASSUME UNCHANGED written PROVE Bounded'  BY <2>2
  <2>3. CASE Moving  BY <2>2, <2>3, MoveFacts
  <2>4. CASE CloseWrite \/ Drain \/ Rollback \/ RxLoop
    BY <2>2, <2>4 DEF CloseWrite, Drain, Rollback, RxLoop, clientVars
  <2> HIDE DEF Bounded
  <2> QED  BY <2>1, <2>3, <2>4, NextCases
<1>3. Sound /\ Whole /\ Bounded => Fits
  <2> SUFFICES ASSUME Sound, Whole, Bounded PROVE Fits  OBVIOUS
  <2>1. PICK o \in [Nat -> Nat] : Positions(o)  BY DEF Whole
  <2>2. /\ Len(written) \in Nat /\ o[tx.txSeq] \in Nat
        /\ Len(tx.txBuf) = Len(written) - o[tx.txSeq]
    BY <2>1, PositionFacts
  <2>3. PICK x \in Nat, y \in Nat : x = Len(written) /\ y = o[tx.txSeq]  BY <2>2
  <2>4. PICK z \in Nat : z = MaxFrames * MaxPayload  BY Constants
  <2>5. Len(tx.txBuf) = x - y /\ x <= MaxBytes /\ MaxBytes <= z  BY <2>2, <2>3, <2>4
  <2>6. x - y <= z  BY <2>5, Constants
  <2> QED  BY <2>4, <2>5, <2>6 DEF Fits
<1>4. Sound /\ Ordered /\ Whole /\ Bounded /\ [Next]_vars => Whole'  BY <1>3, WholeStep
<1> HIDE DEF Bounded
<1>5. Spec => [](Sound /\ Whole /\ Bounded)
  BY <1>1, <1>2, <1>4, InitWhole, OrderedHolds, PTL DEF Spec
<1>6. Spec => []Fits  BY <1>3, <1>5, PTL
<1> QED  BY <1>6, WholeDrainsAreSafe, PTL
=============================================================================
