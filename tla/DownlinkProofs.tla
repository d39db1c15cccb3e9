--------------------------- MODULE DownlinkProofs ----------------------------
(***************************************************************************)
(* Proofs about module Downlink, for any number of workers, any frame and  *)
(* read sizes, any high-water mark and any number of faults.  A frame is   *)
(* placed by the bytes it stands for: the server never winds a sequence    *)
(* number back, so what a number stands for is settled when it is drained, *)
(* whatever becomes of the reply.                                          *)
(***************************************************************************)
EXTENDS Downlink, SequenceTheorems, WellFoundedInduction, TLAPS

---------------------------------------------------------------------------
(* The invariants.                                                         *)

TxRecord == [txBuf : Seq(Nat), txSeq : Nat, synNeeded : {FALSE},
             closeReq : BOOLEAN, finSent : BOOLEAN]

Frames == [seq : Nat, syn : BOOLEAN, fin : BOOLEAN, payload : Seq(Nat)]
Items  == Frames \cup {Rst}

PollRecord == [st : {"held", "reply"}, fin : BOOLEAN, frames : Seq(Items)]

(* Parked frames, by their sequence number. *)
Queues == UNION {[D -> Frames] : D \in SUBSET Nat}

RxRecord == [rxSeq : Nat, rxQueue : Queues, rxClosed : BOOLEAN]

ServerRecord == [known : BOOLEAN, tx : TxRecord, peerFin : BOOLEAN, rst : BOOLEAN]

ClientRecord == [registered : BOOLEAN, closeReq : BOOLEAN, finSent : BOOLEAN,
                 finOld : BOOLEAN, stopped : BOOLEAN, rx : RxRecord, inbox : Seq(Frames)]

ConnRecord == [chan : Seq(Seq(Nat)), end : {"open", "fin", "torn"}, readBuf : Seq(Nat)]

(* A server's session s: its buffer passes the high-water mark by at most  *)
(* the read that met it open, and it closes after the read pump has asked. *)
ServerStands(s, done) ==
  /\ s \in ServerRecord
  /\ s.tx.closeReq => done
  /\ Len(s.tx.txBuf) <= HighWater + 1

(* Handlers are orphaned by faults. *)
Counts(x, n) == x \in Nat /\ n \in 0..MaxFaults /\ x <= n

(* A client's session c with its connection k and the reader rd: RxChan is *)
(* open as long as the receive half is.                                    *)
ClientStands(c, k, rd) ==
  /\ c \in ClientRecord
  /\ k \in ConnRecord
  /\ rd \in {"reading", "eof", "timeout"}
  /\ c.registered \/ c.stopped
  /\ rd # "reading" => c.closeReq
  /\ rd = "eof" => k.end # "open"
  /\ c.rx.rxClosed => c.inbox = <<>>
  /\ k.end = "open" <=> ~c.rx.rxClosed

Shape ==
  /\ ServerStands(srv, ended)
  /\ ended \in BOOLEAN
  /\ Counts(orphans, faults)
  /\ polls \in [Workers -> {NoPoll} \cup PollRecord]
  /\ ClientStands(cl, conn, reader)

(* The bytes after the a-th up to the b-th that the upstream sends. *)
Span(a, b) == [i \in 1..(b - a) |-> a + i]

(* A frame among the first n, where o[m] bytes come before frame m, l      *)
(* bytes have been read and done says that they are all: data is not       *)
(* empty, and the FIN stands after the last byte.                          *)
Good(f, o, n, l, done) ==
  /\ f.seq < n
  /\ f.payload = Span(o[f.seq], o[f.seq + 1])
  /\ o[f.seq + 1] <= l
  /\ f.fin => done /\ o[f.seq] = l
  /\ ~f.fin => o[f.seq] < o[f.seq + 1]
  /\ o[f.seq] <= o[f.seq + 1]

(* A transmit half whose buffer holds the bytes that no frame has taken. *)
Stocked(s, o, l, done) ==
  /\ s \in TxRecord
  /\ o[s.txSeq] <= l
  /\ s.txBuf = Span(o[s.txSeq], l)
  /\ s.closeReq => done

Offsets == [Nat -> Nat]

---------------------------------------------------------------------------
(* Arithmetic and sequences.                                               *)

LEMMA Constants ==
  /\ MaxPayload \in Nat \ {0} /\ MaxFrames \in Nat \ {0} /\ ReadSize \in Nat \ {0}
  /\ HighWater \in Nat /\ MaxBytes \in Nat /\ MaxFaults \in Nat
BY DownlinkAssumption

LEMMA CeilDivFacts ==
  ASSUME NEW a \in Nat, NEW b \in Nat \ {0}
  PROVE  /\ CeilDiv(a, b) \in Nat
         /\ CeilDiv(a, b) * b >= a
         /\ \A i \in Nat : i < CeilDiv(a, b) => i * b < a
<1> DEFINE x == a + b - 1
           q == x \div b
<1>1. x \in Nat  OBVIOUS
<1> HIDE DEF x
<1>2. q \in Int /\ b * q <= x /\ x < b * q + b  BY <1>1
<1> HIDE DEF q
<1>3. q >= 0  BY <1>1, <1>2
<1>4. q * b = b * q  BY <1>2
<1>5. q * b >= a  BY <1>2, <1>4 DEF x
<1>6. ASSUME NEW i \in Nat, i < q PROVE i * b < a
  <2>1. (i + 1) * b <= q * b  BY <1>2, <1>3, <1>6
  <2>2. (i + 1) * b = i * b + b /\ i * b \in Nat  OBVIOUS
  <2>3. q * b <= a + b - 1 /\ q * b \in Int  BY <1>2, <1>4 DEF x
  <2> QED  BY <2>1, <2>2, <2>3
<1> QED  BY <1>2, <1>3, <1>5, <1>6 DEF CeilDiv, q, x

LEMMA FunctionIsSequence ==
  ASSUME NEW S, NEW n \in Nat, NEW f \in [1..n -> S]
  PROVE  f \in Seq(S) /\ Len(f) = n
<1>1. f \in Seq(S)  BY SeqDef
<1>2. 1..Len(f) = 1..n /\ Len(f) \in Nat  BY <1>1, LenProperties
<1> QED  BY <1>1, <1>2

LEMMA Singleton ==
  ASSUME NEW S, NEW e \in S
  PROVE  <<e>> \in Seq(S) /\ Len(<<e>>) = 1 /\ <<e>>[1] = e
OBVIOUS

LEMMA Multiples ==
  ASSUME NEW p \in Nat
  PROVE  /\ \A i \in Nat : i * p \in Nat
         /\ \A i, j \in Nat : i <= j => i * p <= j * p
         /\ 0 * p = 0
OBVIOUS

LEMMA SpanFacts ==
  ASSUME NEW a \in Nat, NEW b \in Nat, a <= b
  PROVE  /\ Span(a, b) \in Seq(Nat) /\ Len(Span(a, b)) = b - a
         /\ \A i \in 1..(b - a) : Span(a, b)[i] = a + i
<1>1. Span(a, b) \in [1..(b - a) -> Nat]  BY DEF Span
<1>2. \A i \in 1..(b - a) : Span(a, b)[i] = a + i  BY DEF Span
<1>3. b - a \in Nat  OBVIOUS
<1> QED  BY <1>1, <1>2, <1>3, FunctionIsSequence

LEMMA SpanEmpty == ASSUME NEW a \in Nat PROVE Span(a, a) = <<>>
<1>1. Span(a, a) \in Seq(Nat) /\ Len(Span(a, a)) = 0  BY SpanFacts
<1> QED  BY <1>1, EmptySeq

LEMMA SpanConcat ==
  ASSUME NEW a \in Nat, NEW b \in Nat, NEW c \in Nat, a <= b, b <= c
  PROVE  Span(a, b) \o Span(b, c) = Span(a, c)
<1> DEFINE s == Span(a, b)
           t == Span(b, c)
           u == Span(a, c)
<1>1. /\ s \in Seq(Nat) /\ Len(s) = b - a /\ \A i \in 1..(b - a) : s[i] = a + i
      /\ t \in Seq(Nat) /\ Len(t) = c - b /\ \A i \in 1..(c - b) : t[i] = b + i
      /\ u \in Seq(Nat) /\ Len(u) = c - a /\ \A i \in 1..(c - a) : u[i] = a + i
  <2>1. a <= c  OBVIOUS
  <2>2. s \in Seq(Nat) /\ Len(s) = b - a /\ \A i \in 1..(b - a) : s[i] = a + i  BY SpanFacts
  <2>3. t \in Seq(Nat) /\ Len(t) = c - b /\ \A i \in 1..(c - b) : t[i] = b + i  BY SpanFacts
  <2>4. u \in Seq(Nat) /\ Len(u) = c - a /\ \A i \in 1..(c - a) : u[i] = a + i
    BY <2>1, SpanFacts
  <2> QED  BY <2>2, <2>3, <2>4
<1> HIDE DEF s, t, u
<1>2. /\ s \o t \in Seq(Nat) /\ Len(s \o t) = (b - a) + (c - b)
      /\ \A i \in 1..((b - a) + (c - b)) : (s \o t)[i] = IF i <= b - a THEN s[i] ELSE t[i - (b - a)]
  <2>1. /\ s \o t \in Seq(Nat) /\ Len(s \o t) = Len(s) + Len(t)
        /\ \A i \in 1..(Len(s) + Len(t)) : (s \o t)[i] = IF i <= Len(s) THEN s[i] ELSE t[i - Len(s)]
    BY <1>1, ConcatProperties
  <2> QED  BY <1>1, <2>1, Zenon
<1>3. (b - a) + (c - b) = c - a  OBVIOUS
<1>4. \A i \in 1..(c - a) : (s \o t)[i] = u[i]
  <2> SUFFICES ASSUME NEW i \in 1..(c - a) PROVE (s \o t)[i] = u[i]  OBVIOUS
  <2>1. CASE i <= b - a
    <3>1. i \in 1..(b - a)  BY <2>1
    <3> QED  BY <1>1, <1>2, <1>3, <2>1, <3>1
  <2>2. CASE ~(i <= b - a)
    <3>1. i - (b - a) \in 1..(c - b) /\ b + (i - (b - a)) = a + i  BY <2>2
    <3> QED  BY <1>1, <1>2, <1>3, <2>2, <3>1
  <2> QED  BY <2>1, <2>2
<1>5. s \o t = u  BY <1>1, <1>2, <1>3, <1>4, SeqEqual
<1> QED  BY <1>5 DEF s, t, u

LEMMA SpanSub ==
  ASSUME NEW a \in Nat, NEW l \in Nat, NEW x \in Nat, NEW y \in Nat, y <= l, Least(x, l) <= y
  PROVE  SubSeq(Span(a, a + l), x + 1, y) = Span(a + Least(x, l), a + y)
<1> DEFINE s == Span(a, a + l)
           g == SubSeq(s, x + 1, y)
<1>1. s \in Seq(Nat) /\ Len(s) = l /\ \A i \in 1..l : s[i] = a + i
  <2>1. a + l \in Nat /\ a <= a + l /\ (a + l) - a = l  OBVIOUS
  <2> QED  BY <2>1, SpanFacts
<1> HIDE DEF s
<1>2. CASE x >= y
  <2>1. g = <<>>
    <3>1. y < x + 1 /\ x + 1 \in Int /\ y \in Int  BY <1>2
    <3> QED  BY <3>1, SubSeqEmpty
  <2>2. a + Least(x, l) = a + y /\ a + y \in Nat  BY <1>2 DEF Least
  <2> QED  BY <2>1, <2>2, SpanEmpty DEF s
<1>3. CASE x < y
  <2>1. Least(x, l) = x  BY <1>3 DEF Least
  <2> DEFINE u == Span(a + x, a + y)
  <2>2. a + x \in Nat /\ a + y \in Nat /\ a + x <= a + y /\ (a + y) - (a + x) = y - x  BY <1>3
  <2>3. u \in Seq(Nat) /\ Len(u) = y - x /\ \A i \in 1..(y - x) : u[i] = a + x + i
    BY <2>2, SpanFacts
  <2> HIDE DEF u
  <2>4. \A i \in (x + 1)..y : s[i] \in Nat  BY <1>1
  <2>5. x + 1 <= y /\ y - (x + 1) + 1 = y - x /\ x + 1 \in Int /\ y \in Int  BY <1>3
  <2>6. g \in Seq(Nat) /\ Len(g) = y - x /\ \A i \in 1..(y - x) : g[i] = s[x + 1 + i - 1]
    BY <2>4, <2>5, SubSeqProperties
  <2> HIDE DEF g
  <2>7. \A i \in 1..(y - x) : g[i] = u[i]
    <3> SUFFICES ASSUME NEW i \in 1..(y - x) PROVE g[i] = u[i]  OBVIOUS
    <3>1. x + 1 + i - 1 \in 1..l /\ a + (x + 1 + i - 1) = a + x + i  BY <1>3
    <3> QED  BY <1>1, <2>3, <2>6, <3>1
  <2>8. g = u  BY <2>3, <2>6, <2>7, SeqEqual
  <2> QED  BY <2>1, <2>8 DEF g, s, u
<1> QED  BY <1>2, <1>3

LEMMA SpanPrefix ==
  ASSUME NEW c \in Nat, NEW l \in Nat, c <= l
  PROVE  SubSeq(Span(0, l), 1, c) = Span(0, c)
<1>1. Least(0, l) = 0 /\ 0 + l = l /\ 0 + 1 = 1 /\ 0 + 0 = 0 /\ 0 + c = c /\ 0 <= c /\ 0 \in Nat
  BY DEF Least
<1>2. Least(0, l) <= c  BY <1>1
<1>3. SubSeq(Span(0, 0 + l), 0 + 1, c) = Span(0 + Least(0, l), 0 + c)
  BY <1>1, <1>2, SpanSub
<1> QED  BY <1>1, <1>3

LEMMA LeastElement ==
  ASSUME NEW T \in SUBSET Nat, T # {}
  PROVE  \E m \in T : \A n \in T : m <= n
<1>1. PICK m \in T : \A n \in T : ~ (<<n, m>> \in OpToRel(<, Nat))
  BY NatLessThanWellFounded, WFMin, Zenon
<1>2. \A n \in T : ~ (n < m)  BY <1>1 DEF OpToRel
<1> QED  BY <1>2

---------------------------------------------------------------------------
(* drainTx of a session that has sent its SYN.                             *)

(* How many data frames it makes, and how many bytes they take: none of    *)
(* them is empty, and a slot is left for the FIN only after the last byte. *)
LEMMA DrainCounts ==
  ASSUME NEW s \in TxRecord, NEW mf \in Nat \ {0}
  PROVE  LET n == Least(mf, DataFrames(s, MaxPayload))
             taken == Least(n * MaxPayload, Len(s.txBuf))
         IN  /\ n \in 0..mf /\ taken \in 0..Len(s.txBuf)
             /\ n < mf => taken = Len(s.txBuf)
             /\ \A i \in Nat : i < n => i * MaxPayload < Len(s.txBuf)
<1> DEFINE l == Len(s.txBuf)
           k == DataFrames(s, MaxPayload)
           n == Least(mf, k)
           taken == Least(n * MaxPayload, l)
<1>1. l \in Nat /\ s.synNeeded = FALSE  BY LenProperties DEF TxRecord
<1>2. k = CeilDiv(l, MaxPayload)  BY <1>1 DEF DataFrames
<1> HIDE DEF l
<1>3. k \in Nat /\ k * MaxPayload >= l /\ \A i \in Nat : i < k => i * MaxPayload < l
  BY <1>1, <1>2, CeilDivFacts, Constants
<1> HIDE DEF k
<1>4. n \in 0..mf /\ n <= k /\ (n < mf => n = k)  BY <1>3 DEF Least
<1> HIDE DEF n
<1>5. n * MaxPayload \in Nat  BY <1>4, Constants
<1>6. taken \in 0..l  BY <1>1, <1>5 DEF Least
<1>7. n < mf => taken = l  BY <1>1, <1>3, <1>4, <1>5 DEF Least
<1>8. \A i \in Nat : i < n => i * MaxPayload < l
  <2>1. \A i \in Nat : i < n => i < k  BY <1>3, <1>4
  <2> QED  BY <1>3, <2>1
<1> QED  BY <1>4, <1>6, <1>7, <1>8 DEF n, k, l

(* Consecutive frames, and a FIN only after the last byte. *)
LEMMA DrainShape ==
  ASSUME NEW s \in TxRecord, NEW mf \in Nat \ {0}
  PROVE  LET d == DrainTx(s, MaxPayload, mf)
             n == Least(mf, DataFrames(s, MaxPayload))
             taken == Least(n * MaxPayload, Len(s.txBuf))
             fin == FinPending(s) /\ n < mf
         IN  /\ d.frames \in Seq(Frames)
             /\ Len(d.frames) = n + (IF fin THEN 1 ELSE 0)
             /\ \A i \in 1..Len(d.frames) :
                  /\ d.frames[i].seq = s.txSeq + i - 1
                  /\ d.frames[i].fin = (fin /\ i = n + 1)
                  /\ i <= n => d.frames[i].payload =
                                 SubSeq(s.txBuf, (i - 1) * MaxPayload + 1,
                                        Least(i * MaxPayload, Len(s.txBuf)))
                  /\ i = n + 1 => d.frames[i].payload = <<>>
             /\ d.sess \in TxRecord
             /\ d.sess.txBuf = SubSeq(s.txBuf, taken + 1, Len(s.txBuf))
             /\ d.sess.txSeq = s.txSeq + Len(d.frames)
             /\ d.sess.closeReq = s.closeReq
             /\ d.sess.finSent = (s.finSent \/ fin)
<1> DEFINE d == DrainTx(s, MaxPayload, mf)
           n == Least(mf, DataFrames(s, MaxPayload))
           l == Len(s.txBuf)
           taken == Least(n * MaxPayload, l)
           fin == FinPending(s) /\ n < mf
           chunk(i) == SubSeq(s.txBuf, (i - 1) * MaxPayload + 1, Least(i * MaxPayload, l))
           data == [i \in 1..n |->
                      Frame(s.txSeq + i - 1, s.synNeeded /\ i = 1, FALSE, chunk(i))]
           last == Frame(s.txSeq + n, FALSE, TRUE, <<>>)
           tail == IF fin THEN <<last>> ELSE <<>>
           k == IF fin THEN 1 ELSE 0
           rest == SubSeq(s.txBuf, taken + 1, l)
<1>1. /\ s.txBuf \in Seq(Nat) /\ l \in Nat /\ s.txSeq \in Nat /\ s.synNeeded = FALSE
      /\ s.closeReq \in BOOLEAN /\ s.finSent \in BOOLEAN
      /\ \A i \in 1..l : s.txBuf[i] \in Nat
  BY LenProperties, ElementOfSeq DEF TxRecord
<1>2. n \in 0..mf /\ n \in Nat /\ taken \in 0..l  BY DrainCounts
<1>3. /\ d.frames = data \o tail
      /\ d.sess = [s EXCEPT !.txBuf = SubSeq(@, taken + 1, Len(@)),
                            !.txSeq = @ + n + Len(tail),
                            !.synNeeded = @ /\ n = 0,
                            !.finSent = @ \/ fin]
  BY DEF DrainTx
<1>4. fin \in BOOLEAN  BY DEF FinPending
<1> HIDE DEF n, taken, l, d, fin
<1>5. \A i \in 1..n : chunk(i) \in Seq(Nat)
  <2> SUFFICES ASSUME NEW i \in 1..n PROVE chunk(i) \in Seq(Nat)  OBVIOUS
  <2> DEFINE a == (i - 1) * MaxPayload
             b == i * MaxPayload
  <2>1. a \in Nat /\ b \in Nat  BY <1>2, Constants
  <2> HIDE DEF a, b
  <2>2. a + 1 \in Int /\ Least(b, l) \in Int /\ Least(b, l) <= l  BY <1>1, <2>1 DEF Least
  <2>3. \A j \in (a + 1)..Least(b, l) : s.txBuf[j] \in Nat  BY <1>1, <2>1, <2>2
  <2>4. SubSeq(s.txBuf, a + 1, Least(b, l)) \in Seq(Nat)  BY <2>2, <2>3, SubSeqProperties
  <2> QED  BY <2>4 DEF a, b
<1> HIDE DEF chunk
<1>6. \A i \in 1..n : data[i] \in Frames  BY <1>1, <1>2, <1>5 DEF Frame, Frames
<1>7. data \in Seq(Frames) /\ Len(data) = n
  <2>1. data \in [1..n -> Frames]  BY <1>6
  <2> QED  BY <1>2, <2>1, FunctionIsSequence
<1>8. last \in Frames  BY <1>1, <1>2, EmptySeq DEF Frame, Frames
<1>9. tail \in Seq(Frames) /\ Len(tail) = k /\ (fin => tail[1] = last)
  <2> HIDE DEF last, data
  <2>1. CASE fin
    <3>1. tail = <<last>> /\ k = 1  BY <2>1
    <3> HIDE DEF tail, k
    <3> QED  BY <1>8, <3>1, Singleton
  <2>2. CASE ~fin
    <3>1. tail = <<>> /\ k = 0  BY <2>2
    <3> HIDE DEF tail, k
    <3> QED  BY <2>2, <3>1, EmptySeq
  <2> QED  BY <2>1, <2>2
<1>10. /\ d.frames \in Seq(Frames) /\ Len(d.frames) = n + k
       /\ \A i \in 1..(n + k) : d.frames[i] = IF i <= n THEN data[i] ELSE tail[i - n]
  <2> HIDE DEF data, tail, k
  <2>1. /\ data \o tail \in Seq(Frames) /\ Len(data \o tail) = Len(data) + Len(tail)
        /\ \A i \in 1..(Len(data) + Len(tail)) :
             (data \o tail)[i] = IF i <= Len(data) THEN data[i] ELSE tail[i - Len(data)]
    BY <1>7, <1>9, ConcatProperties
  <2> QED  BY <1>3, <1>7, <1>9, <2>1, Zenon
<1>11. \A i \in 1..(n + k) : i <= n \/ (fin /\ i = n + 1 /\ i - n = 1)  BY <1>2, <1>4
<1>12. /\ \A i \in 1..n : /\ data[i].seq = s.txSeq + i - 1
                          /\ data[i].fin = FALSE
                          /\ data[i].payload = chunk(i)
       /\ last.seq = s.txSeq + n /\ last.fin = TRUE /\ last.payload = <<>>
  BY DEF Frame
<1>13. ASSUME NEW i \in 1..Len(d.frames)
       PROVE  /\ d.frames[i].seq = s.txSeq + i - 1
              /\ d.frames[i].fin = (fin /\ i = n + 1)
              /\ i <= n => d.frames[i].payload = chunk(i)
              /\ i = n + 1 => d.frames[i].payload = <<>>
  <2> HIDE DEF data, last, tail
  <2>0. i \in 1..(n + k)  BY <1>10
  <2>1. CASE i <= n
    <3>1. d.frames[i] = data[i] /\ i \in 1..n /\ i # n + 1  BY <1>2, <1>10, <2>0, <2>1
    <3> QED  BY <1>12, <3>1
  <2>2. CASE ~(i <= n)
    <3>1. fin /\ i = n + 1 /\ i - n = 1  BY <1>11, <2>0, <2>2
    <3>2. d.frames[i] = last  BY <1>9, <1>10, <2>0, <2>2, <3>1
    <3>3. s.txSeq + n = s.txSeq + i - 1  BY <1>1, <1>2, <3>1
    <3> QED  BY <1>12, <2>2, <3>1, <3>2, <3>3
  <2> QED  BY <2>1, <2>2
<1>14. rest \in Seq(Nat)
  <2>1. \A j \in (taken + 1)..l : s.txBuf[j] \in Nat  BY <1>1, <1>2
  <2> QED  BY <1>1, <1>2, <2>1, SubSeqProperties
<1>15. /\ d.sess.txBuf = rest /\ d.sess.txSeq = s.txSeq + n + k
       /\ d.sess.closeReq = s.closeReq
       /\ d.sess.finSent = (s.finSent \/ fin)
       /\ d.sess \in TxRecord
  <2> DEFINE q == s.txSeq + n + k
             y == s.synNeeded /\ n = 0
             z == s.finSent \/ fin
  <2>1. q \in Nat /\ y = FALSE /\ z \in BOOLEAN  BY <1>1, <1>2, <1>4
  <2>2. d.sess = [s EXCEPT !.txBuf = rest, !.txSeq = q, !.synNeeded = y, !.finSent = z]
    BY <1>3, <1>9 DEF l
  <2> HIDE DEF q, y, z, rest
  <2>3. /\ d.sess.txBuf = rest /\ d.sess.txSeq = q
        /\ d.sess.finSent = z /\ d.sess.closeReq = s.closeReq /\ d.sess \in TxRecord
    BY <1>14, <2>1, <2>2 DEF TxRecord
  <2> QED  BY <2>3 DEF q, y, z
<1>16. s.txSeq + n + k = s.txSeq + Len(d.frames)
  <2>1. k \in Nat  OBVIOUS
  <2> HIDE DEF data, tail, last, k, rest
  <2>2. s.txSeq + n + k = s.txSeq + (n + k)  BY <1>1, <1>2, <2>1
  <2> QED  BY <1>10, <2>2
<1> HIDE DEF data, tail, last
<1> QED
  <2> HIDE DEF k, rest
  <2>1. Len(d.frames) = n + k  BY <1>10
  <2> QED  BY <1>3, <1>10, <1>13, <1>15, <1>16, <2>1 DEF d, n, taken, l, fin, chunk, k, rest

(* drainTx numbers the bytes it takes: frame by frame, without a gap.      *)
LEMMA DrainPlaces ==
  ASSUME NEW s, NEW mf \in Nat \ {0}, NEW l \in Nat, NEW done,
         NEW o \in Offsets, Stocked(s, o, l, done)
  PROVE  LET d == DrainTx(s, MaxPayload, mf)
         IN  \E u \in Offsets :
               /\ \A m \in Nat : m <= s.txSeq => u[m] = o[m]
               /\ s.txSeq <= d.sess.txSeq
               /\ Stocked(d.sess, u, l, done)
               /\ \A i \in DOMAIN d.frames : Good(d.frames[i], u, d.sess.txSeq, l, done)
<1> DEFINE d == DrainTx(s, MaxPayload, mf)
           n == Least(mf, DataFrames(s, MaxPayload))
           c == Len(s.txBuf)
           taken == Least(n * MaxPayload, c)
           fin == FinPending(s) /\ n < mf
           k == Len(d.frames)
           q == s.txSeq
           a == o[q]
           At(i) == Least(i * MaxPayload, taken)
           u == [m \in Nat |-> IF m <= q THEN o[m] ELSE a + At(m - q)]
<1>0. s \in TxRecord /\ o[q] <= l /\ s.txBuf = Span(o[q], l) /\ (s.closeReq => done)
  BY DEF Stocked
<1>1. q \in Nat /\ s.txBuf \in Seq(Nat)  BY <1>0 DEF TxRecord
<1>2. a \in Nat /\ a <= l /\ c = l - a /\ s.txBuf = Span(a, l)
  <2>1. a \in Nat  BY <1>1 DEF Offsets
  <2>2. Len(Span(a, l)) = l - a  BY <1>0, <2>1, SpanFacts
  <2> QED  BY <1>0, <2>1, <2>2
<1>4. /\ n \in Nat /\ taken \in 0..c
      /\ n < mf => taken = c
      /\ \A i \in Nat : i < n => i * MaxPayload < c
  BY <1>0, DrainCounts
<1>6. /\ d.frames \in Seq(Frames) /\ d.sess.txSeq = q + k
      /\ k = n + (IF fin THEN 1 ELSE 0)
      /\ \A i \in 1..k : /\ d.frames[i].seq = q + i - 1
                         /\ d.frames[i].fin = (fin /\ i = n + 1)
                         /\ i <= n => d.frames[i].payload =
                                        SubSeq(s.txBuf, (i - 1) * MaxPayload + 1,
                                               Least(i * MaxPayload, c))
                         /\ i = n + 1 => d.frames[i].payload = <<>>
      /\ d.sess.txBuf = SubSeq(s.txBuf, taken + 1, c)
      /\ d.sess \in TxRecord /\ d.sess.closeReq = s.closeReq
  BY <1>0, DrainShape
<1>7. fin => done /\ taken = c  BY <1>0, <1>4 DEF FinPending
<1>8. MaxPayload \in Nat /\ MaxPayload >= 1  BY Constants
<1>9. taken <= n * MaxPayload /\ (taken = n * MaxPayload \/ taken = c)
  <2>1. n * MaxPayload \in Nat /\ c \in Nat  BY <1>2, <1>4, <1>8, Multiples
  <2> QED  BY <2>1 DEF Least
<1> HIDE DEF d, n, c, taken, fin, q, a
<1>10. k \in Nat /\ DOMAIN d.frames = 1..k /\ n <= k /\ c \in Nat /\ taken \in Nat /\ l = a + c
       /\ taken <= c
  <2>1. k \in Nat /\ DOMAIN d.frames = 1..k  BY <1>6, LenProperties
  <2> HIDE DEF k
  <2>2. n <= k  BY <1>4, <1>6
  <2> QED  BY <1>2, <1>4, <2>1, <2>2
<1> HIDE DEF k
<1>11. /\ \A i \in Nat : At(i) \in Nat /\ At(i) <= taken
       /\ \A i, j \in Nat : i <= j => At(i) <= At(j)
       /\ At(0) = 0
       /\ \A i \in Nat : n <= i => At(i) = taken
       /\ \A i \in Nat : i <= n => At(i) = Least(i * MaxPayload, c)
  <2>1. /\ \A i \in Nat : i * MaxPayload \in Nat
        /\ \A i, j \in Nat : i <= j => i * MaxPayload <= j * MaxPayload
        /\ 0 * MaxPayload = 0
    BY <1>8, Multiples
  <2>2. \A x \in Nat : Least(x, taken) \in Nat /\ Least(x, taken) <= taken
    BY <1>10 DEF Least
  <2>3. \A x, y \in Nat : x <= y => Least(x, taken) <= Least(y, taken)  BY <1>10 DEF Least
  <2>4. \A x \in Nat : taken <= x => Least(x, taken) = taken  BY <1>10 DEF Least
  <2>5. \A x \in Nat : x <= n * MaxPayload => Least(x, taken) = Least(x, c)
    <3>1. PICK w \in Nat : w = n * MaxPayload  BY <1>4, <2>1
    <3>2. \A x \in Nat : x <= w => Least(x, taken) = Least(x, c)
      BY <1>9, <1>10, <3>1 DEF Least
    <3> QED  BY <3>1, <3>2
  <2>6. \A i \in Nat : n <= i => taken <= i * MaxPayload
    <3> SUFFICES ASSUME NEW i \in Nat, n <= i PROVE taken <= i * MaxPayload  OBVIOUS
    <3>1. n * MaxPayload <= i * MaxPayload /\ n * MaxPayload \in Nat /\ i * MaxPayload \in Nat
      BY <1>4, <2>1
    <3> QED  BY <1>9, <1>10, <3>1
  <2>7. Least(0, taken) = 0  BY <1>10 DEF Least
  <2> QED  BY <1>4, <2>1, <2>2, <2>3, <2>4, <2>5, <2>6, <2>7
<1>12. \A i \in 1..n : At(i - 1) < At(i)
  <2> SUFFICES ASSUME NEW i \in 1..n PROVE At(i - 1) < At(i)  OBVIOUS
  <2>1. i \in Nat /\ i - 1 \in Nat /\ i - 1 < n /\ i <= n /\ i - 1 <= n  BY <1>4
  <2> DEFINE x == (i - 1) * MaxPayload
             y == i * MaxPayload
  <2>2. At(i - 1) = Least(x, c) /\ At(i) = Least(y, c)  BY <1>11, <2>1
  <2>3. x < c  BY <1>4, <2>1
  <2>4. x \in Nat /\ y \in Nat  BY <1>8, <2>1, Multiples
  <2>5. y = x + MaxPayload  BY <1>8, <2>1
  <2> HIDE DEF x, y, At
  <2>6. Least(x, c) = x  BY <1>10, <2>3, <2>4 DEF Least
  <2>7. x < Least(y, c)  BY <1>8, <1>10, <2>3, <2>4, <2>5 DEF Least
  <2> QED  BY <2>2, <2>6, <2>7
<1> HIDE DEF At
<1>13. /\ u \in Offsets
       /\ \A m \in Nat : m <= q => u[m] = o[m]
       /\ \A i \in Nat : q + i \in Nat /\ u[q + i] = a + At(i)
  <2>1. ASSUME NEW m \in Nat PROVE u[m] \in Nat
    <3>1. CASE m <= q  BY <3>1 DEF Offsets
    <3>2. CASE ~(m <= q)
      <4>1. m - q \in Nat  BY <1>1, <3>2
      <4>2. a + At(m - q) \in Nat  BY <1>2, <1>11, <4>1
      <4> QED  BY <3>2, <4>2
    <3> QED  BY <3>1, <3>2
  <2>2. ASSUME NEW i \in Nat PROVE q + i \in Nat /\ u[q + i] = a + At(i)
    <3>0. q + i \in Nat  BY <1>1
    <3>1. CASE i = 0
      <4>1. q + i = q /\ q <= q  BY <1>1, <3>1
      <4>2. u[q + i] = a  BY <1>1, <4>1 DEF a
      <4> QED  BY <1>2, <1>11, <3>0, <3>1, <4>2
    <3>2. CASE i # 0
      <4>1. ~(q + i <= q) /\ (q + i) - q = i  BY <1>1, <3>2
      <4> QED  BY <3>0, <4>1
    <3> QED  BY <3>1, <3>2
  <2> QED  BY <2>1, <2>2 DEF Offsets
<1> HIDE DEF u
<1>14. u[q + k] = a + taken  BY <1>10, <1>11, <1>13
<1>15. a + taken <= l  BY <1>2, <1>10
<1>16. d.sess.txBuf = Span(a + taken, l)
  <2>1. c <= c /\ Least(taken, c) = taken  BY <1>10 DEF Least
  <2>2. SubSeq(Span(a, a + c), taken + 1, c) = Span(a + Least(taken, c), a + c)
    <3>1. Least(taken, c) <= c  BY <1>10, <2>1
    <3>2. a \in Nat /\ c \in Nat /\ taken \in Nat /\ c <= c  BY <1>2, <1>10
    <3> QED  BY <3>1, <3>2, SpanSub
  <2> QED  BY <1>2, <1>6, <1>10, <2>1, <2>2
<1>17. \A i \in 1..k : Good(d.frames[i], u, q + k, l, done)
  <2> SUFFICES ASSUME NEW i \in 1..k PROVE Good(d.frames[i], u, q + k, l, done)  OBVIOUS
  <2>1. i \in Nat /\ i - 1 \in Nat /\ q + i - 1 = q + (i - 1) /\ q + (i - 1) + 1 = q + i
        /\ i - 1 <= i /\ q + (i - 1) < q + k
    BY <1>1, <1>10
  <2>2. /\ d.frames[i].seq = q + (i - 1)
        /\ u[q + (i - 1)] = a + At(i - 1) /\ u[q + (i - 1) + 1] = a + At(i)
    BY <1>6, <1>13, <2>1
  <2>3. /\ At(i - 1) \in Nat /\ At(i) \in Nat /\ At(i - 1) <= At(i) /\ At(i) <= taken
    BY <1>11, <2>1
  <2>4. a + At(i) <= l /\ a + At(i - 1) <= a + At(i)  BY <1>2, <1>10, <1>15, <2>3
  <2>5. CASE i <= n
    <3>1. ~d.frames[i].fin
      <4>1. i # n + 1  BY <1>4, <2>5
      <4> QED  BY <1>6, <4>1
    <3>2. a + At(i - 1) < a + At(i)
      <4>1. At(i - 1) < At(i)  BY <1>4, <1>12, <2>1, <2>5
      <4> QED  BY <1>2, <2>3, <4>1
    <3>3. d.frames[i].payload = Span(a + At(i - 1), a + At(i))
      <4> DEFINE x == (i - 1) * MaxPayload
                 y == Least(i * MaxPayload, c)
      <4>0. i * MaxPayload \in Nat  BY <1>8, <2>1, Multiples
      <4>1. x \in Nat /\ y \in Nat /\ y <= c
        <5>1. x \in Nat  BY <1>8, <2>1, Multiples
        <5> HIDE DEF x
        <5> QED  BY <1>10, <4>0, <5>1 DEF Least
      <4>2. i - 1 <= n  BY <1>4, <2>5
      <4>3. At(i) = y /\ At(i - 1) = Least(x, c)  BY <1>11, <2>1, <2>5, <4>2
      <4>4. Least(x, c) <= y  BY <2>3, <4>3
      <4>5. d.frames[i].payload = SubSeq(Span(a, a + c), x + 1, y)
        BY <1>2, <1>6, <1>10, <2>5
      <4> HIDE DEF x, y
      <4>6. SubSeq(Span(a, a + c), x + 1, y) = Span(a + Least(x, c), a + y)
        <5>1. a \in Nat /\ c \in Nat  BY <1>2, <1>10
        <5> QED  BY <4>1, <4>4, <5>1, SpanSub
      <4> QED  BY <4>3, <4>5, <4>6
    <3> QED  BY <2>1, <2>2, <2>4, <3>1, <3>2, <3>3 DEF Good
  <2>6. CASE ~(i <= n)
    <3>1. i = n + 1 /\ n <= i - 1 /\ n <= i /\ fin
      <4>1. k = n + (IF fin THEN 1 ELSE 0)  BY <1>6
      <4>2. fin => k = n + 1  BY <4>1, Zenon
      <4>3. ~fin => k = n
        <5>1. ~fin => k = n + 0  BY <4>1, Zenon
        <5> QED  BY <1>4, <5>1
      <4> QED  BY <1>4, <1>10, <2>6, <4>2, <4>3
    <3>2. At(i - 1) = taken /\ At(i) = taken  BY <1>11, <2>1, <3>1
    <3>3. d.frames[i].payload = <<>>  BY <1>6, <3>1
    <3>4. a + taken \in Nat /\ a + taken = l  BY <1>2, <1>7, <1>10, <3>1
    <3>5. d.frames[i].payload = Span(a + At(i - 1), a + At(i))
      BY <3>2, <3>3, <3>4, SpanEmpty
    <3>6. d.frames[i].fin /\ done
      <4>1. d.frames[i].fin = (fin /\ i = n + 1)  BY <1>6
      <4> QED  BY <1>7, <3>1, <4>1
    <3> QED  BY <2>1, <2>2, <2>4, <3>2, <3>4, <3>5, <3>6 DEF Good
  <2> QED  BY <2>5, <2>6
<1>18. q <= q + k  BY <1>1, <1>10
<1> QED
  <2>1. d.sess.txSeq = q + k /\ DOMAIN d.frames = 1..k  BY <1>6, <1>10
  <2>2. Stocked(d.sess, u, l, done)
    BY <1>0, <1>6, <1>14, <1>15, <1>16, <2>1 DEF Stocked
  <2>3. /\ u \in Offsets
        /\ \A m \in Nat : m <= s.txSeq => u[m] = o[m]
        /\ s.txSeq <= d.sess.txSeq
        /\ \A i \in DOMAIN d.frames : Good(d.frames[i], u, d.sess.txSeq, l, done)
    BY <1>13, <1>17, <1>18, <2>1 DEF q
  <2> QED  BY <2>2, <2>3 DEF d

---------------------------------------------------------------------------
(* deliverRx, with frames parked out of order.                             *)

(* toSend: of a run only the FIN, its last frame, has no payload. *)
LEMMA ToSendRun ==
  ASSUME NEW run \in Seq(Frames), NEW k \in Nat, k <= Len(run), Len(run) <= k + 1,
         \A i \in 1..k : run[i].payload # <<>>,
         k < Len(run) => run[Len(run)].payload = <<>>
  PROVE  ToSend(run) = [i \in 1..k |-> run[i].payload]
<1> DEFINE L == Len(run)
           p(i) == run[i].payload
           Step(g) == [i \in 0..L |->
                         IF i = 0 THEN <<>>
                         ELSE IF run[i].payload = <<>> THEN g[i - 1]
                         ELSE Append(g[i - 1], run[i].payload)]
           h == CHOOSE g : g = Step(g)
           First(i) == [j \in 1..i |-> p(j)]
           W == [i \in 0..L |-> First(Least(i, k))]
<1>1. L \in Nat /\ DOMAIN run = 1..L /\ \A i \in 1..L : p(i) \in Seq(Nat)
  <2>1. L \in Nat /\ DOMAIN run = 1..L  BY LenProperties
  <2>2. \A i \in 1..L : run[i] \in Frames  BY <2>1, ElementOfSeq
  <2> QED  BY <2>1, <2>2 DEF Frames
<1>2. \A i \in 0..k : First(i) \in Seq(Seq(Nat)) /\ Len(First(i)) = i
                     /\ \A j \in 1..i : First(i)[j] = p(j)
  <2> SUFFICES ASSUME NEW i \in 0..k
               PROVE  First(i) \in Seq(Seq(Nat)) /\ Len(First(i)) = i
                      /\ \A j \in 1..i : First(i)[j] = p(j)
    OBVIOUS
  <2>1. i \in Nat /\ \A j \in 1..i : j \in 1..L  BY <1>1
  <2>2. First(i) \in [1..i -> Seq(Nat)]  BY <1>1, <2>1
  <2>3. First(i) \in Seq(Seq(Nat)) /\ Len(First(i)) = i
    <3> DEFINE S == Seq(Nat)
               F == First(i)
    <3>1. F \in [1..i -> S]  BY <2>2
    <3> HIDE DEF S, F
    <3>2. F \in Seq(S) /\ Len(F) = i  BY <2>1, <3>1, FunctionIsSequence
    <3> QED  BY <3>2 DEF S, F
  <2> QED  BY <2>3
<1>3. First(0) = <<>>
  <2>1. First(0) \in Seq(Seq(Nat)) /\ Len(First(0)) = 0  BY <1>2
  <2> HIDE DEF First
  <2> QED  BY <2>1, EmptySeq
<1>4. ASSUME NEW i \in 1..k PROVE First(i) = Append(First(i - 1), p(i))
  <2> DEFINE s == First(i - 1)
             t == First(i)
             e == p(i)
  <2>1. i - 1 \in 0..k /\ i \in 0..k /\ i \in 1..L /\ i - 1 + 1 = i /\ i \in Nat
    BY <1>1
  <2>2. /\ s \in Seq(Seq(Nat)) /\ Len(s) = i - 1 /\ \A j \in 1..(i - 1) : s[j] = p(j)
        /\ t \in Seq(Seq(Nat)) /\ Len(t) = i /\ \A j \in 1..i : t[j] = p(j)
        /\ e \in Seq(Nat)
    BY <1>1, <1>2, <2>1
  <2> HIDE DEF s, t, First
  <2> DEFINE w == Append(s, e)
  <2>3. /\ w \in Seq(Seq(Nat)) /\ Len(w) = i
        /\ \A j \in 1..(i - 1) : w[j] = s[j]
        /\ w[i] = e
    BY <2>1, <2>2, AppendProperties
  <2> HIDE DEF w
  <2>4. \A j \in 1..i : w[j] = t[j]
    <3> SUFFICES ASSUME NEW j \in 1..i PROVE w[j] = t[j]  OBVIOUS
    <3>1. j \in 1..(i - 1) \/ j = i  BY <2>1
    <3> QED  BY <2>2, <2>3, <3>1
  <2>5. w = t  BY <2>2, <2>3, <2>4, SeqEqual
  <2> QED  BY <2>5 DEF w, s, t
<1> HIDE DEF First
<1>5. W = Step(W)
  <2>1. ASSUME NEW i \in 0..L PROVE W[i] = Step(W)[i]
    <3>1. CASE i = 0
      <4>1. Least(0, k) = 0  BY DEF Least
      <4> QED  BY <1>3, <3>1, <4>1
    <3>2. CASE i # 0 /\ i <= k
      <4>1. i \in 1..k /\ i - 1 \in 0..L /\ Least(i, k) = i /\ Least(i - 1, k) = i - 1
        BY <1>1, <3>2 DEF Least
      <4>2. p(i) # <<>>  BY <4>1
      <4>3. W[i] = First(i) /\ W[i - 1] = First(i - 1)  BY <4>1
      <4>4. Step(W)[i] = Append(W[i - 1], p(i))  BY <3>2, <4>2
      <4> QED  BY <1>4, <4>1, <4>3, <4>4
    <3>3. CASE ~(i <= k)
      <4>0. L = k + 1 /\ i = k + 1
        <5>1. L \in Nat /\ k <= L /\ L <= k + 1 /\ i \in 0..L  BY <1>1
        <5> HIDE DEF L
        <5> QED  BY <3>3, <5>1
      <4>1. i = L /\ k < L /\ i # 0 /\ i - 1 \in 0..L /\ Least(i, k) = k /\ Least(i - 1, k) = k
        <5>1. Least(k + 1, k) = k /\ Least(k + 1 - 1, k) = k /\ k < k + 1 /\ k + 1 # 0
              /\ k + 1 - 1 \in 0..(k + 1)
          BY DEF Least
        <5> HIDE DEF L
        <5> QED  BY <4>0, <5>1
      <4>2. p(i) = <<>>  BY <4>1
      <4>3. W[i] = First(k) /\ W[i - 1] = First(k)  BY <4>1
      <4>4. Step(W)[i] = W[i - 1]  BY <4>1, <4>2
      <4> QED  BY <4>3, <4>4
    <3> QED  BY <3>1, <3>2, <3>3
  <2>2. DOMAIN W = 0..L /\ W = [i \in 0..L |-> W[i]]  OBVIOUS
  <2> HIDE DEF W
  <2>3. Step(W) = [i \in 0..L |-> Step(W)[i]]  OBVIOUS
  <2> HIDE DEF Step
  <2> QED  BY <2>1, <2>2, <2>3
<1>6. h = Step(h)  BY <1>5
<1>7. ToSend(run) = h[L]  BY DEF ToSend
<1> HIDE DEF h, W
<1>8. \A i \in 0..L : h[i] = W[i]
  <2> DEFINE T == {i \in 0..L : h[i] # W[i]}
  <2> SUFFICES ASSUME T # {} PROVE FALSE  OBVIOUS
  <2>1. T \in SUBSET Nat  BY <1>1
  <2>2. PICK m \in T : \A i \in T : m <= i  BY <2>1, LeastElement
  <2>3. m \in 0..L /\ h[m] # W[m]  OBVIOUS
  <2>4. h[m] = Step(h)[m] /\ W[m] = Step(W)[m]  BY <1>5, <1>6
  <2>5. m # 0
    <3> SUFFICES ASSUME m = 0 PROVE FALSE  OBVIOUS
    <3>1. Step(h)[0] = <<>> /\ Step(W)[0] = <<>>  BY <1>1
    <3> QED  BY <2>3, <2>4, <3>1
  <2>6. m - 1 \in 0..L /\ m - 1 \in Nat /\ ~(m <= m - 1)  BY <1>1, <2>3, <2>5
  <2>7. h[m - 1] = W[m - 1]  BY <2>2, <2>6
  <2>8. Step(h)[m] = IF p(m) = <<>> THEN h[m - 1] ELSE Append(h[m - 1], p(m))
    BY <2>3, <2>5
  <2>9. Step(W)[m] = IF p(m) = <<>> THEN W[m - 1] ELSE Append(W[m - 1], p(m))
    BY <2>3, <2>5
  <2> HIDE DEF Step
  <2> QED  BY <2>3, <2>4, <2>7, <2>8, <2>9
<1>9. W[L] = First(k)
  <2>1. Least(L, k) = k /\ L \in 0..L  BY <1>1 DEF Least
  <2> QED  BY <2>1 DEF W
<1>10. h[L] = W[L]  BY <1>1, <1>8
<1> QED  BY <1>7, <1>9, <1>10 DEF First

(* The run that deliverRx takes is there: frames are finitely many. *)
LEMMA RunEndFacts ==
  ASSUME NEW q, NEW lo \in Nat, NEW n \in Nat, lo \in DOMAIN q,
         \A m \in DOMAIN q : m \in Nat /\ m < n
  PROVE  LET hi == RunEnd(q, lo)
         IN  /\ hi \in DOMAIN q /\ hi >= lo
             /\ \A m \in lo..hi : m \in DOMAIN q
             /\ \A m \in lo..(hi - 1) : ~q[m].fin
             /\ q[hi].fin \/ hi + 1 \notin DOMAIN q
<1> DEFINE T == {m \in Nat : m >= lo /\ (m + 1 \notin DOMAIN q \/ q[m].fin)}
<1>1. n \in T
  <2>1. n + 1 \notin DOMAIN q
    <3>1. ~(n + 1 < n)  OBVIOUS
    <3> QED  BY <3>1
  <2>2. n >= lo  OBVIOUS
  <2> QED  BY <2>1, <2>2
<1>2. PICK hi \in T : \A m \in T : hi <= m  BY <1>1, LeastElement
<1>3. hi \in Nat /\ hi >= lo /\ (hi + 1 \notin DOMAIN q \/ q[hi].fin)  OBVIOUS
<1>4. ASSUME NEW m \in lo..hi PROVE m \in DOMAIN q
  <2>1. CASE m = lo  BY <2>1
  <2>2. CASE m # lo
    <3>1. m - 1 \in Nat /\ m - 1 >= lo /\ ~(hi <= m - 1) /\ m - 1 + 1 = m  BY <1>3, <2>2
    <3>2. m - 1 \notin T  BY <1>2, <3>1
    <3> QED  BY <3>1, <3>2
  <2> QED  BY <2>1, <2>2
<1>5. ASSUME NEW m \in lo..(hi - 1) PROVE ~q[m].fin
  <2>1. m \in Nat /\ m >= lo /\ ~(hi <= m)  BY <1>3
  <2>2. m \notin T  BY <1>2, <2>1
  <2> QED  BY <2>1, <2>2
<1>6. hi \in DOMAIN q  BY <1>3, <1>4
<1> QED  BY <1>3, <1>4, <1>5, <1>6 DEF RunEnd

(* Parked frames stand under their sequence numbers. *)
Parked(q, o, n, l, done) ==
  \A m \in DOMAIN q : q[m].seq = m /\ Good(q[m], o, n, l, done)

(* An open receive half that waits for one of the first n frames or the next. *)
Receives(r, o, n, l, done) ==
  /\ r \in RxRecord
  /\ ~r.rxClosed
  /\ r.rxSeq <= n
  /\ Parked(r.rxQueue, o, n, l, done)

(* What one call of deliverRx yields: the payloads of k frames in order,   *)
(* and a receive half that waits for the next one or is at the end.        *)
Delivery(d, r, o, n, l, done, k) ==
  /\ r.rxSeq + k <= n
  /\ d.out = [i \in 1..k |-> Span(o[r.rxSeq + i - 1], o[r.rxSeq + i])]
  /\ \A i \in 1..k : o[r.rxSeq + i - 1] <= o[r.rxSeq + i] /\ o[r.rxSeq + i] <= l
  /\ d.closing \in BOOLEAN
  /\ ~d.closing => Receives(d.rx, o, n, l, done) /\ d.rx.rxSeq = r.rxSeq + k
  /\ d.closing => done /\ o[r.rxSeq + k] = l

LEMMA WithFrameFacts ==
  ASSUME NEW o, NEW n \in Nat, NEW l, NEW done, NEW f \in Frames, Good(f, o, n, l, done),
         NEW q \in Queues, Parked(q, o, n, l, done)
  PROVE  /\ WithFrame(q, f) \in Queues
         /\ Parked(WithFrame(q, f), o, n, l, done)
         /\ f.seq \in DOMAIN WithFrame(q, f)
         /\ \A m \in DOMAIN WithFrame(q, f) :
              m \in Nat /\ m < n /\ WithFrame(q, f)[m] \in Frames
<1> DEFINE v == WithFrame(q, f)
<1>1. PICK D \in SUBSET Nat : q \in [D -> Frames]  BY DEF Queues
<1>2. f.seq \in Nat  BY DEF Frames
<1>3. v \in [D \cup {f.seq} -> Frames]  BY <1>1, <1>2 DEF WithFrame
<1>4. D \cup {f.seq} \in SUBSET Nat  BY <1>1, <1>2
<1>5. v \in Queues  BY <1>3, <1>4 DEF Queues
<1>6. DOMAIN v = D \cup {f.seq} /\ \A m \in DOMAIN v : v[m] \in Frames  BY <1>3
<1>7. \A m \in DOMAIN v : v[m] = IF m = f.seq THEN f ELSE q[m]  BY DEF WithFrame
<1> HIDE DEF v
<1>8. ASSUME NEW m \in DOMAIN v PROVE v[m].seq = m /\ Good(v[m], o, n, l, done)
  <2>1. CASE m = f.seq  BY <1>7, <2>1
  <2>2. CASE m # f.seq
    <3>1. m \in DOMAIN q /\ v[m] = q[m]  BY <1>1, <1>6, <1>7, <2>2
    <3> QED  BY <3>1 DEF Parked
  <2> QED  BY <2>1, <2>2
<1>9. ASSUME NEW m \in DOMAIN v PROVE m \in Nat /\ m < n
  BY <1>4, <1>6, <1>8 DEF Good
<1> QED  BY <1>5, <1>6, <1>8, <1>9 DEF v, Parked

LEMMA DeliverFacts ==
  ASSUME NEW o \in Offsets, NEW n \in Nat, NEW l \in Nat, NEW done,
         NEW r, Receives(r, o, n, l, done),
         NEW f \in Frames, Good(f, o, n, l, done)
  PROVE  \E k \in Nat : Delivery(DeliverRx(r, f), r, o, n, l, done, k)
<1> DEFINE d == DeliverRx(r, f)
           lo == r.rxSeq
           q == WithFrame(r.rxQueue, f)
           hi == RunEnd(q, lo)
           run == [i \in 1..(hi - lo + 1) |-> q[lo + i - 1]]
<1>1. lo \in Nat /\ r.rxQueue \in Queues /\ r.rxClosed = FALSE /\ lo <= n
      /\ Parked(r.rxQueue, o, n, l, done)
  BY DEF Receives, RxRecord
<1>2. f.seq \in Nat  BY DEF Frames
<1>3. /\ q \in Queues /\ Parked(q, o, n, l, done) /\ f.seq \in DOMAIN q
      /\ \A m \in DOMAIN q : m \in Nat /\ m < n /\ q[m] \in Frames
  BY <1>1, WithFrameFacts
<1>4. /\ f.seq < lo => d = [rx |-> r, out |-> <<>>, closing |-> FALSE]
      /\ f.seq > lo => d = [rx |-> [r EXCEPT !.rxQueue = q], out |-> <<>>, closing |-> FALSE]
      /\ f.seq = lo => d = [rx |-> [rxSeq |-> hi + 1,
                                    rxQueue |-> [m \in DOMAIN q \ (lo..hi) |-> q[m]],
                                    rxClosed |-> q[hi].fin],
                            out |-> ToSend(run),
                            closing |-> q[hi].fin]
  <2>1. ~(f.seq < lo /\ f.seq > lo) /\ (f.seq = lo => ~(f.seq < lo) /\ ~(f.seq > lo))
        /\ (f.seq > lo => ~(f.seq < lo))
    BY <1>1, <1>2
  <2> QED  BY <1>1, <2>1, Zenon DEF DeliverRx
<1> HIDE DEF d, q
<1>5. ASSUME d.out = <<>>, d.closing = FALSE, Receives(d.rx, o, n, l, done), d.rx.rxSeq = lo
      PROVE  Delivery(d, r, o, n, l, done, 0)
  <2>1. lo + 0 = lo /\ lo + 0 <= n  BY <1>1
  <2>2. 1..0 = {}  OBVIOUS
  <2>3. [i \in 1..0 |-> Span(o[lo + i - 1], o[lo + i])] = <<>>  BY <2>2
  <2> QED  BY <1>5, <2>1, <2>2, <2>3 DEF Delivery
<1>6. CASE f.seq < lo
  <2>1. d.rx = r /\ d.out = <<>> /\ d.closing = FALSE  BY <1>4, <1>6
  <2>2. Delivery(d, r, o, n, l, done, 0)  BY <1>5, <2>1
  <2> QED  BY <2>2 DEF d
<1>7. CASE f.seq > lo
  <2>1. d.rx = [r EXCEPT !.rxQueue = q] /\ d.out = <<>> /\ d.closing = FALSE  BY <1>4, <1>7
  <2>2. d.rx \in RxRecord /\ d.rx.rxSeq = lo /\ d.rx.rxQueue = q /\ d.rx.rxClosed = FALSE
    BY <1>1, <1>3, <2>1 DEF Receives, RxRecord
  <2>3. Receives(d.rx, o, n, l, done)  BY <1>1, <1>3, <2>2 DEF Receives
  <2>4. Delivery(d, r, o, n, l, done, 0)  BY <1>5, <2>1, <2>2, <2>3
  <2> QED  BY <2>4 DEF d
<1>8. CASE f.seq = lo
  <2>1. /\ hi \in DOMAIN q /\ hi >= lo
        /\ \A m \in lo..hi : m \in DOMAIN q
        /\ \A m \in lo..(hi - 1) : ~q[m].fin
        /\ q[hi].fin \/ hi + 1 \notin DOMAIN q
    <3>1. lo \in DOMAIN q  BY <1>3, <1>8
    <3> QED  BY <1>1, <1>3, <3>1, RunEndFacts
  <2>2. /\ d.rx.rxSeq = hi + 1 /\ d.rx.rxQueue = [m \in DOMAIN q \ (lo..hi) |-> q[m]]
        /\ d.rx.rxClosed = q[hi].fin /\ d.out = ToSend(run) /\ d.closing = q[hi].fin
        /\ d.rx = [rxSeq |-> hi + 1, rxQueue |-> [m \in DOMAIN q \ (lo..hi) |-> q[m]],
                   rxClosed |-> q[hi].fin]
    BY <1>4, <1>8
  <2> HIDE DEF hi, lo
  <2> DEFINE fin == q[hi].fin
             L == hi - lo + 1
             k == IF fin THEN hi - lo ELSE L
             Q == [m \in DOMAIN q \ (lo..hi) |-> q[m]]
  <2>3. hi \in Nat /\ hi < n /\ fin \in BOOLEAN  BY <1>3, <2>1 DEF Frames
  <2>4. L \in Nat /\ k \in Nat /\ k <= L /\ L <= k + 1 /\ (fin => L = k + 1 /\ lo + k = hi)
        /\ (~fin => L = k /\ lo + k = hi + 1) /\ lo + k <= n
    <3> HIDE DEF fin
    <3> QED  BY <1>1, <2>1, <2>3
  <2>5. ASSUME NEW m \in lo..hi
        PROVE  /\ q[m].payload = Span(o[m], o[m + 1]) /\ o[m] \in Nat /\ o[m + 1] \in Nat
               /\ o[m] <= o[m + 1] /\ o[m + 1] <= l
               /\ q[m].fin => done /\ o[m] = l
               /\ ~q[m].fin => o[m] < o[m + 1]
               /\ q[m] \in Frames
    <3>1. m \in DOMAIN q /\ m \in Nat /\ m + 1 \in Nat  BY <1>3, <2>1
    <3>2. q[m].seq = m /\ Good(q[m], o, n, l, done) /\ q[m] \in Frames
      BY <1>3, <3>1 DEF Parked
    <3>3. o[m] \in Nat /\ o[m + 1] \in Nat  BY <3>1 DEF Offsets
    <3> QED  BY <3>2, <3>3 DEF Good
  <2>6. run \in Seq(Frames) /\ Len(run) = L
    <3>1. \A i \in 1..L : lo + i - 1 \in lo..hi  BY <1>1, <2>3
    <3>2. run \in [1..L -> Frames]  BY <2>5, <3>1
    <3> HIDE DEF run
    <3> QED  BY <2>4, <3>2, FunctionIsSequence
  <2>7. \A i \in 1..L : run[i] = q[lo + i - 1]  OBVIOUS
  <2> HIDE DEF run, L, k, fin
  <2>8. ASSUME NEW i \in 1..k
        PROVE  /\ i \in 1..L /\ run[i].payload = Span(o[lo + i - 1], o[lo + i])
               /\ run[i].payload # <<>>
               /\ o[lo + i - 1] <= o[lo + i] /\ o[lo + i] <= l
    <3> DEFINE m == lo + i - 1
    <3>1. i \in 1..L /\ m \in lo..hi /\ m + 1 = lo + i /\ (m \in lo..(hi - 1) \/ (m = hi /\ ~fin))
      <4>1. i \in 1..L /\ m \in lo..hi /\ m + 1 = lo + i  BY <1>1, <2>3, <2>4 DEF L
      <4>2. CASE fin
        <5>1. k = hi - lo  BY <1>1, <2>3, <2>4, <4>2
        <5> QED  BY <1>1, <2>3, <4>1, <4>2, <5>1
      <4>3. CASE ~fin
        <5>1. m = hi \/ m \in lo..(hi - 1)  BY <1>1, <2>3, <4>1
        <5> QED  BY <4>1, <4>3, <5>1
      <4> QED  BY <4>2, <4>3
    <3>2. run[i] = q[m]  BY <2>7, <3>1
    <3> HIDE DEF m
    <3>3. ~q[m].fin  BY <2>1, <3>1 DEF fin
    <3>4. /\ q[m].payload = Span(o[m], o[m + 1]) /\ o[m] \in Nat /\ o[m + 1] \in Nat
          /\ o[m] < o[m + 1] /\ o[m] <= o[m + 1] /\ o[m + 1] <= l
      BY <2>5, <3>1, <3>3
    <3>5. Len(Span(o[m], o[m + 1])) = o[m + 1] - o[m]  BY <3>4, SpanFacts
    <3>6. Span(o[m], o[m + 1]) # <<>>
      <4>1. o[m + 1] - o[m] # 0  BY <3>4
      <4> QED  BY <3>5, <4>1, EmptySeq
    <3> QED  BY <3>1, <3>2, <3>4, <3>6 DEF m
  <2>9. fin => run[L].payload = <<>> /\ done /\ o[hi] = l
    <3> SUFFICES ASSUME fin PROVE run[L].payload = <<>> /\ done /\ o[hi] = l  OBVIOUS
    <3>1. hi \in lo..hi  BY <1>1, <2>1, <2>3
    <3>2. /\ q[hi].payload = Span(o[hi], o[hi + 1]) /\ o[hi] \in Nat /\ o[hi + 1] \in Nat
          /\ o[hi] <= o[hi + 1] /\ o[hi + 1] <= l /\ done /\ o[hi] = l
      BY <2>5, <3>1 DEF fin
    <3>3. o[hi + 1] = o[hi]  BY <3>2
    <3>4. q[hi].payload = <<>>  BY <3>2, <3>3, SpanEmpty
    <3>5. L \in 1..L /\ lo + L - 1 = hi  BY <1>1, <2>3, <2>1, <2>4 DEF L
    <3> QED  BY <2>7, <3>2, <3>4, <3>5
  <2>10. ToSend(run) = [i \in 1..k |-> run[i].payload]
    <3>1. \A i \in 1..k : run[i].payload # <<>>  BY <2>8
    <3>2. k < Len(run) => run[Len(run)].payload = <<>>
      <4>1. k < L => fin  BY <2>4
      <4> QED  BY <2>6, <2>9, <4>1
    <3> QED  BY <2>4, <2>6, <3>1, <3>2, ToSendRun
  <2>11. d.out = [i \in 1..k |-> Span(o[lo + i - 1], o[lo + i])]
    BY <2>2, <2>8, <2>10
  <2>12. ~fin => Receives(d.rx, o, n, l, done) /\ d.rx.rxSeq = lo + k
    <3> SUFFICES ASSUME ~fin PROVE Receives(d.rx, o, n, l, done) /\ d.rx.rxSeq = lo + k  OBVIOUS
    <3>1. Q \in Queues
      <4>1. DOMAIN q \ (lo..hi) \in SUBSET Nat  BY <1>3
      <4>2. Q \in [DOMAIN q \ (lo..hi) -> Frames]  BY <1>3
      <4> QED  BY <4>1, <4>2 DEF Queues
    <3>2. Parked(Q, o, n, l, done)
      <4>1. \A m \in DOMAIN Q : m \in DOMAIN q /\ Q[m] = q[m]  OBVIOUS
      <4> HIDE DEF Q
      <4> QED  BY <1>3, <4>1 DEF Parked
    <3>3. d.rx.rxQueue = Q /\ d.rx.rxClosed = FALSE /\ d.rx.rxSeq = hi + 1
          /\ d.rx = [rxSeq |-> hi + 1, rxQueue |-> Q, rxClosed |-> FALSE]
      BY <2>2, <2>3 DEF fin
    <3> HIDE DEF Q
    <3>4. d.rx \in RxRecord  BY <2>3, <3>1, <3>3 DEF RxRecord
    <3>5. hi + 1 <= n /\ lo + k = hi + 1  BY <2>3, <2>4
    <3> QED  BY <3>2, <3>3, <3>4, <3>5 DEF Receives
  <2>13. Delivery(d, r, o, n, l, done, k)
    <3>1. d.closing = fin  BY <2>2 DEF fin
    <3>2. fin => lo + k = hi  BY <2>4
    <3> QED  BY <2>3, <2>4, <2>8, <2>9, <2>11, <2>12, <3>1, <3>2 DEF Delivery, lo
  <2> QED  BY <2>4, <2>13 DEF d
<1> QED  BY <1>1, <1>2, <1>6, <1>7, <1>8

---------------------------------------------------------------------------
(* How each operation leaves the records of the two ends.                  *)

LEMMA InitShape == Init => Shape
<1> SUFFICES ASSUME Init PROVE Shape  OBVIOUS
<1>1. <<>> \in Seq(Nat) /\ Len(<<>>) = 0 /\ <<>> \in Seq(Frames) /\ <<>> \in Seq(Seq(Nat))
  BY EmptySeq
<1>2. <<>> \in Queues
  <2>1. <<>> \in [{} -> Frames] /\ {} \in SUBSET Nat  OBVIOUS
  <2> QED  BY <2>1 DEF Queues
<1>3. NewTx(FALSE) \in TxRecord  BY <1>1 DEF NewTx, TxRecord
<1>4. NewRx \in RxRecord /\ NewRx.rxClosed = FALSE  BY <1>2 DEF NewRx, RxRecord
<1>5. ServerStands(srv, ended)
  <2>1. srv = NewServer  BY DEF Init
  <2>2. srv \in ServerRecord /\ srv.tx = NewTx(FALSE)  BY <1>3, <2>1 DEF NewServer, ServerRecord
  <2>3. srv.tx.closeReq = FALSE /\ srv.tx.txBuf = <<>>  BY <2>2 DEF NewTx
  <2>4. 0 <= HighWater + 1  BY Constants
  <2> QED  BY <1>1, <2>2, <2>3, <2>4 DEF ServerStands
<1>6. Counts(orphans, faults)  BY Constants DEF Init, Counts
<1>7. polls \in [Workers -> {NoPoll} \cup PollRecord] /\ ended \in BOOLEAN  BY DEF Init
<1>8. ClientStands(cl, conn, reader)
  <2>1. cl.rx = NewRx /\ cl.inbox = <<>> /\ cl.registered = TRUE /\ conn.end = "open"
        /\ reader = "reading"
    BY DEF Init
  <2>2. cl \in ClientRecord  BY <1>1, <1>4 DEF Init, ClientRecord
  <2>3. conn \in ConnRecord  BY <1>1 DEF Init, ConnRecord
  <2> QED  BY <1>4, <2>1, <2>2, <2>3 DEF ClientStands
<1> QED  BY <1>5, <1>6, <1>7, <1>8 DEF Shape

LEMMA EmptyQueue == NewRx \in RxRecord /\ [NewRx EXCEPT !.rxClosed = TRUE] \in RxRecord
<1>1. <<>> \in Queues
  <2>1. <<>> \in [{} -> Frames] /\ {} \in SUBSET Nat  OBVIOUS
  <2> QED  BY <2>1 DEF Queues
<1> QED  BY <1>1 DEF NewRx, RxRecord

LEMMA ForgetStands ==
  ASSUME NEW s, NEW done, ServerStands(s, done)
  PROVE  /\ ServerStands(Forget(s), done) /\ Forget(s).known = FALSE
         /\ ServerStands([Forget(s) EXCEPT !.rst = FALSE], done)
         /\ [Forget(s) EXCEPT !.rst = FALSE].known = FALSE
<1> DEFINE t == Forget(s)
           v == [t EXCEPT !.rst = FALSE]
<1>1. <<>> \in Seq(Nat) /\ Len(<<>>) = 0 /\ 0 <= HighWater + 1  BY EmptySeq, Constants
<1>2. NewTx(FALSE) \in TxRecord /\ NewTx(FALSE).closeReq = FALSE /\ NewTx(FALSE).txBuf = <<>>
  BY <1>1 DEF NewTx, TxRecord
<1>3. t \in ServerRecord /\ t.tx = NewTx(FALSE) /\ t.known = FALSE
  BY <1>2 DEF Forget, ServerStands, ServerRecord
<1>4. v \in ServerRecord /\ v.tx = NewTx(FALSE) /\ v.known = FALSE  BY <1>3 DEF ServerRecord
<1> HIDE DEF t, v
<1>5. ServerStands(t, done) /\ ServerStands(v, done)
  BY <1>1, <1>2, <1>3, <1>4 DEF ServerStands
<1> QED  BY <1>3, <1>4, <1>5 DEF t, v

LEMMA DrainedStands ==
  ASSUME NEW s, NEW done, ServerStands(s, done), NEW m \in 1..MaxFrames
  PROVE  /\ Drained(s, m).frames \in Seq(Items)
         /\ ServerStands(Drained(s, m).srv, done)
         /\ \A t \in AfterReply(Drained(s, m).srv) : ServerStands(t, done)
         /\ Drained(s, m).srv.known = s.known
         /\ s.known => Drained(s, m).srv.tx = DrainTx(s.tx, MaxPayload, m).sess
<1> DEFINE d == DrainTx(s.tx, MaxPayload, m)
           g == Drained(s, m)
           a == IF s.rst THEN <<Rst>> ELSE <<>>
           b == IF s.known THEN d.frames ELSE <<>>
           x == IF s.known THEN d.sess ELSE s.tx
<1>1. s \in ServerRecord /\ s.tx \in TxRecord /\ (s.tx.closeReq => done)
      /\ Len(s.tx.txBuf) <= HighWater + 1 /\ m \in Nat \ {0}
  BY Constants DEF ServerStands, ServerRecord
<1>2. /\ d.frames \in Seq(Frames) /\ d.sess \in TxRecord
      /\ d.sess.closeReq = s.tx.closeReq /\ Len(d.sess.txBuf) <= Len(s.tx.txBuf)
  <2> DEFINE l == Len(s.tx.txBuf)
             taken == Least(Least(m, DataFrames(s.tx, MaxPayload)) * MaxPayload, l)
             rest == SubSeq(s.tx.txBuf, taken + 1, l)
  <2>1. /\ d.frames \in Seq(Frames) /\ d.sess \in TxRecord
        /\ d.sess.closeReq = s.tx.closeReq /\ d.sess.txBuf = rest
    BY <1>1, DrainShape
  <2>2. taken \in 0..l  BY <1>1, DrainCounts
  <2>3. l \in Nat /\ \A i \in 1..l : s.tx.txBuf[i] \in Nat
    BY <1>1, LenProperties, ElementOfSeq DEF TxRecord
  <2> HIDE DEF taken, l
  <2>4. Len(rest) <= l
    <3>1. CASE taken = l
      <4>1. rest = <<>>  BY <2>2, <2>3, <3>1, SubSeqEmpty
      <4> HIDE DEF rest
      <4>2. Len(rest) = 0  BY <4>1
      <4> QED  BY <2>3, <4>2
    <3>2. CASE taken # l
      <4>1. \A j \in (taken + 1)..l : s.tx.txBuf[j] \in Nat  BY <2>2, <2>3
      <4>2. taken + 1 \in Int /\ l \in Int /\ taken + 1 <= l  BY <2>2, <2>3, <3>2
      <4>3. Len(rest) = l - (taken + 1) + 1  BY <4>1, <4>2, SubSeqProperties
      <4> HIDE DEF rest
      <4> QED  BY <2>2, <2>3, <4>3
    <3> QED  BY <3>1, <3>2
  <2> QED  BY <2>1, <2>4 DEF l
<1> HIDE DEF d
<1>3. g.frames = a \o b /\ g.srv = [s EXCEPT !.rst = FALSE, !.tx = x]
  BY DEF Drained, d
<1> HIDE DEF g
<1>4. a \in Seq(Items) /\ b \in Seq(Items)
  <2>1. Rst \in Items /\ Frames \subseteq Items  BY DEF Items
  <2>2. d.frames \in Seq(Items)
    <3>1. \A i \in 1..Len(d.frames) : d.frames[i] \in Items  BY <1>2, <2>1, ElementOfSeq
    <3>2. d.frames \in [1..Len(d.frames) -> Items]  BY <1>2, <3>1, LenProperties
    <3> QED  BY <1>2, <3>2, LenProperties, FunctionIsSequence
  <2>3. <<Rst>> \in Seq(Items)  BY <2>1, Singleton
  <2> QED  BY <2>2, <2>3, EmptySeq
<1>5. g.frames \in Seq(Items)
  <2> HIDE DEF a, b
  <2> QED  BY <1>3, <1>4, ConcatProperties
<1>6. x \in TxRecord /\ (x.closeReq => done) /\ Len(x.txBuf) <= HighWater + 1
  <2>1. Len(d.sess.txBuf) \in Nat /\ Len(s.tx.txBuf) \in Nat /\ HighWater \in Nat
    BY <1>1, <1>2, LenProperties, Constants DEF TxRecord
  <2> QED  BY <1>1, <1>2, <2>1
<1>7. s.known => x = d.sess  OBVIOUS
<1> HIDE DEF x
<1>8. g.srv \in ServerRecord /\ g.srv.tx = x /\ g.srv.known = s.known
  BY <1>1, <1>3, <1>6 DEF ServerRecord
<1>9. ServerStands(g.srv, done)  BY <1>6, <1>8 DEF ServerStands
<1>10. \A t \in AfterReply(g.srv) : ServerStands(t, done)
  BY <1>9, ForgetStands DEF AfterReply
<1> QED  BY <1>5, <1>7, <1>8, <1>9, <1>10 DEF g, d

LEMMA RouteIncomingStands ==
  ASSUME NEW s, NEW done, ServerStands(s, done), NEW up, NEW t \in RouteIncoming(s, up)
  PROVE  ServerStands(t, done) /\ t.known = s.known /\ t.tx = s.tx
<1>1. PICK fin \in {FALSE, up = "fin" /\ s.known} :
        t = [s EXCEPT !.rst = @ \/ (up # "none" /\ ~s.known), !.peerFin = @ \/ fin]
  BY DEF RouteIncoming
<1>2. PICK x \in BOOLEAN : x = (s.rst \/ (up # "none" /\ ~s.known))  BY Zenon
<1>3. s \in ServerRecord  BY DEF ServerStands
<1>4. fin \in BOOLEAN  BY <1>3 DEF ServerRecord
<1>5. PICK y \in BOOLEAN : y = (s.peerFin \/ fin)  BY Zenon
<1>6. t = [s EXCEPT !.rst = x, !.peerFin = y]  BY <1>1, <1>2, <1>5
<1>7. t \in ServerRecord /\ t.known = s.known /\ t.tx = s.tx  BY <1>3, <1>6 DEF ServerRecord
<1> QED  BY <1>7 DEF ServerStands

(* gcDoneSessions and rollbackDrained leave the receive half alone. *)
LEMMA GcStands ==
  ASSUME NEW c, NEW k, NEW rd, ClientStands(c, k, rd)
  PROVE  ClientStands(Gc(c), k, rd) /\ Gc(c).rx = c.rx /\ Gc(c).inbox = c.inbox
<1>1. Gc(c) = c \/ Gc(c) = [c EXCEPT !.stopped = TRUE, !.registered = FALSE]  BY DEF Gc
<1>2. CASE Gc(c) = c  BY <1>2
<1>3. CASE Gc(c) = [c EXCEPT !.stopped = TRUE, !.registered = FALSE]
  <2>1. c \in ClientRecord  BY DEF ClientStands
  <2>2. /\ Gc(c) \in ClientRecord /\ Gc(c).stopped = TRUE /\ Gc(c).rx = c.rx
        /\ Gc(c).inbox = c.inbox /\ Gc(c).closeReq = c.closeReq
    BY <1>3, <2>1 DEF ClientRecord
  <2> QED  BY <2>2 DEF ClientStands
<1> QED  BY <1>1, <1>2, <1>3

(* The state of its FIN does not matter to the rest of the session. *)
LEMMA FinSentStands ==
  ASSUME NEW c, NEW k, NEW rd, ClientStands(c, k, rd), NEW e \in ClientRecord,
         e.stopped = c.stopped, e.registered = c.registered, e.closeReq = c.closeReq,
         e.rx = c.rx, e.inbox = c.inbox
  PROVE  ClientStands(e, k, rd)
BY DEF ClientStands

LEMMA RollbackStands ==
  ASSUME NEW c, NEW k, NEW rd, ClientStands(c, k, rd), NEW fin
  PROVE  /\ ClientStands(Rollback(c, fin), k, rd)
         /\ Rollback(c, fin).rx = c.rx /\ Rollback(c, fin).inbox = c.inbox
<1>1. Rollback(c, fin) = c \/ Rollback(c, fin) = [c EXCEPT !.finSent = FALSE, !.finOld = FALSE]
  BY DEF Rollback, RollbackFin
<1>2. CASE Rollback(c, fin) = c  BY <1>2
<1>3. CASE Rollback(c, fin) = [c EXCEPT !.finSent = FALSE, !.finOld = FALSE]
  <2>1. PICK e : e = Rollback(c, fin)  OBVIOUS
  <2>2. c \in ClientRecord  BY DEF ClientStands
  <2>3. /\ e \in ClientRecord /\ e.stopped = c.stopped /\ e.registered = c.registered
        /\ e.rx = c.rx /\ e.inbox = c.inbox /\ e.closeReq = c.closeReq
    BY <1>3, <2>1, <2>2 DEF ClientRecord
  <2> QED  BY <2>1, <2>3, FinSentStands
<1> QED  BY <1>1, <1>2, <1>3

(* The receive half is closed with its channel. *)
LEMMA CloseRxStands ==
  ASSUME NEW c, NEW k, NEW rd, ClientStands(c, k, rd)
  PROVE  /\ ClientStands(CloseRx(c), Torn(k), rd)
         /\ ClientStands([CloseRx(c) EXCEPT !.closeReq = TRUE, !.registered = FALSE,
                                            !.stopped = TRUE], Torn(k), rd)
         /\ CloseRx(c).rx.rxClosed = TRUE /\ CloseRx(c).inbox = <<>>
         /\ [CloseRx(c) EXCEPT !.closeReq = TRUE, !.registered = FALSE,
                               !.stopped = TRUE].rx.rxClosed = TRUE
         /\ [CloseRx(c) EXCEPT !.closeReq = TRUE, !.registered = FALSE,
                               !.stopped = TRUE].inbox = <<>>
         /\ Torn(k).chan = k.chan /\ Torn(k).readBuf = k.readBuf
         /\ Torn(k).end = "fin" <=> k.end = "fin"
<1> DEFINE e == CloseRx(c)
           v == [e EXCEPT !.closeReq = TRUE, !.registered = FALSE, !.stopped = TRUE]
           h == Torn(k)
           r == [NewRx EXCEPT !.rxClosed = TRUE]
<1>1. c \in ClientRecord /\ k \in ConnRecord /\ k.end \in {"open", "fin", "torn"}
  BY DEF ClientStands, ConnRecord
<1>2. r \in RxRecord /\ r.rxClosed = TRUE  BY EmptyQueue DEF NewRx
<1>3. e = [c EXCEPT !.rx = r, !.inbox = <<>>]  BY DEF CloseRx
<1> HIDE DEF e, r
<1>4. /\ e \in ClientRecord /\ e.rx = r /\ e.inbox = <<>> /\ e.stopped = c.stopped
      /\ e.registered = c.registered /\ e.closeReq = c.closeReq
  BY <1>1, <1>2, <1>3, EmptySeq DEF ClientRecord
<1>5. /\ v \in ClientRecord /\ v.rx = r /\ v.inbox = <<>> /\ v.stopped = TRUE
      /\ v.closeReq = TRUE
  BY <1>4 DEF ClientRecord
<1>6. PICK z \in {"fin", "torn"} : z = IF k.end = "open" THEN "torn" ELSE k.end  BY <1>1
<1>7. h = [k EXCEPT !.end = z]  BY <1>6 DEF Torn
<1> HIDE DEF v, h
<1>8. h \in ConnRecord /\ h.end = z /\ h.chan = k.chan /\ h.readBuf = k.readBuf
  BY <1>1, <1>7 DEF ConnRecord
<1>9. z = "fin" <=> k.end = "fin"  BY <1>1, <1>6
<1>10. ClientStands(e, h, rd)  BY <1>2, <1>4, <1>8 DEF ClientStands
<1>11. ClientStands(v, h, rd)  BY <1>2, <1>5, <1>8 DEF ClientStands
<1> QED  BY <1>2, <1>4, <1>5, <1>8, <1>9, <1>10, <1>11 DEF e, v, h

---------------------------------------------------------------------------
(* Every byte has its place: o[m] bytes come before frame m, n frames have *)
(* been drained, and the pieces the client holds are cut at c[0], c[1],    *)
(* ... of what the upstream has sent.                                      *)

(* The bytes are numbered as they come. *)
Numbered(bytes) ==
  /\ Len(bytes) \in Nat
  /\ Len(bytes) <= MaxBytes
  /\ bytes = Span(0, Len(bytes))

Upstream(s, o, n, l, done) ==
  s.known => s.tx.txSeq = n /\ Stocked(s.tx, o, l, done)

GoodItems(fs, o, n, l, done) ==
  \A i \in DOMAIN fs : fs[i] # Rst => Good(fs[i], o, n, l, done)

Replies(p, o, n, l, done) ==
  \A w \in Workers : p[w] # NoPoll => GoodItems(p[w].frames, o, n, l, done)

Receiving(x, o, n, l, done) ==
  /\ \A i \in DOMAIN x.inbox : Good(x.inbox[i], o, n, l, done)
  /\ ~x.rx.rxClosed => Receives(x.rx, o, n, l, done)

(* What Read has returned, readBuf and the elements of RxChan. *)
Cuts(c, g, k, l) ==
  /\ g = Span(0, c[0])
  /\ k.readBuf = Span(c[0], c[1])
  /\ \A i \in 1..Len(k.chan) : k.chan[i] = Span(c[i], c[i + 1])
  /\ \A m \in 0..Len(k.chan) : c[m] <= c[m + 1]
  /\ \A m \in 0..(Len(k.chan) + 1) : c[m] <= l

(* The last piece ends where the receive half goes on, or at the end. *)
Joined(c, k, x, o, l, done) ==
  /\ ~x.rx.rxClosed => c[Len(k.chan) + 1] = o[x.rx.rxSeq]
  /\ k.end = "fin" => done /\ c[Len(k.chan) + 1] = l

Places(o, n, c) ==
  /\ Upstream(srv, o, n, Len(supplied), ended)
  /\ Replies(polls, o, n, Len(supplied), ended)
  /\ Receiving(cl, o, n, Len(supplied), ended)
  /\ Cuts(c, got, conn, Len(supplied))
  /\ Joined(c, conn, cl, o, Len(supplied), ended)

Placed ==
  /\ Numbered(supplied)
  /\ \E o \in Offsets, n \in Nat, c \in Offsets : Places(o, n, c)

(* More is drained, more is read, or the end is: what has its place keeps it. *)
Later(o, n, l, done, u, n2, l2, done2) ==
  /\ u \in Offsets /\ n2 \in Nat /\ l2 \in Nat
  /\ \A m \in Nat : m <= n => u[m] = o[m]
  /\ n <= n2
  /\ l <= l2
  /\ done => done2 /\ l2 = l

LEMMA GoodStays ==
  ASSUME NEW o \in Offsets, NEW n \in Nat, NEW l \in Nat, NEW done,
         NEW u, NEW n2, NEW l2, NEW done2, Later(o, n, l, done, u, n2, l2, done2),
         NEW f, f.seq \in Nat, Good(f, o, n, l, done)
  PROVE  Good(f, u, n2, l2, done2)
<1>1. PICK m \in Nat : m = f.seq  OBVIOUS
<1>2. /\ m < n /\ f.payload = Span(o[m], o[m + 1]) /\ o[m + 1] <= l
      /\ (f.fin => done /\ o[m] = l) /\ (~f.fin => o[m] < o[m + 1]) /\ o[m] <= o[m + 1]
  BY <1>1 DEF Good
<1>3. /\ n2 \in Nat /\ l2 \in Nat /\ n <= n2 /\ l <= l2 /\ (done => done2 /\ l2 = l)
      /\ \A i \in Nat : i <= n => u[i] = o[i]
  BY DEF Later
<1>4. m + 1 \in Nat /\ m <= n /\ m + 1 <= n /\ m < n2  BY <1>2, <1>3
<1>5. u[m] = o[m] /\ u[m + 1] = o[m + 1] /\ o[m + 1] \in Nat  BY <1>3, <1>4 DEF Offsets
<1>6. o[m + 1] <= l2  BY <1>2, <1>3, <1>5
<1> QED  BY <1>1, <1>2, <1>3, <1>4, <1>5, <1>6 DEF Good

LEMMA RepliesStay ==
  ASSUME NEW o \in Offsets, NEW n \in Nat, NEW l \in Nat, NEW done,
         NEW u, NEW n2, NEW l2, NEW done2, Later(o, n, l, done, u, n2, l2, done2),
         NEW p \in [Workers -> {NoPoll} \cup PollRecord], Replies(p, o, n, l, done)
  PROVE  Replies(p, u, n2, l2, done2)
<1> SUFFICES ASSUME NEW w \in Workers, p[w] # NoPoll,
                    NEW i \in DOMAIN p[w].frames, p[w].frames[i] # Rst
             PROVE  Good(p[w].frames[i], u, n2, l2, done2)
  BY DEF Replies, GoodItems
<1>1. p[w] \in PollRecord  OBVIOUS
<1>2. p[w].frames \in Seq(Items)  BY <1>1 DEF PollRecord
<1>3. p[w].frames[i] \in Items  BY <1>2, ElementOfSeq, LenProperties
<1>4. p[w].frames[i].seq \in Nat  BY <1>3 DEF Items, Frames
<1>5. Good(p[w].frames[i], o, n, l, done)  BY DEF Replies, GoodItems
<1> QED  BY <1>4, <1>5, GoodStays

LEMMA ReceivingStays ==
  ASSUME NEW o \in Offsets, NEW n \in Nat, NEW l \in Nat, NEW done,
         NEW u, NEW n2, NEW l2, NEW done2, Later(o, n, l, done, u, n2, l2, done2),
         NEW x \in ClientRecord, Receiving(x, o, n, l, done)
  PROVE  Receiving(x, u, n2, l2, done2)
<1>1. ASSUME NEW i \in DOMAIN x.inbox PROVE Good(x.inbox[i], u, n2, l2, done2)
  <2>1. x.inbox \in Seq(Frames)  BY DEF ClientRecord
  <2>2. x.inbox[i] \in Frames  BY <2>1, ElementOfSeq, LenProperties
  <2>3. x.inbox[i].seq \in Nat  BY <2>2 DEF Frames
  <2>4. Good(x.inbox[i], o, n, l, done)  BY DEF Receiving
  <2> QED  BY <2>3, <2>4, GoodStays
<1>2. ASSUME ~x.rx.rxClosed PROVE Receives(x.rx, u, n2, l2, done2)
  <2>1. Receives(x.rx, o, n, l, done)  BY <1>2 DEF Receiving
  <2>2. /\ x.rx \in RxRecord /\ x.rx.rxSeq <= n /\ x.rx.rxSeq \in Nat
        /\ Parked(x.rx.rxQueue, o, n, l, done)
    BY <2>1 DEF Receives, RxRecord
  <2>3. n <= n2 /\ n2 \in Nat  BY DEF Later
  <2>4. x.rx.rxSeq <= n2  BY <2>2, <2>3
  <2>5. Parked(x.rx.rxQueue, u, n2, l2, done2)
    <3> SUFFICES ASSUME NEW m \in DOMAIN x.rx.rxQueue
                 PROVE  /\ x.rx.rxQueue[m].seq = m
                        /\ Good(x.rx.rxQueue[m], u, n2, l2, done2)
      BY DEF Parked
    <3>1. x.rx.rxQueue[m].seq = m /\ Good(x.rx.rxQueue[m], o, n, l, done)
      BY <2>2 DEF Parked
    <3>2. m \in Nat  BY <2>2 DEF RxRecord, Queues
    <3> QED  BY <3>1, <3>2, GoodStays
  <2> QED  BY <1>2, <2>2, <2>4, <2>5 DEF Receives
<1> QED  BY <1>1, <1>2 DEF Receiving

LEMMA CutsStay ==
  ASSUME NEW c \in Offsets, NEW g, NEW k \in ConnRecord, NEW l \in Nat, NEW l2 \in Nat, l <= l2,
         Cuts(c, g, k, l)
  PROVE  Cuts(c, g, k, l2)
<1>1. \A m \in 0..(Len(k.chan) + 1) : c[m] <= l2
  <2> SUFFICES ASSUME NEW m \in 0..(Len(k.chan) + 1) PROVE c[m] <= l2  OBVIOUS
  <2>1. Len(k.chan) \in Nat  BY LenProperties DEF ConnRecord
  <2>2. m \in Nat  BY <2>1
  <2>3. c[m] \in Nat /\ c[m] <= l  BY <2>2 DEF Offsets, Cuts
  <2> QED  BY <2>3
<1> QED  BY <1>1 DEF Cuts

LEMMA JoinedStays ==
  ASSUME NEW o \in Offsets, NEW n \in Nat, NEW l \in Nat, NEW done,
         NEW u, NEW n2, NEW l2, NEW done2, Later(o, n, l, done, u, n2, l2, done2),
         NEW c, NEW k, NEW x, Receiving(x, o, n, l, done), Joined(c, k, x, o, l, done)
  PROVE  Joined(c, k, x, u, l2, done2)
<1>1. ASSUME ~x.rx.rxClosed PROVE u[x.rx.rxSeq] = o[x.rx.rxSeq]
  <2>1. x.rx.rxSeq \in Nat /\ x.rx.rxSeq <= n  BY <1>1 DEF Receiving, Receives, RxRecord
  <2> QED  BY <2>1 DEF Later
<1>2. done => done2 /\ l2 = l  BY DEF Later
<1> QED  BY <1>1, <1>2 DEF Joined

LEMMA InitPlaced == Init => Placed
<1> SUFFICES ASSUME Init PROVE Placed  OBVIOUS
<1> DEFINE z == [m \in Nat |-> 0]
<1>1. z \in Offsets /\ \A m \in Nat : z[m] = 0  BY DEF Offsets
<1> HIDE DEF z
<1>2. Span(0, 0) = <<>> /\ Len(<<>>) = 0 /\ <<>> \in Seq(Nat)  BY SpanEmpty, EmptySeq
<1>3. supplied = <<>> /\ Len(supplied) = 0 /\ ended = FALSE /\ got = <<>>  BY <1>2 DEF Init
<1>4. Numbered(supplied)  BY <1>2, <1>3, Constants DEF Numbered
<1>5. Upstream(srv, z, 0, 0, ended)
  <2>1. srv.tx = NewTx(FALSE) /\ NewTx(FALSE) \in TxRecord
    BY EmptySeq DEF Init, NewServer, NewTx, TxRecord
  <2>2. srv.tx.txSeq = 0 /\ srv.tx.txBuf = <<>> /\ srv.tx.closeReq = FALSE
    BY <2>1 DEF NewTx
  <2>3. Stocked(srv.tx, z, 0, ended)
    <3>1. z[0] = 0 /\ 0 <= 0  BY <1>1
    <3>2. srv.tx \in TxRecord  BY <2>1, Zenon
    <3> QED  BY <1>2, <2>2, <3>1, <3>2 DEF Stocked
  <2> QED  BY <2>2, <2>3 DEF Upstream
<1>6. Replies(polls, z, 0, 0, ended)  BY DEF Init, Replies
<1>7. Receiving(cl, z, 0, 0, ended) /\ cl.rx.rxSeq = 0
  <2>1. cl.rx = NewRx /\ cl.inbox = <<>>  BY DEF Init
  <2>2. DOMAIN cl.inbox = {}  BY <2>1
  <2>3. cl.rx \in RxRecord /\ cl.rx.rxSeq = 0 /\ cl.rx.rxQueue = <<>> /\ ~cl.rx.rxClosed
    BY <2>1, EmptyQueue DEF NewRx
  <2>4. Parked(cl.rx.rxQueue, z, 0, 0, ended)
    <3>1. DOMAIN cl.rx.rxQueue = {}  BY <2>3
    <3> QED  BY <3>1 DEF Parked
  <2>5. Receives(cl.rx, z, 0, 0, ended)  BY <2>3, <2>4 DEF Receives
  <2> QED  BY <2>2, <2>3, <2>5 DEF Receiving
<1>8. conn.chan = <<>> /\ conn.readBuf = <<>> /\ conn.end = "open" /\ Len(conn.chan) = 0
  BY <1>2 DEF Init
<1>9. Cuts(z, got, conn, 0)
  <2>1. 1..0 = {} /\ 0..0 = {0} /\ 0..(0 + 1) = {0, 1} /\ 0 + 1 = 1 /\ 1 \in Nat  OBVIOUS
  <2> QED  BY <1>1, <1>2, <1>3, <1>8, <2>1 DEF Cuts
<1>10. Joined(z, conn, cl, z, 0, ended)
  <2>1. 0 + 1 \in Nat  OBVIOUS
  <2> QED  BY <1>1, <1>7, <1>8, <2>1 DEF Joined
<1>11. Places(z, 0, z)  BY <1>3, <1>5, <1>6, <1>7, <1>9, <1>10 DEF Places
<1> QED  BY <1>1, <1>4, <1>11 DEF Placed

---------------------------------------------------------------------------
(* The steps of the server.                                                *)

Inv == Shape /\ Placed

LEMMA PlacedNext ==
  ASSUME NEW o \in Offsets, NEW n \in Nat, NEW c \in Offsets,
         Numbered(supplied'),
         Upstream(srv', o, n, Len(supplied'), ended'),
         Replies(polls', o, n, Len(supplied'), ended'),
         Receiving(cl', o, n, Len(supplied'), ended'),
         Cuts(c, got', conn', Len(supplied')),
         Joined(c, conn', cl', o, Len(supplied'), ended')
  PROVE  Placed'
BY DEF Placed, Places

LEMMA Length == ASSUME Placed PROVE Len(supplied) \in Nat /\ Numbered(supplied)
BY DEF Placed, Numbered

(* Nothing the client holds or is sent is touched when the server's side   *)
(* moves on.                                                               *)
LEMMA ServerMoves ==
  ASSUME Inv, UNCHANGED <<polls, client>>,
         NEW o \in Offsets, NEW n \in Nat, NEW c \in Offsets, Places(o, n, c),
         NEW u, NEW n2, Later(o, n, Len(supplied), ended, u, n2, Len(supplied'), ended'),
         Numbered(supplied'),
         Upstream(srv', u, n2, Len(supplied'), ended')
  PROVE  Placed'
<1> DEFINE l == Len(supplied)
           l2 == Len(supplied')
<1>1. polls' = polls /\ cl' = cl /\ conn' = conn /\ got' = got  BY DEF client
<1>2. l \in Nat /\ l2 \in Nat /\ l <= l2 /\ u \in Offsets /\ n2 \in Nat
  BY Length DEF Inv, Later
<1>3. polls \in [Workers -> {NoPoll} \cup PollRecord] /\ cl \in ClientRecord /\ conn \in ConnRecord
  BY DEF Inv, Shape, ClientStands
<1>4. /\ Replies(polls, o, n, l, ended) /\ Receiving(cl, o, n, l, ended)
      /\ Cuts(c, got, conn, l) /\ Joined(c, conn, cl, o, l, ended)
  BY DEF Places
<1>5. Later(o, n, l, ended, u, n2, l2, ended')  OBVIOUS
<1> HIDE DEF l, l2
<1>6. Replies(polls, u, n2, l2, ended')  BY <1>2, <1>3, <1>4, <1>5, RepliesStay
<1>7. Receiving(cl, u, n2, l2, ended')  BY <1>2, <1>3, <1>4, <1>5, ReceivingStays
<1>8. Cuts(c, got, conn, l2)  BY <1>2, <1>3, <1>4, CutsStay
<1>9. Joined(c, conn, cl, u, l2, ended')  BY <1>2, <1>4, <1>5, JoinedStays
<1> QED  BY <1>1, <1>2, <1>6, <1>7, <1>8, <1>9, PlacedNext DEF l2

LEMMA LaterSame ==
  ASSUME NEW o \in Offsets, NEW n \in Nat, NEW l \in Nat, NEW done
  PROVE  Later(o, n, l, done, o, n, l, done)
BY DEF Later

LEMMA StepReadData == ASSUME Inv, ReadData PROVE Inv'
<1> DEFINE l == Len(supplied)
           t == EnqueueTx(srv.tx, <<l + 1>>)
<1>1. PICK o \in Offsets, n \in Nat, c \in Offsets : Places(o, n, c)  BY DEF Inv, Placed
<1>2. /\ srv.known /\ ~ended /\ l + 1 <= MaxBytes /\ ~TxBlocked(srv.tx, HighWater)
      /\ srv' = [srv EXCEPT !.tx = t] /\ supplied' = Append(supplied, l + 1)
      /\ UNCHANGED <<ended, orphans, polls, client, history>>
  BY DEF ReadData
<1>3. l \in Nat /\ l + 1 \in Nat /\ l <= l + 1 /\ supplied = Span(0, l) /\ 0 \in Nat /\ 0 <= l
      /\ 0 <= l + 1 /\ (l + 1) - l = 1 /\ (l + 1) - 0 = l + 1
  BY Length DEF Inv, Numbered
<1>4. /\ srv \in ServerRecord /\ srv.tx \in TxRecord /\ (srv.tx.closeReq => ended)
      /\ Len(srv.tx.txBuf) <= HighWater + 1 /\ srv.tx.txSeq \in Nat /\ srv.tx.txBuf \in Seq(Nat)
  BY DEF Inv, Shape, ServerStands, ServerRecord, TxRecord
<1>5. /\ srv.tx.txSeq = n /\ Stocked(srv.tx, o, l, ended)  BY <1>1, <1>2 DEF Places, Upstream
<1>6. o[n] \in Nat /\ o[n] <= l /\ srv.tx.txBuf = Span(o[n], l)
  BY <1>5 DEF Stocked, Offsets
<1>7. srv.tx.closeReq = FALSE  BY <1>2, <1>4 DEF TxRecord
<1> HIDE DEF l
<1>8. <<l + 1>> = Span(l, l + 1) /\ <<l + 1>> \in Seq(Nat) /\ Len(<<l + 1>>) = 1
  <2>1. Span(l, l + 1) \in Seq(Nat) /\ Len(Span(l, l + 1)) = 1
        /\ \A i \in 1..1 : Span(l, l + 1)[i] = l + i
    <3> DEFINE k == l + 1
    <3>1. k \in Nat /\ l <= k /\ k - l = 1 /\ l \in Nat  BY <1>3
    <3> HIDE DEF k
    <3>2. /\ Span(l, k) \in Seq(Nat) /\ Len(Span(l, k)) = k - l
          /\ \A i \in 1..(k - l) : Span(l, k)[i] = l + i
      BY <3>1, SpanFacts
    <3>3. Span(l, k) \in Seq(Nat) /\ Len(Span(l, k)) = 1 /\ \A i \in 1..1 : Span(l, k)[i] = l + i
      BY <3>1, <3>2, Zenon
    <3> QED  BY <3>3 DEF k
  <2>2. <<l + 1>> \in Seq(Nat) /\ Len(<<l + 1>>) = 1 /\ <<l + 1>>[1] = l + 1
    BY <1>3, Singleton
  <2>3. \A i \in 1..1 : <<l + 1>>[i] = Span(l, l + 1)[i]
    <3>1. \A i \in 1..1 : i = 1  OBVIOUS
    <3> QED  BY <2>1, <2>2, <3>1
  <2>4. <<l + 1>> = Span(l, l + 1)
    <3> DEFINE x == <<l + 1>>
               y == Span(l, l + 1)
    <3>1. /\ x \in Seq(Nat) /\ y \in Seq(Nat) /\ Len(x) = 1 /\ Len(y) = 1
          /\ \A i \in 1..1 : x[i] = y[i]
      BY <2>1, <2>2, <2>3
    <3> HIDE DEF x, y
    <3>2. x = y  BY <3>1, SeqEqual
    <3> QED  BY <3>2 DEF x, y
  <2> QED  BY <2>2, <2>4
<1>9. supplied' = Span(0, l + 1) /\ Len(supplied') = l + 1
  <2>1. supplied \in Seq(Nat)  BY <1>3, SpanFacts
  <2>2. supplied' = supplied \o <<l + 1>>  BY <1>2, <1>3, <2>1, AppendIsConcat
  <2>3. Span(0, l) \o Span(l, l + 1) = Span(0, l + 1)  BY <1>3, SpanConcat
  <2>4. Len(Span(0, l + 1)) = l + 1  BY <1>3, SpanFacts
  <2> QED  BY <1>3, <1>8, <2>2, <2>3, <2>4
<1>10. Numbered(supplied')  BY <1>2, <1>3, <1>9 DEF Numbered
<1>11. t = [srv.tx EXCEPT !.txBuf = Span(o[n], l + 1)]
  <2>1. t = [srv.tx EXCEPT !.txBuf = srv.tx.txBuf \o <<l + 1>>]  BY <1>7 DEF EnqueueTx
  <2>2. Span(o[n], l) \o Span(l, l + 1) = Span(o[n], l + 1)  BY <1>3, <1>6, SpanConcat
  <2> QED  BY <1>6, <1>8, <2>1, <2>2
<1>12. Span(o[n], l + 1) \in Seq(Nat) /\ Len(Span(o[n], l + 1)) <= HighWater + 1
       /\ o[n] <= l + 1
  <2>1. o[n] <= l + 1  BY <1>3, <1>6
  <2>2. Span(o[n], l + 1) \in Seq(Nat) /\ Len(Span(o[n], l + 1)) = (l + 1) - o[n]
    BY <1>3, <1>6, <2>1, SpanFacts
  <2>3. Len(srv.tx.txBuf) = l - o[n]  BY <1>3, <1>6, SpanFacts
  <2>4. ~(Len(srv.tx.txBuf) > HighWater)  BY <1>2, <1>7 DEF TxBlocked
  <2>5. l - o[n] <= HighWater  BY <1>3, <1>6, <2>3, <2>4, Constants
  <2>6. (l + 1) - o[n] <= HighWater + 1  BY <1>3, <1>6, <2>5, Constants
  <2> QED  BY <2>1, <2>2, <2>6
<1> HIDE DEF t
<1>13. /\ t \in TxRecord /\ t.txBuf = Span(o[n], l + 1) /\ t.txSeq = n /\ t.closeReq = FALSE
  <2>1. PICK y \in Seq(Nat) : y = Span(o[n], l + 1)  BY <1>12
  <2>2. t = [srv.tx EXCEPT !.txBuf = y]  BY <1>11, <2>1
  <2>3. t \in TxRecord /\ t.txBuf = y /\ t.txSeq = srv.tx.txSeq /\ t.closeReq = srv.tx.closeReq
    BY <1>4, <2>2 DEF TxRecord
  <2> QED  BY <1>5, <1>7, <2>1, <2>3
<1>14. srv' \in ServerRecord /\ srv'.tx = t /\ srv'.known = srv.known
  BY <1>2, <1>4, <1>13 DEF ServerRecord
<1>15. Upstream(srv', o, n, l + 1, ended)
  BY <1>12, <1>13, <1>14 DEF Upstream, Stocked
<1>16. Later(o, n, l, ended, o, n, l + 1, ended)  BY <1>2, <1>3 DEF Later
<1>17. Placed'
  <2>1. ended' = ended /\ UNCHANGED <<polls, client>>  BY <1>2
  <2> QED  BY <1>1, <1>9, <1>10, <1>15, <1>16, <2>1, ServerMoves DEF l
<1>18. ServerStands(srv', ended')  BY <1>12, <1>13, <1>14 DEF ServerStands
<1>19. Shape'
  BY <1>2, <1>18 DEF Inv, Shape, client, history
<1> QED  BY <1>17, <1>19 DEF Inv

LEMMA StepReadEnd == ASSUME Inv, ReadEnd PROVE Inv'
<1> DEFINE l == Len(supplied)
<1>1. PICK o \in Offsets, n \in Nat, c \in Offsets : Places(o, n, c)  BY DEF Inv, Placed
<1>2. /\ srv.known /\ ~ended /\ ended' = TRUE
      /\ srv' = [srv EXCEPT !.tx = RequestClose(srv.tx)]
      /\ UNCHANGED <<supplied, orphans, polls, client, history>>
  BY DEF ReadEnd
<1>3. l \in Nat /\ l' = l /\ Numbered(supplied')  BY <1>2, Length DEF Inv
<1>4. srv \in ServerRecord /\ srv.tx \in TxRecord /\ Len(srv.tx.txBuf) <= HighWater + 1
  BY DEF Inv, Shape, ServerStands, ServerRecord
<1>5. PICK t : t = RequestClose(srv.tx)  OBVIOUS
<1>6. t \in TxRecord /\ t.txBuf = srv.tx.txBuf /\ t.txSeq = srv.tx.txSeq
  BY <1>4, <1>5 DEF TxRecord, RequestClose
<1>7. srv' \in ServerRecord /\ srv'.tx = t /\ srv'.known = srv.known
  BY <1>2, <1>4, <1>5, <1>6 DEF ServerRecord
<1>8. Upstream(srv', o, n, l, TRUE)
  BY <1>1, <1>2, <1>6, <1>7 DEF Places, Upstream, Stocked
<1>9. Later(o, n, l, ended, o, n, l, TRUE)  BY <1>3 DEF Later
<1>10. Placed'
  BY <1>1, <1>2, <1>3, <1>8, <1>9, ServerMoves
<1>11. ServerStands(srv', ended')  BY <1>2, <1>4, <1>6, <1>7 DEF ServerStands
<1>12. Shape'
  BY <1>2, <1>11 DEF Inv, Shape, client, history
<1> QED  BY <1>10, <1>12 DEF Inv

(* What a handler drains has its place, also when nobody gets the reply. *)
LEMMA DrainedPlaces ==
  ASSUME NEW s, NEW done, ServerStands(s, done), NEW m \in 1..MaxFrames, NEW l \in Nat,
         NEW o \in Offsets, NEW n \in Nat, Upstream(s, o, n, l, done)
  PROVE  \E u \in Offsets, n2 \in Nat :
           /\ Later(o, n, l, done, u, n2, l, done)
           /\ GoodItems(Drained(s, m).frames, u, n2, l, done)
           /\ \A t \in AfterReply(Drained(s, m).srv) : Upstream(t, u, n2, l, done)
<1> DEFINE d == DrainTx(s.tx, MaxPayload, m)
           g == Drained(s, m)
           a == IF s.rst THEN <<Rst>> ELSE <<>>
           b == IF s.known THEN d.frames ELSE <<>>
<1>1. s \in ServerRecord /\ s.tx \in TxRecord /\ m \in Nat \ {0}
  BY Constants DEF ServerStands, ServerRecord
<1>2. g.frames = a \o b  BY DEF Drained
<1>3. g.srv.known = s.known /\ (s.known => g.srv.tx = d.sess) /\ ServerStands(g.srv, done)
  BY DrainedStands
<1>4. d.frames \in Seq(Frames) /\ d.sess \in TxRecord  BY <1>1, DrainShape
<1> HIDE DEF g
<1>5. ASSUME NEW u, NEW n2, Upstream(g.srv, u, n2, l, done)
      PROVE  \A t \in AfterReply(g.srv) : Upstream(t, u, n2, l, done)
  <2>1. Forget(g.srv).known = FALSE  BY <1>3, ForgetStands
  <2>2. Upstream(Forget(g.srv), u, n2, l, done)  BY <2>1 DEF Upstream
  <2> QED  BY <1>5, <2>2 DEF AfterReply
<1>6. ASSUME NEW u, NEW n2, s.known => \A i \in DOMAIN d.frames : Good(d.frames[i], u, n2, l, done)
      PROVE  GoodItems(g.frames, u, n2, l, done)
  <2> SUFFICES ASSUME NEW i \in DOMAIN g.frames, g.frames[i] # Rst
               PROVE  Good(g.frames[i], u, n2, l, done)
    BY DEF GoodItems
  <2>1. a \in Seq(Items) /\ b \in Seq(Items) /\ Rst \in Items
    <3>1. Rst \in Items /\ Frames \subseteq Items  BY DEF Items
    <3> HIDE DEF d
    <3>2. d.frames \in Seq(Items)  BY <1>4, <3>1, SeqMonotonic
    <3>3. <<Rst>> \in Seq(Items)  BY <3>1, Singleton
    <3> QED  BY <3>1, <3>2, <3>3, EmptySeq
  <2>2. \A j \in 1..Len(a) : a[j] = Rst
    <3>1. CASE s.rst
      <4>1. a = <<Rst>> /\ Len(<<Rst>>) = 1 /\ <<Rst>>[1] = Rst  BY <2>1, <3>1, Singleton
      <4> HIDE DEF a
      <4>2. \A j \in 1..1 : j = 1  OBVIOUS
      <4> QED  BY <4>1, <4>2
    <3>2. CASE ~s.rst
      <4>1. a = <<>> /\ Len(<<>>) = 0  BY <3>2, EmptySeq
      <4> HIDE DEF a
      <4>2. 1..0 = {}  OBVIOUS
      <4> QED  BY <4>1, <4>2
    <3> QED  BY <3>1, <3>2
  <2>3. \A j \in 1..Len(b) : Good(b[j], u, n2, l, done)
    <3> HIDE DEF d
    <3>1. CASE s.known
      <4>1. b = d.frames /\ DOMAIN b = 1..Len(b)  BY <1>4, <3>1, LenProperties
      <4> QED  BY <1>6, <3>1, <4>1
    <3>2. CASE ~s.known
      <4>1. b = <<>> /\ Len(<<>>) = 0  BY <3>2, EmptySeq
      <4> HIDE DEF b
      <4>2. 1..0 = {}  OBVIOUS
      <4> QED  BY <4>1, <4>2
    <3> QED  BY <3>1, <3>2
  <2> HIDE DEF a, b
  <2>4. /\ g.frames \in Seq(Items) /\ Len(g.frames) = Len(a) + Len(b)
        /\ \A j \in 1..(Len(a) + Len(b)) : g.frames[j] = IF j <= Len(a) THEN a[j] ELSE b[j - Len(a)]
    BY <1>2, <2>1, ConcatProperties
  <2>5. i \in 1..(Len(a) + Len(b)) /\ Len(a) \in Nat /\ Len(b) \in Nat
    BY <2>1, <2>4, LenProperties
  <2>6. CASE i <= Len(a)
    <3>1. i \in 1..Len(a) /\ g.frames[i] = a[i]  BY <2>4, <2>5, <2>6
    <3> QED  BY <2>2, <3>1
  <2>7. CASE ~(i <= Len(a))
    <3>1. i - Len(a) \in 1..Len(b) /\ g.frames[i] = b[i - Len(a)]  BY <2>4, <2>5, <2>7
    <3> QED  BY <2>3, <3>1
  <2> QED  BY <2>6, <2>7
<1>7. CASE ~s.known
  <2>1. Upstream(g.srv, o, n, l, done)  BY <1>3, <1>7 DEF Upstream
  <2> QED  BY <1>5, <1>6, <1>7, <2>1, LaterSame DEF g
<1>8. CASE s.known
  <2>1. s.tx.txSeq = n /\ Stocked(s.tx, o, l, done)  BY <1>8 DEF Upstream
  <2>2. PICK u \in Offsets :
          /\ \A j \in Nat : j <= n => u[j] = o[j]
          /\ n <= d.sess.txSeq
          /\ Stocked(d.sess, u, l, done)
          /\ \A i \in DOMAIN d.frames : Good(d.frames[i], u, d.sess.txSeq, l, done)
    BY <1>1, <2>1, DrainPlaces
  <2> HIDE DEF d
  <2>3. d.sess.txSeq \in Nat  BY <1>4 DEF TxRecord
  <2>4. Later(o, n, l, done, u, d.sess.txSeq, l, done)  BY <2>2, <2>3 DEF Later
  <2>5. Upstream(g.srv, u, d.sess.txSeq, l, done)  BY <1>3, <1>8, <2>2 DEF Upstream
  <2> QED  BY <1>5, <1>6, <2>2, <2>3, <2>4, <2>5 DEF g
<1> QED  BY <1>7, <1>8

LEMMA StepOrphans == ASSUME Inv, OrphanAnswer \/ OrphanEnds \/ IdleGc PROVE Inv'
<1> DEFINE l == Len(supplied)
<1>1. PICK o \in Offsets, n \in Nat, c \in Offsets : Places(o, n, c)  BY DEF Inv, Placed
<1>2. /\ l \in Nat /\ Numbered(supplied) /\ ServerStands(srv, ended) /\ Counts(orphans, faults)
      /\ ended \in BOOLEAN /\ Upstream(srv, o, n, l, ended)
  BY <1>1, Length DEF Inv, Shape, Places
<1>3. UNCHANGED <<supplied, ended, polls, client, faults>>
  BY DEF OrphanAnswer, OrphanEnds, IdleGc, history
<1>4. CASE OrphanAnswer
  <2>1. PICK m \in 1..MaxFrames : srv' \in AfterReply(Drained(srv, m).srv)
    BY <1>4 DEF OrphanAnswer
  <2>2. ServerStands(srv', ended)  BY <1>2, <2>1, DrainedStands
  <2>3. PICK u \in Offsets, n2 \in Nat :
          /\ Later(o, n, l, ended, u, n2, l, ended)
          /\ \A t \in AfterReply(Drained(srv, m).srv) : Upstream(t, u, n2, l, ended)
    BY <1>2, DrainedPlaces
  <2>4. Upstream(srv', u, n2, l, ended)  BY <2>1, <2>3
  <2>5. Placed'  BY <1>1, <1>2, <1>3, <2>3, <2>4, ServerMoves
  <2>6. Counts(orphans', faults')
    BY <1>2, <1>3, <1>4 DEF OrphanAnswer, Counts
  <2>7. Shape'  BY <1>3, <2>2, <2>6 DEF Inv, Shape, client
  <2> QED  BY <2>5, <2>7 DEF Inv
<1>5. CASE OrphanEnds
  <2>1. srv' = srv  BY <1>5 DEF OrphanEnds
  <2>2. Later(o, n, l, ended, o, n, l, ended)  BY <1>2, LaterSame
  <2>3. Placed'  BY <1>1, <1>2, <1>3, <2>1, <2>2, ServerMoves
  <2>4. Counts(orphans', faults')
    BY <1>2, <1>3, <1>5 DEF OrphanEnds, Counts
  <2>5. Shape'  BY <1>3, <2>1, <2>4 DEF Inv, Shape, client
  <2> QED  BY <2>3, <2>5 DEF Inv
<1>6. CASE IdleGc
  <2>1. srv' = Forget(srv) /\ orphans' = orphans  BY <1>6 DEF IdleGc
  <2>2. ServerStands(srv', ended) /\ srv'.known = FALSE  BY <1>2, <2>1, ForgetStands
  <2>3. Later(o, n, l, ended, o, n, l, ended)  BY <1>2, LaterSame
  <2>4. Upstream(srv', o, n, l, ended)  BY <2>2 DEF Upstream
  <2>5. Placed'  BY <1>1, <1>2, <1>3, <2>3, <2>4, ServerMoves
  <2>6. Shape'  BY <1>3, <2>1, <2>2 DEF Inv, Shape, client
  <2> QED  BY <2>5, <2>6 DEF Inv
<1> QED  BY <1>4, <1>5, <1>6

---------------------------------------------------------------------------
(* The steps of a poll.                                                    *)

(* A poll comes or goes, and the client's receive half stays as it is. *)
LEMMA PollMoves ==
  ASSUME Inv, UNCHANGED <<supplied, ended, conn, got>>,
         NEW o \in Offsets, NEW n \in Nat, NEW c \in Offsets, Places(o, n, c),
         NEW u, NEW n2, Later(o, n, Len(supplied), ended, u, n2, Len(supplied), ended),
         Upstream(srv', u, n2, Len(supplied), ended),
         \A w \in Workers : \/ polls'[w] = NoPoll
                            \/ GoodItems(polls'[w].frames, u, n2, Len(supplied), ended)
                            \/ polls'[w] = polls[w],
         cl'.rx = cl.rx, cl'.inbox = cl.inbox
  PROVE  Placed'
<1> DEFINE l == Len(supplied)
<1>2. l \in Nat /\ u \in Offsets /\ n2 \in Nat /\ Numbered(supplied)
  BY Length DEF Inv, Later
<1>3. polls \in [Workers -> {NoPoll} \cup PollRecord] /\ cl \in ClientRecord
  BY DEF Inv, Shape, ClientStands
<1>4. /\ Replies(polls, o, n, l, ended) /\ Receiving(cl, o, n, l, ended)
      /\ Cuts(c, got, conn, l) /\ Joined(c, conn, cl, o, l, ended)
  BY DEF Places
<1>6. Replies(polls, u, n2, l, ended)
  <2>1. Later(o, n, l, ended, u, n2, l, ended)  OBVIOUS
  <2> HIDE DEF l
  <2> QED  BY <1>2, <1>3, <1>4, <2>1, RepliesStay
<1>7. Receiving(cl, u, n2, l, ended)
  <2>1. Later(o, n, l, ended, u, n2, l, ended)  OBVIOUS
  <2> HIDE DEF l
  <2> QED  BY <1>2, <1>3, <1>4, <2>1, ReceivingStays
<1>8. Joined(c, conn, cl, u, l, ended)
  <2>1. Later(o, n, l, ended, u, n2, l, ended)  OBVIOUS
  <2> HIDE DEF l
  <2> QED  BY <1>2, <1>4, <2>1, JoinedStays
<1>9. Replies(polls', u, n2, l, ended)  BY <1>6 DEF Replies
<1>10. Receiving(cl', u, n2, l, ended) /\ Joined(c, conn, cl', u, l, ended)
  BY <1>7, <1>8 DEF Receiving, Joined
<1> QED  BY <1>2, <1>4, <1>9, <1>10, PlacedNext

LEMMA StepAnswer == ASSUME Inv, NEW w \in Workers, Answer(w) PROVE Inv'
<1> DEFINE l == Len(supplied)
<1>1. PICK o \in Offsets, n \in Nat, c \in Offsets : Places(o, n, c)  BY DEF Inv, Placed
<1>2. /\ l \in Nat /\ ServerStands(srv, ended) /\ Upstream(srv, o, n, l, ended)
      /\ polls \in [Workers -> {NoPoll} \cup PollRecord]
  BY <1>1, Length DEF Inv, Shape, Places
<1>3. PICK m \in 1..MaxFrames :
        /\ srv' \in AfterReply(Drained(srv, m).srv)
        /\ polls' = [polls EXCEPT ![w] = [@ EXCEPT !.st = "reply",
                                                   !.frames = Drained(srv, m).frames]]
  BY DEF Answer
<1>4. UNCHANGED <<supplied, ended, orphans, client, history>> /\ polls[w].st = "held"
  BY DEF Answer
<1>5. ServerStands(srv', ended) /\ Drained(srv, m).frames \in Seq(Items)
  BY <1>2, <1>3, DrainedStands
<1>6. PICK u \in Offsets, n2 \in Nat :
        /\ Later(o, n, l, ended, u, n2, l, ended)
        /\ GoodItems(Drained(srv, m).frames, u, n2, l, ended)
        /\ \A t \in AfterReply(Drained(srv, m).srv) : Upstream(t, u, n2, l, ended)
  BY <1>2, DrainedPlaces
<1>7. PICK fs \in Seq(Items) : fs = Drained(srv, m).frames  BY <1>5
<1>8. polls[w] \in PollRecord  BY <1>2, <1>4 DEF NoPoll
<1>9. PICK p : p = [polls[w] EXCEPT !.st = "reply", !.frames = fs]  OBVIOUS
<1>10. p \in PollRecord /\ p.frames = fs  BY <1>8, <1>9 DEF PollRecord
<1>11. polls' = [polls EXCEPT ![w] = p]  BY <1>3, <1>7, <1>9
<1>12. /\ polls' \in [Workers -> {NoPoll} \cup PollRecord]
       /\ polls'[w] = p /\ \A v \in Workers : v # w => polls'[v] = polls[v]
  BY <1>2, <1>10, <1>11
<1>13. Upstream(srv', u, n2, l, ended)  BY <1>3, <1>6
<1>14. GoodItems(polls'[w].frames, u, n2, l, ended)  BY <1>6, <1>7, <1>10, <1>12
<1>15. UNCHANGED <<supplied, ended, conn, got>> /\ cl' = cl  BY <1>4 DEF client
<1>16. \A v \in Workers : \/ polls'[v] = NoPoll
                          \/ GoodItems(polls'[v].frames, u, n2, Len(supplied), ended)
                          \/ polls'[v] = polls[v]
  BY <1>12, <1>14
<1>17. Placed'  BY <1>1, <1>6, <1>13, <1>15, <1>16, PollMoves
<1>18. Shape'  BY <1>4, <1>5, <1>12 DEF Inv, Shape, client, history
<1> QED  BY <1>17, <1>18 DEF Inv

(* A step that leaves the server's session alone and takes a poll away, or *)
(* puts one without frames in its place.                                   *)
LEMMA PollChanges ==
  ASSUME Inv, UNCHANGED <<supplied, ended, conn, got>>,
         srv'.known => srv.known /\ srv'.tx = srv.tx,
         \A w \in Workers : \/ polls'[w] = NoPoll
                            \/ polls'[w].frames = <<>>
                            \/ polls'[w] = polls[w],
         cl'.rx = cl.rx, cl'.inbox = cl.inbox
  PROVE  Placed'
<1> DEFINE l == Len(supplied)
<1>1. PICK o \in Offsets, n \in Nat, c \in Offsets : Places(o, n, c)  BY DEF Inv, Placed
<1>2. Later(o, n, l, ended, o, n, l, ended)  BY Length, LaterSame DEF Inv
<1>3. Upstream(srv', o, n, l, ended)  BY <1>1 DEF Places, Upstream
<1>4. \A w \in Workers : \/ polls'[w] = NoPoll
                         \/ GoodItems(polls'[w].frames, o, n, l, ended)
                         \/ polls'[w] = polls[w]
  <2>1. DOMAIN <<>> = {}  OBVIOUS
  <2>2. GoodItems(<<>>, o, n, l, ended)  BY <2>1 DEF GoodItems
  <2> QED  BY <2>2
<1> QED  BY <1>1, <1>2, <1>3, <1>4, PollMoves

LEMMA StepPoll == ASSUME Inv, NEW w \in Workers, Poll(w) PROVE Inv'
<1>1. PICK up \in Batches :
        /\ srv' \in RouteIncoming(srv, up)
        /\ polls' = [polls EXCEPT ![w] = [st |-> "held", fin |-> up = "fin", frames |-> <<>>]]
        /\ cl' = [cl EXCEPT !.finSent = @ \/ up = "fin"]
  BY DEF Poll
<1>2. UNCHANGED <<supplied, ended, orphans, conn, got, reader, history>>  BY DEF Poll
<1>3. /\ ServerStands(srv, ended) /\ ClientStands(cl, conn, reader)
      /\ polls \in [Workers -> {NoPoll} \cup PollRecord]
  BY DEF Inv, Shape
<1>4. ServerStands(srv', ended) /\ srv'.known = srv.known /\ srv'.tx = srv.tx
  BY <1>1, <1>3, RouteIncomingStands
<1>5. PICK x \in BOOLEAN : x = (cl.finSent \/ up = "fin")  BY Zenon
<1>6. cl' = [cl EXCEPT !.finSent = x]  BY <1>1, <1>5
<1>7. /\ cl' \in ClientRecord /\ cl'.stopped = cl.stopped /\ cl'.registered = cl.registered
      /\ cl'.rx = cl.rx /\ cl'.inbox = cl.inbox /\ cl'.closeReq = cl.closeReq
  BY <1>3, <1>5, <1>6 DEF ClientStands, ClientRecord
<1>8. ClientStands(cl', conn, reader)  BY <1>3, <1>7, FinSentStands
<1>9. PICK y \in BOOLEAN : y = (up = "fin")  BY Zenon
<1>10. PICK p : p = [st |-> "held", fin |-> y, frames |-> <<>>]  OBVIOUS
<1>11. p \in PollRecord /\ p.frames = <<>>  BY <1>10, EmptySeq DEF PollRecord
<1>12. polls' = [polls EXCEPT ![w] = p]  BY <1>1, <1>9, <1>10
<1>13. /\ polls' \in [Workers -> {NoPoll} \cup PollRecord]
       /\ polls'[w] = p /\ \A v \in Workers : v # w => polls'[v] = polls[v]
  BY <1>3, <1>11, <1>12
<1>14. \A v \in Workers : polls'[v].frames = <<>> \/ polls'[v] = polls[v]
  BY <1>11, <1>13
<1>15. Placed'  BY <1>2, <1>4, <1>7, <1>14, PollChanges
<1>16. Shape'  BY <1>2, <1>4, <1>8, <1>13 DEF Inv, Shape, history
<1> QED  BY <1>15, <1>16 DEF Inv

(* The poll has ended: gcDoneSessions follows. *)
LEMMA PollEnds ==
  ASSUME Inv, NEW w \in Workers, UNCHANGED <<srv, supplied, ended, conn, got, reader>>,
         Counts(orphans', faults'),
         polls' = [polls EXCEPT ![w] = NoPoll],
         NEW x, ClientStands(x, conn, reader), x.rx = cl.rx, x.inbox = cl.inbox,
         cl' = Gc(x)
  PROVE  Inv'
<1>1. polls \in [Workers -> {NoPoll} \cup PollRecord]  BY DEF Inv, Shape
<1>2. ClientStands(cl', conn, reader) /\ cl'.rx = cl.rx /\ cl'.inbox = cl.inbox  BY GcStands
<1>3. /\ polls' \in [Workers -> {NoPoll} \cup PollRecord]
      /\ polls'[w] = NoPoll /\ \A v \in Workers : v # w => polls'[v] = polls[v]
  BY <1>1
<1>4. \A v \in Workers : polls'[v] = NoPoll \/ polls'[v] = polls[v]  BY <1>3
<1>5. Placed'  BY <1>2, <1>4, PollChanges
<1>6. Shape'  BY <1>2, <1>3 DEF Inv, Shape
<1> QED  BY <1>5, <1>6 DEF Inv

LEMMA StepPollEnds ==
  ASSUME Inv, NEW w \in Workers,
         PollDone(w) \/ EmptyAnswer(w) \/ GiveUp(w) \/ Undecodable(w) \/ CommitUnsent(w)
  PROVE  Inv'
<1>1. ClientStands(cl, conn, reader) /\ Counts(orphans, faults)  BY DEF Inv, Shape
<1>2. faults < MaxFaults => /\ Counts(orphans, faults + 1) /\ Counts(orphans + 1, faults + 1)
                            /\ Counts(orphans + 0, faults + 1)
  BY <1>1, Constants DEF Counts
<1>3. CASE PollDone(w) \/ EmptyAnswer(w)
  <2>1. /\ polls' = [polls EXCEPT ![w] = NoPoll] /\ cl' = Gc(cl)
        /\ UNCHANGED <<srv, supplied, ended, orphans, conn, got, reader, faults>>
    BY <1>3 DEF PollDone, EmptyAnswer, server, history
  <2> QED  BY <1>1, <2>1, PollEnds
<1>4. CASE GiveUp(w)
  <2>1. /\ polls' = [polls EXCEPT ![w] = NoPoll] /\ cl' = Gc(Rollback(cl, polls[w].fin))
        /\ faults < MaxFaults /\ faults' = faults + 1
        /\ orphans' = orphans + (IF polls[w].st = "held" THEN 1 ELSE 0)
        /\ UNCHANGED <<srv, supplied, ended, conn, got, reader>>
    BY <1>4 DEF GiveUp, Failed
  <2>2. PICK x : x = Rollback(cl, polls[w].fin)  OBVIOUS
  <2>3. ClientStands(x, conn, reader) /\ x.rx = cl.rx /\ x.inbox = cl.inbox
    BY <1>1, <2>2, RollbackStands
  <2>4. Counts(orphans', faults')  BY <1>2, <2>1
  <2> QED  BY <2>1, <2>2, <2>3, <2>4, PollEnds
<1>5. CASE Undecodable(w)
  <2>1. /\ polls' = [polls EXCEPT ![w] = NoPoll] /\ cl' = Gc(cl)
        /\ faults < MaxFaults /\ faults' = faults + 1
        /\ UNCHANGED <<srv, supplied, ended, orphans, conn, got, reader>>
    BY <1>5 DEF Undecodable, Failed, server
  <2>2. Counts(orphans', faults')  BY <1>2, <2>1
  <2> QED  BY <1>1, <2>1, <2>2, PollEnds
<1>6. CASE CommitUnsent(w)
  <2>1. /\ polls' = [polls EXCEPT ![w] = NoPoll] /\ cl' = Gc([cl EXCEPT !.finSent = TRUE])
        /\ faults < MaxFaults /\ faults' = faults + 1
        /\ UNCHANGED <<srv, supplied, ended, orphans, conn, got, reader>>
    BY <1>6 DEF CommitUnsent, Failed, server
  <2>2. Counts(orphans', faults')  BY <1>2, <2>1
  <2>3. PICK x : x = [cl EXCEPT !.finSent = TRUE]  OBVIOUS
  <2>4. /\ x \in ClientRecord /\ x.stopped = cl.stopped /\ x.registered = cl.registered
        /\ x.rx = cl.rx /\ x.inbox = cl.inbox /\ x.closeReq = cl.closeReq
    BY <1>1, <2>3 DEF ClientStands, ClientRecord
  <2>5. ClientStands(x, conn, reader)  BY <1>1, <2>4, FinSentStands
  <2> QED  BY <2>1, <2>2, <2>3, <2>4, <2>5, PollEnds
<1> QED  BY <1>3, <1>4, <1>5, <1>6

(* The server's process is replaced under the polls it held. *)
LEMMA StepRestart == ASSUME Inv, Restart PROVE Inv'
<1> DEFINE held == {w \in Workers : polls[w].st = "held"}
           fin  == \E w \in held : polls[w].fin
<1>1. /\ faults < MaxFaults /\ faults' = faults + 1 /\ orphans' = 0
      /\ srv' = [Forget(srv) EXCEPT !.rst = FALSE]
      /\ polls' = [w \in Workers |-> IF w \in held THEN NoPoll ELSE polls[w]]
      /\ cl' = IF held = {} THEN cl ELSE Gc(Rollback(cl, fin))
      /\ UNCHANGED <<supplied, ended, conn, got, reader>>
  BY DEF Restart
<1>2. /\ ServerStands(srv, ended) /\ ClientStands(cl, conn, reader) /\ Counts(orphans, faults)
      /\ polls \in [Workers -> {NoPoll} \cup PollRecord]
  BY DEF Inv, Shape
<1> HIDE DEF held, fin
<1>3. ServerStands(srv', ended) /\ srv'.known = FALSE  BY <1>1, <1>2, ForgetStands
<1>4. ClientStands(cl', conn, reader) /\ cl'.rx = cl.rx /\ cl'.inbox = cl.inbox
  <2>1. PICK x : x = Rollback(cl, fin)  OBVIOUS
  <2>2. ClientStands(x, conn, reader) /\ x.rx = cl.rx /\ x.inbox = cl.inbox
    BY <1>2, <2>1, RollbackStands
  <2>3. ClientStands(Gc(x), conn, reader) /\ Gc(x).rx = cl.rx /\ Gc(x).inbox = cl.inbox
    BY <2>2, GcStands
  <2> QED  BY <1>1, <1>2, <2>1, <2>3
<1>5. /\ polls' \in [Workers -> {NoPoll} \cup PollRecord]
      /\ \A w \in Workers : polls'[w] = NoPoll \/ polls'[w] = polls[w]
  BY <1>1, <1>2
<1>6. Counts(orphans', faults')  BY <1>1, <1>2, Constants DEF Counts
<1>7. Placed'  BY <1>1, <1>3, <1>4, <1>5, PollChanges
<1>8. Shape'  BY <1>1, <1>3, <1>4, <1>5, <1>6 DEF Inv, Shape
<1> QED  BY <1>7, <1>8 DEF Inv

(* routeRx takes the next frame of a reply. *)
LEMMA StepRouteRx == ASSUME Inv, NEW w \in Workers, RouteRx(w) PROVE Inv'
<1> DEFINE fs == polls[w].frames
           f == Head(fs)
           l == Len(supplied)
<1>1. PICK o \in Offsets, n \in Nat, c \in Offsets : Places(o, n, c)  BY DEF Inv, Placed
<1>2. /\ l \in Nat /\ Numbered(supplied) /\ ClientStands(cl, conn, reader)
      /\ polls \in [Workers -> {NoPoll} \cup PollRecord]
      /\ Replies(polls, o, n, l, ended) /\ Receiving(cl, o, n, l, ended)
      /\ Cuts(c, got, conn, l) /\ Joined(c, conn, cl, o, l, ended)
      /\ Upstream(srv, o, n, l, ended)
  BY <1>1, Length DEF Inv, Shape, Places
<1>3. /\ polls[w].st = "reply" /\ fs # <<>>
      /\ polls' = [polls EXCEPT ![w].frames = Tail(@)]
      /\ UNCHANGED <<srv, supplied, ended, orphans, got, reader, lost, faults>>
  BY DEF RouteRx, server, history
<1>4. polls[w] \in PollRecord /\ polls[w] # NoPoll  BY <1>2, <1>3 DEF NoPoll
<1>5. fs \in Seq(Items)  BY <1>4 DEF PollRecord
<1>6. PICK ts : ts = Tail(fs)  OBVIOUS
<1>7. /\ ts \in Seq(Items) /\ f \in Items /\ f = fs[1] /\ Len(ts) = Len(fs) - 1
      /\ Len(fs) \in Nat \ {0} /\ \A i \in 1..Len(ts) : ts[i] = fs[i + 1]
  BY <1>3, <1>5, <1>6, HeadTailProperties, EmptySeq
<1>8. DOMAIN fs = 1..Len(fs) /\ DOMAIN ts = 1..Len(ts)  BY <1>5, <1>7, LenProperties
<1>9. PICK p : p = [polls[w] EXCEPT !.frames = ts]  OBVIOUS
<1>10. p \in PollRecord /\ p.frames = ts  BY <1>4, <1>7, <1>9 DEF PollRecord
<1>11. polls' = [polls EXCEPT ![w] = p]  BY <1>3, <1>6, <1>9
<1>12. /\ polls' \in [Workers -> {NoPoll} \cup PollRecord]
       /\ polls'[w] = p /\ \A v \in Workers : v # w => polls'[v] = polls[v]
  BY <1>2, <1>10, <1>11
<1>13. GoodItems(fs, o, n, l, ended)  BY <1>2, <1>4 DEF Replies
<1>14. GoodItems(ts, o, n, l, ended)
  <2> SUFFICES ASSUME NEW i \in DOMAIN ts, ts[i] # Rst PROVE Good(ts[i], o, n, l, ended)
    BY DEF GoodItems
  <2> HIDE DEF fs, f, l
  <2>1. i + 1 \in 1..Len(fs) /\ ts[i] = fs[i + 1]  BY <1>7, <1>8
  <2> QED  BY <1>8, <1>13, <2>1 DEF GoodItems
<1>15. Replies(polls', o, n, l, ended)
  <2> SUFFICES ASSUME NEW v \in Workers, polls'[v] # NoPoll
               PROVE  GoodItems(polls'[v].frames, o, n, l, ended)
    BY DEF Replies
  <2>1. CASE v = w  BY <1>10, <1>12, <1>14, <2>1
  <2>2. CASE v # w  BY <1>2, <1>12, <2>2 DEF Replies
  <2> QED  BY <2>1, <2>2
<1>16. ASSUME ClientStands(cl', conn', reader), Receiving(cl', o, n, l, ended),
              conn'.chan = conn.chan, conn'.readBuf = conn.readBuf,
              Joined(c, conn', cl', o, l, ended)
       PROVE  Inv'
  <2>1. Cuts(c, got, conn', l)  BY <1>2, <1>16 DEF Cuts
  <2>2. Placed'  BY <1>2, <1>3, <1>15, <1>16, <2>1, PlacedNext
  <2>3. Shape'  BY <1>3, <1>12, <1>16 DEF Inv, Shape
  <2> QED  BY <2>2, <2>3 DEF Inv
<1> HIDE DEF l
<1>17. CASE ~cl.registered /\ UNCHANGED <<cl, conn>>  BY <1>2, <1>16, <1>17
<1>18. CASE /\ cl' = [CloseRx(cl) EXCEPT !.closeReq = TRUE, !.registered = FALSE,
                                         !.stopped = TRUE]
            /\ conn' = Torn(conn)
  <2>1. /\ ClientStands(cl', conn', reader)
        /\ cl'.rx.rxClosed = TRUE /\ cl'.inbox = <<>>
        /\ conn'.chan = conn.chan /\ conn'.readBuf = conn.readBuf
        /\ conn'.end = "fin" <=> conn.end = "fin"
    BY <1>2, <1>18, CloseRxStands
  <2>2. Receiving(cl', o, n, l, ended)
    <3>1. DOMAIN cl'.inbox = {}  BY <2>1
    <3> QED  BY <2>1, <3>1 DEF Receiving
  <2>3. Joined(c, conn', cl', o, l, ended)  BY <1>2, <2>1 DEF Joined
  <2> QED  BY <1>16, <2>1, <2>2, <2>3
<1>19. CASE /\ f # Rst
            /\ cl' = IF cl.rx.rxClosed THEN cl ELSE [cl EXCEPT !.inbox = Append(@, f)]
            /\ UNCHANGED conn
  <2>1. CASE cl.rx.rxClosed
    <3>1. cl' = cl  BY <1>19, <2>1
    <3> QED  BY <1>2, <1>16, <1>19, <3>1
  <2>2. CASE ~cl.rx.rxClosed
    <3>1. f \in Frames  BY <1>7, <1>19 DEF Items
    <3>2. Good(f, o, n, l, ended)
      <4>1. 1 \in DOMAIN fs  BY <1>7, <1>8
      <4> HIDE DEF fs, f
      <4> QED  BY <1>7, <1>13, <1>19, <4>1 DEF GoodItems
    <3>3. cl \in ClientRecord /\ cl.inbox \in Seq(Frames)
      BY <1>2 DEF ClientStands, ClientRecord
    <3>4. PICK b : b = Append(cl.inbox, f)  OBVIOUS
    <3> HIDE DEF f, fs
    <3>5. /\ b \in Seq(Frames) /\ Len(b) = Len(cl.inbox) + 1
          /\ \A i \in 1..Len(cl.inbox) : b[i] = cl.inbox[i]
          /\ b[Len(cl.inbox) + 1] = f
      BY <3>1, <3>3, <3>4, AppendProperties
    <3>6. cl' = [cl EXCEPT !.inbox = b]  BY <1>19, <2>2, <3>4
    <3>7. /\ cl' \in ClientRecord /\ cl'.inbox = b /\ cl'.rx = cl.rx
          /\ cl'.registered = cl.registered /\ cl'.stopped = cl.stopped
          /\ cl'.closeReq = cl.closeReq
      BY <3>3, <3>5, <3>6 DEF ClientRecord
    <3>8. ClientStands(cl', conn', reader)  BY <1>2, <1>19, <2>2, <3>7 DEF ClientStands
    <3>9. \A i \in DOMAIN b : Good(b[i], o, n, l, ended)
      <4> SUFFICES ASSUME NEW i \in DOMAIN b PROVE Good(b[i], o, n, l, ended)  OBVIOUS
      <4>1. DOMAIN b = 1..Len(b) /\ DOMAIN cl.inbox = 1..Len(cl.inbox) /\ Len(cl.inbox) \in Nat
        BY <3>3, <3>5, LenProperties
      <4>2. i \in 1..Len(cl.inbox) \/ i = Len(cl.inbox) + 1  BY <3>5, <4>1
      <4>3. \A j \in DOMAIN cl.inbox : Good(cl.inbox[j], o, n, l, ended)
        BY <1>2 DEF Receiving
      <4> QED  BY <3>2, <3>5, <4>1, <4>2, <4>3
    <3>10. Receiving(cl', o, n, l, ended)  BY <1>2, <3>7, <3>9 DEF Receiving
    <3>11. Joined(c, conn', cl', o, l, ended)  BY <1>2, <1>19, <3>7 DEF Joined
    <3> QED  BY <1>16, <1>19, <3>8, <3>10, <3>11
  <2> QED  BY <2>1, <2>2
<1> QED  BY <1>17, <1>18, <1>19 DEF RouteRx

---------------------------------------------------------------------------
(* The steps of the client's session and of the reader.                    *)

LEMMA StepClosing ==
  ASSUME Inv, FinAges \/ ReadEof \/ IdleTimeout \/ Abort
  PROVE  Inv'
<1>1. ClientStands(cl, conn, reader)  BY DEF Inv, Shape
<1>2. UNCHANGED <<srv, supplied, ended, orphans, polls, conn, got, faults>>
  BY DEF FinAges, ReadEof, IdleTimeout, Abort, server, history
<1>3. ASSUME ClientStands(cl', conn, reader'), cl'.rx = cl.rx, cl'.inbox = cl.inbox
      PROVE  Inv'
  <2>1. Placed'  BY <1>2, <1>3, PollChanges
  <2>2. Shape'  BY <1>2, <1>3 DEF Inv, Shape
  <2> QED  BY <2>1, <2>2 DEF Inv
<1>4. CASE FinAges
  <2>1. cl' = [cl EXCEPT !.finOld = TRUE] /\ reader' = reader  BY <1>4 DEF FinAges
  <2>2. /\ cl' \in ClientRecord /\ cl'.stopped = cl.stopped /\ cl'.registered = cl.registered
        /\ cl'.rx = cl.rx /\ cl'.inbox = cl.inbox /\ cl'.closeReq = cl.closeReq
    BY <1>1, <2>1 DEF ClientStands, ClientRecord
  <2>3. ClientStands(cl', conn, reader)  BY <1>1, <2>2, FinSentStands
  <2> QED  BY <1>3, <2>1, <2>2, <2>3
<1>5. ASSUME cl' = [cl EXCEPT !.closeReq = TRUE], reader' \in {reader, "timeout", "eof"},
             reader' = "eof" => conn.end # "open"
      PROVE  Inv'
  <2>1. /\ cl' \in ClientRecord /\ cl'.stopped = cl.stopped /\ cl'.registered = cl.registered
        /\ cl'.rx = cl.rx /\ cl'.inbox = cl.inbox /\ cl'.closeReq = TRUE
    BY <1>1, <1>5 DEF ClientStands, ClientRecord
  <2>2. ClientStands(cl', conn, reader')  BY <1>1, <1>5, <2>1 DEF ClientStands
  <2> QED  BY <1>3, <2>1, <2>2
<1>6. CASE ReadEof  BY <1>5, <1>6 DEF ReadEof
<1>7. CASE IdleTimeout  BY <1>5, <1>7 DEF IdleTimeout
<1>8. CASE Abort
  <2>1. reader' = reader /\ cl' = [cl EXCEPT !.closeReq = TRUE]  BY <1>8 DEF Abort
  <2>2. reader = "eof" => conn.end # "open"  BY <1>1 DEF ClientStands
  <2> QED  BY <1>5, <2>1, <2>2
<1> QED  BY <1>4, <1>6, <1>7, <1>8

LEMMA StepRxLoopEnds == ASSUME Inv, RxLoopEnds PROVE Inv'
<1> DEFINE l == Len(supplied)
<1>1. PICK o \in Offsets, n \in Nat, c \in Offsets : Places(o, n, c)  BY DEF Inv, Placed
<1>2. /\ l \in Nat /\ Numbered(supplied) /\ ClientStands(cl, conn, reader)
      /\ Replies(polls, o, n, l, ended) /\ Upstream(srv, o, n, l, ended)
      /\ Cuts(c, got, conn, l) /\ Joined(c, conn, cl, o, l, ended)
  BY <1>1, Length DEF Inv, Shape, Places
<1>3. /\ cl' = CloseRx(cl) /\ conn' = Torn(conn)
      /\ UNCHANGED <<srv, supplied, ended, orphans, polls, got, reader, faults>>
  BY DEF RxLoopEnds, server, history
<1>4. /\ ClientStands(cl', conn', reader)
      /\ cl'.rx.rxClosed = TRUE /\ cl'.inbox = <<>>
      /\ conn'.chan = conn.chan /\ conn'.readBuf = conn.readBuf
      /\ conn'.end = "fin" <=> conn.end = "fin"
  BY <1>2, <1>3, CloseRxStands
<1>5. Receiving(cl', o, n, l, ended)
  <2>1. DOMAIN cl'.inbox = {}  BY <1>4
  <2> QED  BY <1>4, <2>1 DEF Receiving
<1>6. Cuts(c, got, conn', l) /\ Joined(c, conn', cl', o, l, ended)
  BY <1>2, <1>4 DEF Cuts, Joined
<1>7. Placed'  BY <1>2, <1>3, <1>5, <1>6, PlacedNext
<1>8. Shape'  BY <1>3, <1>4 DEF Inv, Shape
<1> QED  BY <1>7, <1>8 DEF Inv

LEMMA ConcatPieces ==
  ASSUME NEW s \in Seq(Seq(Nat)), NEW t \in Seq(Seq(Nat))
  PROVE  /\ s \o t \in Seq(Seq(Nat)) /\ Len(s \o t) = Len(s) + Len(t)
         /\ \A i \in 1..(Len(s) + Len(t)) :
              (s \o t)[i] = IF i <= Len(s) THEN s[i] ELSE t[i - Len(s)]
<1> DEFINE S == Seq(Nat)
<1>1. s \in Seq(S) /\ t \in Seq(S)  OBVIOUS
<1> HIDE DEF S
<1>2. /\ s \o t \in Seq(S) /\ Len(s \o t) = Len(s) + Len(t)
      /\ \A i \in 1..(Len(s) + Len(t)) :
           (s \o t)[i] = IF i <= Len(s) THEN s[i] ELSE t[i - Len(s)]
  BY <1>1, ConcatProperties
<1> QED  BY <1>2, Zenon DEF S

(* The payloads of the k frames from lo on. *)
Payloads(out, o, lo, k, l) ==
  /\ out \in Seq(Seq(Nat)) /\ Len(out) = k
  /\ \A i \in 1..k : out[i] = Span(o[lo + i - 1], o[lo + i])
  /\ \A i \in 1..k : o[lo + i - 1] <= o[lo + i] /\ o[lo + i] <= l

(* The connection h2 is h with out at the end of its channel. *)
Extends(h2, h, out, c, top) ==
  /\ h \in ConnRecord
  /\ h2 \in ConnRecord
  /\ h2.chan = h.chan \o out
  /\ h2.readBuf = h.readBuf
  /\ c[Len(h.chan) + 1] = top

(* The payloads of k frames more are cut where the frames begin. *)
LEMMA CutsExtend ==
  ASSUME NEW c \in Offsets, NEW o \in Offsets, NEW g, NEW h, NEW h2,
         NEW lo \in Nat, NEW k \in Nat, NEW l \in Nat, NEW out,
         Payloads(out, o, lo, k, l), Cuts(c, g, h, l), Extends(h2, h, out, c, o[lo])
  PROVE  \E e \in Offsets : Cuts(e, g, h2, l) /\ e[Len(h2.chan) + 1] = o[lo + k]
<1> DEFINE L == Len(h.chan)
           e == [m \in Nat |-> IF m <= L + 1 THEN c[m] ELSE o[lo + (m - L - 1)]]
<1>0. /\ out \in Seq(Seq(Nat)) /\ Len(out) = k
      /\ \A i \in 1..k : out[i] = Span(o[lo + i - 1], o[lo + i])
      /\ \A i \in 1..k : o[lo + i - 1] <= o[lo + i] /\ o[lo + i] <= l
      /\ h \in ConnRecord /\ h2.chan = h.chan \o out /\ h2.readBuf = h.readBuf
      /\ c[L + 1] = o[lo]
  BY DEF Payloads, Extends
<1>1. h.chan \in Seq(Seq(Nat)) /\ L \in Nat  BY <1>0, LenProperties DEF ConnRecord
<1>2. /\ Len(h2.chan) = L + k
      /\ \A i \in 1..(L + k) : h2.chan[i] = IF i <= L THEN h.chan[i] ELSE out[i - L]
  <2>1. /\ Len(h.chan \o out) = Len(h.chan) + Len(out)
        /\ \A i \in 1..(Len(h.chan) + Len(out)) :
             (h.chan \o out)[i] = IF i <= Len(h.chan) THEN h.chan[i] ELSE out[i - Len(h.chan)]
    BY <1>0, <1>1, ConcatPieces
  <2> QED  BY <1>0, <2>1, Zenon
<1>3. /\ g = Span(0, c[0]) /\ h.readBuf = Span(c[0], c[1])
      /\ \A i \in 1..L : h.chan[i] = Span(c[i], c[i + 1])
      /\ \A m \in 0..L : c[m] <= c[m + 1]
      /\ \A m \in 0..(L + 1) : c[m] <= l
      /\ c[L + 1] = o[lo]
  BY <1>0 DEF Cuts
<1> HIDE DEF L
<1>4. e \in Offsets
  <2>1. \A m \in Nat : m <= L + 1 \/ lo + (m - L - 1) \in Nat  BY <1>1
  <2>2. \A m \in Nat : e[m] \in Nat  BY <2>1 DEF Offsets
  <2> QED  BY <2>2 DEF Offsets
<1>5. \A m \in Nat : m <= L + 1 => e[m] = c[m]  OBVIOUS
<1>6. \A j \in Nat : L + 1 + j \in Nat /\ e[L + 1 + j] = o[lo + j]
  <2> SUFFICES ASSUME NEW j \in Nat PROVE L + 1 + j \in Nat /\ e[L + 1 + j] = o[lo + j]  OBVIOUS
  <2>1. L + 1 + j \in Nat /\ (L + 1 + j <= L + 1 <=> j = 0) /\ (L + 1 + j) - L - 1 = j  BY <1>1
  <2>2. CASE j = 0
    <3>1. L + 1 + j = L + 1 /\ lo + j = lo /\ L + 1 \in Nat  BY <1>1, <2>2
    <3> QED  BY <1>3, <1>5, <2>1, <3>1
  <2>3. CASE j # 0  BY <2>1, <2>3
  <2> QED  BY <2>2, <2>3
<1> HIDE DEF e
<1>7. ASSUME NEW m \in 0..(L + k) PROVE e[m] <= e[m + 1]
  <2>1. CASE m <= L
    <3>1. m \in 0..L /\ m \in Nat /\ m + 1 \in Nat /\ m <= L + 1 /\ m + 1 <= L + 1
      BY <1>1, <2>1
    <3> QED  BY <1>3, <1>5, <3>1
  <2>2. CASE ~(m <= L)
    <3>1. PICK j \in Nat : m = L + 1 + j /\ j + 1 \in 1..k /\ m + 1 = L + 1 + (j + 1)
      <4>1. m - L - 1 \in Nat /\ m = L + 1 + (m - L - 1) /\ (m - L - 1) + 1 \in 1..k
            /\ m + 1 = L + 1 + ((m - L - 1) + 1)
        BY <1>1, <2>2
      <4> QED  BY <4>1
    <3>2. lo + (j + 1) - 1 = lo + j /\ j + 1 \in Nat  OBVIOUS
    <3>3. e[m] = o[lo + j] /\ e[m + 1] = o[lo + (j + 1)]  BY <1>6, <3>1, <3>2
    <3> QED  BY <1>0, <3>1, <3>2, <3>3
  <2> QED  BY <2>1, <2>2
<1>8. ASSUME NEW m \in 0..(L + k + 1) PROVE e[m] <= l
  <2>1. CASE m <= L + 1
    <3>1. m \in 0..(L + 1) /\ m \in Nat  BY <1>1, <2>1
    <3> QED  BY <1>3, <1>5, <2>1, <3>1
  <2>2. CASE ~(m <= L + 1)
    <3>1. PICK j \in 1..k : m = L + 1 + j
      <4>1. m - L - 1 \in 1..k /\ m = L + 1 + (m - L - 1)  BY <1>1, <2>2
      <4> QED  BY <4>1
    <3>2. j \in Nat  OBVIOUS
    <3>3. e[m] = o[lo + j]  BY <1>6, <3>1, <3>2
    <3> QED  BY <1>0, <3>1, <3>3
  <2> QED  BY <2>1, <2>2
<1>9. ASSUME NEW i \in 1..(L + k) PROVE h2.chan[i] = Span(e[i], e[i + 1])
  <2>1. CASE i <= L
    <3>1. i \in 1..L /\ i \in Nat /\ i + 1 \in Nat /\ i <= L + 1 /\ i + 1 <= L + 1
      BY <1>1, <2>1
    <3> QED  BY <1>2, <1>3, <1>5, <2>1, <3>1
  <2>2. CASE ~(i <= L)
    <3>1. PICK j \in 1..k : i - L = j /\ i = L + 1 + (j - 1) /\ i + 1 = L + 1 + j /\ j - 1 \in Nat
      <4>1. i - L \in 1..k /\ i = L + 1 + ((i - L) - 1) /\ i + 1 = L + 1 + (i - L)
            /\ (i - L) - 1 \in Nat
        BY <1>1, <2>2
      <4> QED  BY <4>1
    <3>2. e[i] = o[lo + (j - 1)] /\ e[i + 1] = o[lo + j] /\ lo + (j - 1) = lo + j - 1
      <4>1. j \in Nat /\ lo + (j - 1) = lo + j - 1  OBVIOUS
      <4>2. e[L + 1 + (j - 1)] = o[lo + (j - 1)] /\ e[L + 1 + j] = o[lo + j]
        BY <1>6, <3>1, <4>1
      <4> QED  BY <3>1, <4>1, <4>2
    <3>3. h2.chan[i] = out[j]  BY <1>2, <2>2, <3>1
    <3> QED  BY <1>0, <3>1, <3>2, <3>3
  <2> QED  BY <2>1, <2>2
<1>10. e[0] = c[0] /\ e[1] = c[1]
  <2>1. 0 <= L + 1 /\ 1 <= L + 1 /\ 0 \in Nat /\ 1 \in Nat  BY <1>1
  <2> QED  BY <1>5, <2>1
<1>11. e[L + k + 1] = o[lo + k]
  <2>1. L + k + 1 = L + 1 + k  BY <1>1
  <2> QED  BY <1>6, <2>1
<1>12. Cuts(e, g, h2, l)
  BY <1>0, <1>2, <1>3, <1>7, <1>8, <1>9, <1>10 DEF Cuts
<1> QED  BY <1>2, <1>4, <1>11, <1>12

(* One turn of rxLoop. *)
LEMMA StepRxLoop == ASSUME Inv, RxLoop PROVE Inv'
<1> DEFINE l == Len(supplied)
           f == Head(cl.inbox)
           r == cl.rx
           L == Len(conn.chan)
<1>1. PICK o \in Offsets, n \in Nat, c \in Offsets : Places(o, n, c)  BY DEF Inv, Placed
<1>2. /\ l \in Nat /\ Numbered(supplied) /\ ClientStands(cl, conn, reader)
      /\ Replies(polls, o, n, l, ended) /\ Upstream(srv, o, n, l, ended)
      /\ Receiving(cl, o, n, l, ended)
      /\ Cuts(c, got, conn, l) /\ Joined(c, conn, cl, o, l, ended)
  BY <1>1, Length DEF Inv, Shape, Places
<1>3. PICK d : d = DeliverRx(r, f)  OBVIOUS
<1>4. /\ cl.inbox # <<>>
      /\ cl' = IF d.closing THEN [CloseRx(cl) EXCEPT !.stopped = TRUE]
               ELSE [cl EXCEPT !.rx = d.rx, !.inbox = Tail(@)]
      /\ conn' = [conn EXCEPT !.chan = @ \o d.out, !.end = IF d.closing THEN "fin" ELSE @]
      /\ UNCHANGED <<srv, supplied, ended, orphans, polls, got, reader, faults>>
  BY <1>3 DEF RxLoop, server, history
<1>5. /\ cl \in ClientRecord /\ conn \in ConnRecord /\ cl.inbox \in Seq(Frames)
      /\ conn.chan \in Seq(Seq(Nat)) /\ L \in Nat /\ ~cl.rx.rxClosed /\ conn.end = "open"
      /\ reader # "eof" /\ (cl.registered \/ cl.stopped) /\ (reader # "reading" => cl.closeReq)
  BY <1>2, <1>4, LenProperties DEF ClientStands, ClientRecord, ConnRecord
<1>6. PICK ts : ts = Tail(cl.inbox)  OBVIOUS
<1>7. /\ ts \in Seq(Frames) /\ f \in Frames /\ f = cl.inbox[1] /\ Len(ts) = Len(cl.inbox) - 1
      /\ Len(cl.inbox) \in Nat \ {0} /\ \A i \in 1..Len(ts) : ts[i] = cl.inbox[i + 1]
      /\ DOMAIN cl.inbox = 1..Len(cl.inbox) /\ DOMAIN ts = 1..Len(ts)
  BY <1>4, <1>5, <1>6, HeadTailProperties, EmptySeq, LenProperties
<1>8. /\ \A i \in DOMAIN cl.inbox : Good(cl.inbox[i], o, n, l, ended)
      /\ Receives(r, o, n, l, ended)
  BY <1>2, <1>5 DEF Receiving
<1>9. Good(f, o, n, l, ended) /\ \A i \in DOMAIN ts : Good(ts[i], o, n, l, ended)
  <2>1. 1 \in DOMAIN cl.inbox /\ \A i \in DOMAIN ts : i + 1 \in DOMAIN cl.inbox  BY <1>7
  <2> HIDE DEF f, l
  <2> QED  BY <1>7, <1>8, <2>1
<1> HIDE DEF f, l
<1>10. PICK k \in Nat : Delivery(d, r, o, n, l, ended, k)
  BY <1>2, <1>3, <1>7, <1>8, <1>9, DeliverFacts
<1>11. PICK lo \in Nat : lo = r.rxSeq  BY <1>8 DEF Receives, RxRecord
<1>12. /\ d.out = [i \in 1..k |-> Span(o[lo + i - 1], o[lo + i])]
       /\ \A i \in 1..k : o[lo + i - 1] <= o[lo + i] /\ o[lo + i] <= l
       /\ d.closing \in BOOLEAN
       /\ ~d.closing => Receives(d.rx, o, n, l, ended) /\ d.rx.rxSeq = lo + k
       /\ d.closing => ended /\ o[lo + k] = l
  BY <1>10, <1>11 DEF Delivery
<1>13. PICK out : out = d.out  OBVIOUS
<1>14. /\ out \in Seq(Seq(Nat)) /\ Len(out) = k
       /\ \A i \in 1..k : out[i] = Span(o[lo + i - 1], o[lo + i])
  <2>1. \A i \in 1..k : out[i] = Span(o[lo + i - 1], o[lo + i])  BY <1>12, <1>13
  <2> DEFINE S == Seq(Nat)
  <2>2. ASSUME NEW i \in 1..k PROVE Span(o[lo + i - 1], o[lo + i]) \in S
    <3>1. lo + i - 1 \in Nat /\ lo + i \in Nat  OBVIOUS
    <3>2. o[lo + i - 1] \in Nat /\ o[lo + i] \in Nat  BY <3>1 DEF Offsets
    <3> QED  BY <1>12, <3>2, SpanFacts
  <2> HIDE DEF S
  <2>3. out \in [1..k -> S]  BY <1>12, <1>13, <2>2
  <2>4. out \in Seq(S) /\ Len(out) = k  BY <2>3, FunctionIsSequence
  <2> QED  BY <2>1, <2>4 DEF S
<1>15. PICK z \in {"open", "fin"} : z = IF d.closing THEN "fin" ELSE conn.end  BY <1>5
<1>16. PICK ch : ch = conn.chan \o out  OBVIOUS
<1>17. ch \in Seq(Seq(Nat))  BY <1>5, <1>14, <1>16, ConcatPieces
<1>18. conn' = [conn EXCEPT !.chan = ch, !.end = z]  BY <1>4, <1>13, <1>15, <1>16
<1>19. conn' \in ConnRecord /\ conn'.chan = ch /\ conn'.end = z /\ conn'.readBuf = conn.readBuf
  BY <1>5, <1>17, <1>18 DEF ConnRecord
<1>20. c[L + 1] = o[lo]  BY <1>2, <1>5, <1>11 DEF Joined
<1>21. PICK e \in Offsets : Cuts(e, got, conn', l) /\ e[Len(conn'.chan) + 1] = o[lo + k]
  <2>1. PICK h, h2 : h = conn /\ h2 = conn'  OBVIOUS
  <2>2. \E e \in Offsets : Cuts(e, got, h2, l) /\ e[Len(h2.chan) + 1] = o[lo + k]
    <3>1. Extends(h2, h, out, c, o[lo]) /\ Cuts(c, got, h, l)
      BY <1>2, <1>5, <1>16, <1>19, <1>20, <2>1 DEF Extends
    <3>2. Payloads(out, o, lo, k, l) /\ l \in Nat  BY <1>2, <1>12, <1>14 DEF Payloads
    <3> QED  BY <3>1, <3>2, CutsExtend
  <2> QED  BY <2>1, <2>2
<1>22. /\ ClientStands(cl', conn', reader) /\ Receiving(cl', o, n, l, ended)
       /\ Joined(e, conn', cl', o, l, ended)
  <2>1. CASE d.closing
    <3>1. cl' = [CloseRx(cl) EXCEPT !.stopped = TRUE] /\ z = "fin"  BY <1>4, <1>15, <2>1
    <3>2. PICK x : x = [NewRx EXCEPT !.rxClosed = TRUE]  OBVIOUS
    <3>3. x \in RxRecord /\ x.rxClosed = TRUE  BY <3>2, EmptyQueue DEF NewRx
    <3>4. cl' = [[cl EXCEPT !.rx = x, !.inbox = <<>>] EXCEPT !.stopped = TRUE]
      BY <3>1, <3>2 DEF CloseRx
    <3>5. /\ cl' \in ClientRecord /\ cl'.rx = x /\ cl'.inbox = <<>> /\ cl'.stopped = TRUE
          /\ cl'.closeReq = cl.closeReq
      BY <1>5, <3>3, <3>4, EmptySeq DEF ClientRecord
    <3>6. reader \in {"reading", "eof", "timeout"}  BY <1>2 DEF ClientStands
    <3>7. ClientStands(cl', conn', reader)  BY <1>5, <1>19, <3>1, <3>3, <3>5, <3>6 DEF ClientStands
    <3>8. Receiving(cl', o, n, l, ended)
      <4>1. DOMAIN cl'.inbox = {}  BY <3>5
      <4> QED  BY <3>3, <3>5, <4>1 DEF Receiving
    <3>9. Joined(e, conn', cl', o, l, ended)
      BY <1>12, <1>19, <1>21, <2>1, <3>3, <3>5 DEF Joined
    <3> QED  BY <3>7, <3>8, <3>9
  <2>2. CASE ~d.closing
    <3>1. cl' = [cl EXCEPT !.rx = d.rx, !.inbox = ts] /\ z = "open"
      BY <1>4, <1>5, <1>6, <1>15, <2>2
    <3>2. Receives(d.rx, o, n, l, ended) /\ d.rx.rxSeq = lo + k  BY <1>12, <2>2
    <3>3. d.rx \in RxRecord /\ ~d.rx.rxClosed  BY <3>2 DEF Receives
    <3>4. /\ cl' \in ClientRecord /\ cl'.rx = d.rx /\ cl'.inbox = ts
          /\ cl'.closeReq = cl.closeReq /\ cl'.stopped = cl.stopped
          /\ cl'.registered = cl.registered
      BY <1>5, <1>7, <3>1, <3>3 DEF ClientRecord
    <3>5. reader \in {"reading", "eof", "timeout"}  BY <1>2 DEF ClientStands
    <3>6. ClientStands(cl', conn', reader)  BY <1>5, <1>19, <3>1, <3>3, <3>4, <3>5 DEF ClientStands
    <3>7. Receiving(cl', o, n, l, ended)  BY <1>9, <3>2, <3>4 DEF Receiving
    <3>8. Joined(e, conn', cl', o, l, ended)
      BY <1>19, <1>21, <3>1, <3>2, <3>4 DEF Joined
    <3> QED  BY <3>6, <3>7, <3>8
  <2> QED  BY <2>1, <2>2
<1>23. Placed'  BY <1>2, <1>4, <1>21, <1>22, PlacedNext DEF l
<1>24. Shape'  BY <1>4, <1>22 DEF Inv, Shape
<1> QED  BY <1>23, <1>24 DEF Inv

(* Read takes from the front of a piece and leaves the rest. *)
LEMMA TakeSpan ==
  ASSUME NEW a \in Nat, NEW b \in Nat, a <= b
  PROVE  LET y == Least(ReadSize, Len(Span(a, b)))
         IN  /\ SubSeq(Span(a, b), 1, y) = Span(a, a + y)
             /\ SubSeq(Span(a, b), ReadSize + 1, Len(Span(a, b))) = Span(a + y, b)
             /\ y \in Nat /\ a + y \in Nat /\ a + y <= b
<1> DEFINE n == b - a
           y == Least(ReadSize, n)
<1>1. Len(Span(a, b)) = n /\ n \in Nat /\ a + n = b  BY SpanFacts
<1> HIDE DEF n
<1>2. ReadSize \in Nat  BY Constants
<1>3. y \in Nat /\ y <= n /\ Least(0, n) = 0 /\ Least(0, n) <= y  BY <1>1, <1>2 DEF Least
<1> HIDE DEF y
<1>4. SubSeq(Span(a, a + n), 1, y) = Span(a + 0, a + y)
  <2>1. PICK x \in Nat : x = 0 /\ x + 1 = 1  OBVIOUS
  <2>2. Least(x, n) <= y  BY <1>3, <2>1
  <2>3. SubSeq(Span(a, a + n), x + 1, y) = Span(a + Least(x, n), a + y)
    BY <1>1, <1>3, <2>2, SpanSub
  <2> QED  BY <1>3, <2>1, <2>3
<1>5. SubSeq(Span(a, a + n), ReadSize + 1, n) = Span(a + Least(ReadSize, n), a + n)
  <2>1. n <= n /\ Least(ReadSize, n) <= n  BY <1>1, <1>3 DEF y
  <2> QED  BY <1>1, <1>2, <2>1, SpanSub
<1>6. 0 + 1 = 1 /\ a + 0 = a /\ a + y \in Nat /\ a + y <= b  BY <1>1, <1>3
<1> QED  BY <1>1, <1>3, <1>4, <1>5, <1>6 DEF y

(* The channel is left with ch, which is cut at e[1] = b, e[2], ... *)
Remains(e, ch, b, l, top) ==
  /\ ch \in Seq(Seq(Nat))
  /\ e \in Offsets
  /\ e[1] = b
  /\ \A i \in 1..Len(ch) : ch[i] = Span(e[i], e[i + 1])
  /\ \A m \in 1..Len(ch) : e[m] <= e[m + 1]
  /\ \A m \in 1..(Len(ch) + 1) : e[m] <= l
  /\ e[Len(ch) + 1] = top

(* Take, with the channel it leaves. *)
Takes(data, ch) ==
  /\ got' = got \o SubSeq(data, 1, Least(ReadSize, Len(data)))
  /\ conn' = [conn EXCEPT !.readBuf = SubSeq(data, ReadSize + 1, Len(data)), !.chan = ch]

LEMMA StepRead ==
  ASSUME Inv, Read
  PROVE  Inv' /\ \E x \in Seq(Nat) : got' = got \o x
<1> DEFINE l == Len(supplied)
           L == Len(conn.chan)
<1>1. PICK o \in Offsets, n \in Nat, c \in Offsets : Places(o, n, c)  BY DEF Inv, Placed
<1>2. /\ l \in Nat /\ Numbered(supplied) /\ ClientStands(cl, conn, reader)
      /\ Replies(polls, o, n, l, ended) /\ Upstream(srv, o, n, l, ended)
      /\ Receiving(cl, o, n, l, ended)
      /\ Cuts(c, got, conn, l) /\ Joined(c, conn, cl, o, l, ended)
  BY <1>1, Length DEF Inv, Shape, Places
<1>3. UNCHANGED <<srv, supplied, ended, orphans, polls, cl, reader, faults>>
  BY DEF Read, server, history
<1>4. /\ conn \in ConnRecord /\ conn.chan \in Seq(Seq(Nat)) /\ L \in Nat
      /\ conn.readBuf \in Seq(Nat) /\ conn.end \in {"open", "fin", "torn"}
  BY <1>2, LenProperties DEF ClientStands, ConnRecord
<1>5. /\ got = Span(0, c[0]) /\ conn.readBuf = Span(c[0], c[1])
      /\ \A i \in 1..L : conn.chan[i] = Span(c[i], c[i + 1])
      /\ \A m \in 0..L : c[m] <= c[m + 1]
      /\ \A m \in 0..(L + 1) : c[m] <= l
  BY <1>2 DEF Cuts
<1>6. \A m \in Nat : c[m] \in Nat  BY DEF Offsets
<1> HIDE DEF l, L
<1>7. ASSUME NEW data, NEW ch, NEW e, NEW a \in Nat, NEW b \in Nat, NEW y,
             y = Least(ReadSize, Len(data)), Takes(data, ch),
             data = Span(a, b), a <= b, b <= l, got = Span(0, a),
             e[0] = a + y, Remains(e, ch, b, l, c[L + 1])
      PROVE  Inv' /\ \E x \in Seq(Nat) : got' = got \o x
  <2>0. /\ got' = got \o SubSeq(data, 1, y)
        /\ conn' = [conn EXCEPT !.readBuf = SubSeq(data, ReadSize + 1, Len(data)), !.chan = ch]
        /\ ch \in Seq(Seq(Nat)) /\ e \in Offsets /\ e[1] = b
        /\ \A i \in 1..Len(ch) : ch[i] = Span(e[i], e[i + 1])
        /\ \A m \in 1..Len(ch) : e[m] <= e[m + 1]
        /\ \A m \in 1..(Len(ch) + 1) : e[m] <= l
        /\ e[Len(ch) + 1] = c[L + 1]
    BY <1>7 DEF Takes, Remains
  <2>1. /\ SubSeq(data, 1, y) = Span(a, a + y)
        /\ SubSeq(data, ReadSize + 1, Len(data)) = Span(a + y, b)
        /\ y \in Nat /\ a + y \in Nat /\ a + y <= b
    BY <1>7, TakeSpan
  <2>2. Span(a + y, b) \in Seq(Nat)  BY <2>1, SpanFacts
  <2>3. got' = Span(0, a + y) /\ \E x \in Seq(Nat) : got' = got \o x
    <3>1. a <= a + y /\ 0 <= a /\ 0 \in Nat  BY <2>1
    <3>2. Span(0, a) \o Span(a, a + y) = Span(0, a + y)  BY <2>1, <3>1, SpanConcat
    <3>3. Span(a, a + y) \in Seq(Nat)  BY <2>1, <3>1, SpanFacts
    <3> QED  BY <1>7, <2>0, <2>1, <3>2, <3>3
  <2>4. PICK z : z = Span(a + y, b)  OBVIOUS
  <2>5. conn' = [conn EXCEPT !.readBuf = z, !.chan = ch]  BY <2>0, <2>1, <2>4
  <2>6. conn' \in ConnRecord /\ conn'.readBuf = z /\ conn'.chan = ch /\ conn'.end = conn.end
    BY <1>4, <2>0, <2>2, <2>4, <2>5 DEF ConnRecord
  <2>7. Cuts(e, got', conn', l)
    <3>0. Len(ch) \in Nat
      <4> DEFINE S == Seq(Nat)
      <4>1. ch \in Seq(S)  BY <2>0
      <4> HIDE DEF S
      <4> QED  BY <4>1, LenProperties
    <3>1. \A m \in 0..Len(ch) : m = 0 \/ m \in 1..Len(ch)  BY <3>0
    <3>2. \A m \in 0..(Len(ch) + 1) : m = 0 \/ m \in 1..(Len(ch) + 1)  BY <3>0
    <3>3. a + y <= l /\ 0 + 1 = 1  BY <1>2, <1>7, <2>1
    <3>4. e[0] <= e[1] /\ e[0] <= l  BY <1>7, <2>0, <2>1, <3>3
    <3>5. \A m \in 0..Len(ch) : e[m] <= e[m + 1]  BY <2>0, <3>1, <3>3, <3>4
    <3>6. \A m \in 0..(Len(ch) + 1) : e[m] <= l  BY <2>0, <3>2, <3>4
    <3>7. got' = Span(0, e[0]) /\ conn'.readBuf = Span(e[0], e[1])  BY <1>7, <2>0, <2>3, <2>4, <2>6
    <3> QED  BY <2>0, <2>6, <3>5, <3>6, <3>7 DEF Cuts
  <2>8. Joined(e, conn', cl, o, l, ended)  BY <1>2, <2>0, <2>6 DEF Joined, L
  <2>9. Placed'  BY <1>2, <1>3, <2>0, <2>7, <2>8, PlacedNext DEF l
  <2>10. ClientStands(cl, conn', reader)  BY <1>2, <2>6 DEF ClientStands
  <2>11. Shape'  BY <1>3, <2>10 DEF Inv, Shape
  <2> QED  BY <2>3, <2>9, <2>11 DEF Inv
<1>8. CASE conn.readBuf # <<>> /\ Take(conn.readBuf)
  <2>1. PICK a \in Nat, b \in Nat : a = c[0] /\ b = c[1]  BY <1>6
  <2>2. PICK y : y = Least(ReadSize, Len(conn.readBuf))  OBVIOUS
  <2>3. /\ 0 \in 0..L /\ 0 + 1 = 1 /\ 0 \in 0..(L + 1) /\ 1 \in 0..(L + 1)  BY <1>4
  <2>4. a <= b /\ b <= l /\ conn.readBuf = Span(a, b) /\ got = Span(0, a)
    BY <1>5, <2>1, <2>3
  <2>5. y \in Nat /\ a + y \in Nat  BY <2>2, <2>4, TakeSpan
  <2>6. PICK e : e = [c EXCEPT ![0] = a + y]  OBVIOUS
  <2>7. e \in Offsets /\ e[0] = a + y /\ \A m \in Nat : m # 0 => e[m] = c[m]
    BY <2>5, <2>6 DEF Offsets
  <2>8. /\ \A i \in 1..L : i \in Nat /\ i + 1 \in Nat /\ i # 0 /\ i + 1 # 0 /\ i \in 0..L
        /\ \A m \in 1..(L + 1) : m \in Nat /\ m # 0 /\ m \in 0..(L + 1)
        /\ L + 1 \in Nat /\ L + 1 # 0 /\ 1 \in Nat /\ 1 # 0
    BY <1>4
  <2>9. PICK ch : ch = conn.chan  OBVIOUS
  <2>10. /\ e[1] = b /\ \A i \in 1..L : ch[i] = Span(e[i], e[i + 1])
         /\ \A m \in 1..L : e[m] <= e[m + 1]
         /\ \A m \in 1..(L + 1) : e[m] <= l
         /\ e[L + 1] = c[L + 1]
    <3>1. e[1] = b /\ e[L + 1] = c[L + 1]  BY <2>1, <2>7, <2>8
    <3>2. \A i \in 1..L : e[i] = c[i] /\ e[i + 1] = c[i + 1]  BY <2>7, <2>8
    <3>3. \A m \in 1..(L + 1) : e[m] = c[m]  BY <2>7, <2>8
    <3> QED  BY <1>5, <2>8, <2>9, <3>1, <3>2, <3>3
  <2>11. Takes(conn.readBuf, ch)  BY <1>8, <2>9 DEF Take, Takes
  <2>12. ch \in Seq(Seq(Nat)) /\ Len(ch) = L  BY <1>4, <2>9 DEF L
  <2>13. Remains(e, ch, b, l, c[L + 1])  BY <2>7, <2>10, <2>12 DEF Remains
  <2> QED  BY <1>7, <2>2, <2>4, <2>7, <2>11, <2>13
<1>9. CASE conn.readBuf = <<>> /\ conn.chan # <<>> /\ Take(Head(conn.chan))
  <2>1. PICK a \in Nat, b \in Nat : a = c[1] /\ b = c[2]  BY <1>6
  <2>2. PICK data : data = Head(conn.chan)  OBVIOUS
  <2>3. PICK ch : ch = Tail(conn.chan)  OBVIOUS
  <2>4. /\ L \in Nat \ {0} /\ data = conn.chan[1] /\ ch \in Seq(Seq(Nat)) /\ Len(ch) = L - 1
        /\ \A i \in 1..Len(ch) : ch[i] = conn.chan[i + 1]
    <3> DEFINE S == Seq(Nat)
    <3>1. conn.chan \in Seq(S) /\ conn.chan # <<>>  BY <1>4, <1>9
    <3> HIDE DEF S
    <3>2. /\ Len(conn.chan) \in Nat \ {0} /\ data = conn.chan[1] /\ ch \in Seq(S)
          /\ Len(ch) = Len(conn.chan) - 1 /\ \A i \in 1..Len(ch) : ch[i] = conn.chan[i + 1]
      BY <2>2, <2>3, <3>1, HeadTailProperties, EmptySeq
    <3> QED  BY <3>2 DEF S, L
  <2>5. PICK y : y = Least(ReadSize, Len(data))  OBVIOUS
  <2>6. /\ 1 \in 1..L /\ 1 + 1 = 2 /\ 0 + 1 = 1 /\ 0 \in 0..L /\ 1 \in 0..L /\ 2 \in 0..(L + 1)
        /\ Len(ch) + 1 = L /\ L \in Nat
    BY <2>4
  <2>7. a <= b /\ b <= l /\ data = Span(a, b)  BY <1>5, <2>1, <2>4, <2>6
  <2>8. got = Span(0, a)
    <3>1. c[0] \in Nat /\ c[1] \in Nat /\ c[0] <= c[1]  BY <1>5, <1>6, <2>6
    <3>2. Len(Span(c[0], c[1])) = c[1] - c[0]  BY <3>1, SpanFacts
    <3>3. Len(Span(c[0], c[1])) = 0  BY <1>5, <1>9, EmptySeq
    <3>4. c[0] = c[1]  BY <3>1, <3>2, <3>3
    <3> QED  BY <1>5, <2>1, <3>4
  <2>9. y \in Nat /\ a + y \in Nat  BY <2>5, <2>7, TakeSpan
  <2>10. PICK e : e = [m \in Nat |-> IF m = 0 THEN a + y ELSE c[m + 1]]  OBVIOUS
  <2>11. e \in Offsets /\ e[0] = a + y /\ \A m \in Nat : m # 0 => e[m] = c[m + 1]
    <3>1. \A m \in Nat : e[m] \in Nat  BY <1>6, <2>9, <2>10
    <3> QED  BY <2>10, <3>1 DEF Offsets
  <2>12. /\ \A i \in 1..Len(ch) : /\ i \in Nat /\ i + 1 \in Nat /\ i # 0 /\ i + 1 # 0
                                  /\ i + 1 \in 1..L /\ i + 1 \in 0..L
         /\ \A m \in 1..(Len(ch) + 1) : m \in Nat /\ m # 0 /\ m + 1 \in 0..(L + 1)
         /\ L \in Nat /\ L # 0 /\ 1 \in Nat /\ 1 # 0
    BY <2>4, <2>6
  <2>13. /\ e[1] = b /\ \A i \in 1..Len(ch) : ch[i] = Span(e[i], e[i + 1])
         /\ \A m \in 1..Len(ch) : e[m] <= e[m + 1]
         /\ \A m \in 1..(Len(ch) + 1) : e[m] <= l
         /\ e[Len(ch) + 1] = c[L + 1]
    <3>1. e[1] = b /\ e[Len(ch) + 1] = c[L + 1]  BY <2>1, <2>6, <2>11, <2>12
    <3>2. \A i \in 1..Len(ch) : e[i] = c[i + 1] /\ e[i + 1] = c[i + 1 + 1]  BY <2>11, <2>12
    <3>3. \A m \in 1..(Len(ch) + 1) : e[m] = c[m + 1]  BY <2>11, <2>12
    <3>4. \A i \in 1..Len(ch) : ch[i] = Span(c[i + 1], c[i + 1 + 1])  BY <1>5, <2>4, <2>12
    <3>5. \A i \in 1..Len(ch) : c[i + 1] <= c[i + 1 + 1]  BY <1>5, <2>12
    <3>6. \A m \in 1..(Len(ch) + 1) : c[m + 1] <= l  BY <1>5, <2>12
    <3> QED  BY <3>1, <3>2, <3>3, <3>4, <3>5, <3>6
  <2>14. Takes(data, ch)  BY <1>9, <2>2, <2>3 DEF Take, Takes
  <2>15. Remains(e, ch, b, l, c[L + 1])  BY <2>4, <2>11, <2>13 DEF Remains
  <2> QED  BY <1>7, <2>5, <2>7, <2>8, <2>11, <2>14, <2>15
<1> QED  BY <1>8, <1>9 DEF Read

---------------------------------------------------------------------------
(* The invariant holds.                                                    *)

LEMMA InvStep == ASSUME Inv, [Next]_vars PROVE Inv'
<1>1. ASSUME NEW w \in Workers, Round(w) PROVE Inv'
  BY <1>1, StepPoll, StepAnswer, StepRouteRx, StepPollEnds DEF Round
<1>2. ASSUME NEW w \in Workers, Fault(w) PROVE Inv'
  BY <1>2, StepPollEnds DEF Fault
<1>3. CASE ReadData  BY <1>3, StepReadData
<1>4. CASE ReadEnd  BY <1>4, StepReadEnd
<1>5. CASE IdleGc \/ OrphanAnswer \/ OrphanEnds  BY <1>5, StepOrphans
<1>6. CASE FinAges \/ ReadEof \/ IdleTimeout \/ Abort  BY <1>6, StepClosing
<1>7. CASE RxLoop  BY <1>7, StepRxLoop
<1>8. CASE RxLoopEnds  BY <1>8, StepRxLoopEnds
<1>9. CASE Read  BY <1>9, StepRead
<1>10. CASE Restart  BY <1>10, StepRestart
<1>11. CASE UNCHANGED vars
  <2>1. UNCHANGED <<srv, supplied, ended, orphans, polls, cl, conn, got, reader, faults>>
    BY <1>11 DEF vars
  <2>2. Placed'  BY <2>1, PollChanges
  <2>3. Shape'  BY <2>1 DEF Inv, Shape
  <2> QED  BY <2>2, <2>3 DEF Inv
<1> QED
  BY <1>1, <1>2, <1>3, <1>4, <1>5, <1>6, <1>7, <1>8, <1>9, <1>10, <1>11 DEF Next

LEMMA InvHolds == Spec => []Inv
<1>1. Init => Inv  BY InitShape, InitPlaced DEF Inv
<1>2. Inv /\ [Next]_vars => Inv'  BY InvStep
<1> QED  BY <1>1, <1>2, PTL DEF Spec

(* What Read has returned begins what the upstream has sent. *)
LEMMA GotFacts ==
  ASSUME Inv
  PROVE  \E x \in Nat : /\ got = Span(0, x) /\ x <= Len(supplied)
                        /\ Len(got) = x
                        /\ conn.end = "fin" /\ conn.readBuf = <<>> /\ conn.chan = <<>> =>
                             ended /\ got = supplied
<1>1. PICK o \in Offsets, n \in Nat, c \in Offsets : Places(o, n, c)  BY DEF Inv, Placed
<1>2. /\ Cuts(c, got, conn, Len(supplied)) /\ Joined(c, conn, cl, o, Len(supplied), ended)
      /\ Len(supplied) \in Nat /\ supplied = Span(0, Len(supplied)) /\ Len(conn.chan) \in Nat
  BY <1>1, Length, LenProperties DEF Inv, Shape, ClientStands, ConnRecord, Places, Numbered
<1>3. PICK x \in Nat, y \in Nat : x = c[0] /\ y = c[1]  BY DEF Offsets
<1>4. /\ got = Span(0, x) /\ x <= Len(supplied) /\ x <= y /\ conn.readBuf = Span(x, y)
  <2>1. 0 \in 0..Len(conn.chan) /\ 0 \in 0..(Len(conn.chan) + 1) /\ 0 + 1 = 1  BY <1>2
  <2> QED  BY <1>2, <1>3, <2>1 DEF Cuts
<1>5. Len(got) = x
  <2>1. 0 \in Nat /\ 0 <= x /\ x - 0 = x  OBVIOUS
  <2> QED  BY <1>4, <2>1, SpanFacts
<1>6. ASSUME conn.end = "fin", conn.readBuf = <<>>, conn.chan = <<>>
      PROVE  ended /\ got = supplied
  <2>1. Len(Span(x, y)) = y - x  BY <1>4, SpanFacts
  <2>2. Len(Span(x, y)) = 0  BY <1>4, <1>6, EmptySeq
  <2>3. x = y  BY <2>1, <2>2
  <2>4. Len(conn.chan) = 0  BY <1>6, EmptySeq
  <2>5. 0 + 1 = 1  OBVIOUS
  <2>6. ended /\ y = Len(supplied)  BY <1>2, <1>3, <1>6, <2>4, <2>5 DEF Joined
  <2> QED  BY <1>2, <1>4, <2>3, <2>6
<1> QED  BY <1>4, <1>5, <1>6

Begins == \E x \in Nat : got = Span(0, x) /\ x <= Len(supplied) /\ Len(got) = x

LEMMA GotNext == Inv' => Begins'
<1>1. Inv => Begins  BY GotFacts DEF Begins
<1> QED  BY <1>1, PTL

LEMMA SpanType ==
  ASSUME NEW x \in Nat, NEW k \in Nat, x <= k
  PROVE  Span(0, x) \in Seq(1..k)
<1>1. Span(0, x) \in [1..x -> 1..k]
  <2>1. x - 0 = x  OBVIOUS
  <2>2. \A i \in 1..x : 0 + i \in 1..k  OBVIOUS
  <2> QED  BY <2>1, <2>2 DEF Span
<1> QED  BY <1>1, FunctionIsSequence

LEMMA InvTypes == Inv => TypeOK
<1> SUFFICES ASSUME Inv PROVE TypeOK  OBVIOUS
<1>1. supplied \in Seq(1..MaxBytes) /\ got \in Seq(1..MaxBytes)
  <2>1. PICK x \in Nat : got = Span(0, x) /\ x <= Len(supplied)  BY GotFacts
  <2>2. PICK l \in Nat : l = Len(supplied) /\ l <= MaxBytes /\ supplied = Span(0, l)
    BY Length DEF Inv, Numbered
  <2>3. x <= MaxBytes  BY <2>1, <2>2, Constants
  <2> QED  BY <2>1, <2>2, <2>3, SpanType, Constants
<1>2. /\ srv.known \in BOOLEAN /\ srv.rst \in BOOLEAN /\ srv.peerFin \in BOOLEAN
      /\ Len(srv.tx.txBuf) <= HighWater + 1
  BY DEF Inv, Shape, ServerStands, ServerRecord
<1>3. orphans \in 0..MaxFaults  BY Constants DEF Inv, Shape, Counts
<1>4. ASSUME NEW w \in Workers, polls[w] # NoPoll
      PROVE  polls[w].st \in {"held", "reply"} /\ polls[w].fin \in BOOLEAN
  <2>1. polls[w] \in PollRecord  BY <1>4 DEF Inv, Shape
  <2> QED  BY <2>1 DEF PollRecord
<1>5. /\ cl.registered \/ cl.stopped
      /\ reader # "reading" => cl.closeReq
      /\ conn.end \in {"open", "fin", "torn"}
      /\ reader \in {"reading", "eof", "timeout"}
  BY DEF Inv, Shape, ClientStands, ConnRecord
<1> QED  BY <1>1, <1>2, <1>3, <1>4, <1>5 DEF TypeOK

(* The two ends of a session stay well formed: whatever replies are lost,  *)
(* overtake one another or cannot be decoded, and when the exit server     *)
(* restarts, txBuf stays within the high-water mark and one read, a        *)
(* session that has left the client's table is stopped, and a reader that  *)
(* has gone has asked for the close.                                       *)
THEOREM TypeCorrect == Spec => []TypeOK
BY InvHolds, InvTypes, PTL

---------------------------------------------------------------------------
(* The refinement: every step is a step of the byte stream, or none.       *)

LEMMA StreamReadData == ASSUME Inv, ReadData PROVE [Stream!Next]_(Stream!vars)
<1> DEFINE l == Len(supplied)
<1>1. /\ ~ended /\ supplied' = Append(supplied, l + 1) /\ ended' = ended
      /\ got' = got /\ reader' = reader /\ conn' = conn
  BY DEF ReadData, client
<1>2. l \in Nat /\ supplied = Span(0, l)  BY Length DEF Inv, Numbered
<1>3. conn.end # "fin"
  <2>1. PICK o \in Offsets, n \in Nat, c \in Offsets : Places(o, n, c)  BY DEF Inv, Placed
  <2> QED  BY <1>1, <2>1 DEF Places, Joined
<1>4. Inv'  BY StepReadData
<1>5. supplied' = Span(0, Len(supplied')) /\ Len(supplied') = l + 1
  <2>1. supplied' = Span(0, Len(supplied'))  BY <1>4 DEF Inv, Placed, Numbered
  <2>2. supplied \in Seq(Nat)
    <3>1. 0 \in Nat /\ 0 <= l  BY <1>2
    <3> QED  BY <1>2, <3>1, SpanFacts
  <2> HIDE DEF l
  <2>3. l + 1 \in Nat  BY <1>2
  <2>4. Len(Append(supplied, l + 1)) = Len(supplied) + 1  BY <2>2, <2>3, AppendProperties
  <2> QED  BY <1>1, <2>1, <2>4 DEF l
<1> HIDE DEF l
<1>6. SubSeq(supplied', 1, l) = supplied /\ Len(supplied') > l
  <2>1. l + 1 \in Nat /\ l <= l + 1 /\ l + 1 > l  BY <1>2
  <2>2. SubSeq(Span(0, l + 1), 1, l) = Span(0, l)  BY <1>2, <2>1, SpanPrefix
  <2> QED  BY <1>2, <1>5, <2>1, <2>2
<1>7. Stream!Write  BY <1>1, <1>3, <1>6 DEF Stream!Write, l
<1> QED  BY <1>7 DEF Stream!Next

LEMMA StreamRead == ASSUME Inv, Read PROVE [Stream!Next]_(Stream!vars)
<1>1. /\ reader = "reading" /\ reader' = reader /\ supplied' = supplied /\ ended' = ended
  BY DEF Read, server
<1>2. PICK y \in Seq(Nat) : got' = got \o y  BY StepRead
<1>3. Inv'  BY StepRead
<1>4. PICK x \in Nat : got = Span(0, x) /\ Len(got) = x  BY GotFacts
<1>5. PICK x2 \in Nat : got' = Span(0, x2) /\ x2 <= Len(supplied') /\ Len(got') = x2
  BY <1>3, GotNext DEF Begins
<1>6. PICK l \in Nat : l = Len(supplied) /\ supplied = Span(0, l)
  BY Length DEF Inv, Numbered
<1>7. x <= x2
  <2>1. 0 \in Nat /\ 0 <= x  OBVIOUS
  <2>2. got \in Seq(Nat)  BY <1>4, <2>1, SpanFacts
  <2>3. Len(got') = Len(got) + Len(y) /\ Len(y) \in Nat
    BY <1>2, <2>2, ConcatProperties, LenProperties
  <2> QED  BY <1>4, <1>5, <2>3
<1>8. x2 <= l  BY <1>1, <1>5, <1>6
<1>9. got' = SubSeq(supplied, 1, x2)  BY <1>5, <1>6, <1>8, SpanPrefix
<1>10. Stream!Deliver
  BY <1>1, <1>4, <1>5, <1>6, <1>7, <1>8, <1>9 DEF Stream!Deliver
<1> QED  BY <1>10 DEF Stream!Next

LEMMA StreamReadEof == ASSUME Inv, ReadEof PROVE [Stream!Next]_(Stream!vars)
<1>1. /\ reader = "reading" /\ reader' = "eof" /\ supplied' = supplied /\ ended' = ended
      /\ got' = got /\ conn' = conn /\ conn.readBuf = <<>> /\ conn.chan = <<>>
  BY DEF ReadEof, server
<1>2. CASE conn.end # "fin"  BY <1>1, <1>2 DEF Stream!vars
<1>3. CASE conn.end = "fin"
  <2>1. PICK x \in Nat : /\ got = Span(0, x) /\ x <= Len(supplied) /\ Len(got) = x
                         /\ ended /\ got = supplied
    BY <1>1, <1>3, GotFacts
  <2>2. PICK l \in Nat : l = Len(supplied) /\ supplied = Span(0, l)
    BY Length DEF Inv, Numbered
  <2>3. got = SubSeq(supplied, 1, x)  BY <2>1, <2>2, SpanPrefix
  <2>4. Len(got) >= Len(got)  BY <2>1
  <2>5. Stream!Deliver
    BY <1>1, <1>3, <2>1, <2>3, <2>4 DEF Stream!Deliver
  <2> QED  BY <2>5 DEF Stream!Next
<1> QED  BY <1>2, <1>3

LEMMA StreamStep == ASSUME Inv, [Next]_vars PROVE [Stream!Next]_(Stream!vars)
<1>1. ASSUME UNCHANGED <<supplied, ended, got>>, reader # "eof", reader' # "eof"
      PROVE  [Stream!Next]_(Stream!vars)
  BY <1>1 DEF Stream!vars
<1>2. ASSUME UNCHANGED <<supplied, ended, got, reader>>, conn'.end = "fin" <=> conn.end = "fin"
      PROVE  [Stream!Next]_(Stream!vars)
  BY <1>2 DEF Stream!vars
<1>3. Torn(conn).end = "fin" <=> conn.end = "fin"
  BY CloseRxStands DEF Inv, Shape
<1>4. ASSUME NEW w \in Workers, Poll(w) \/ Answer(w) \/ EmptyAnswer(w) \/ PollDone(w)
      PROVE  [Stream!Next]_(Stream!vars)
  BY <1>2, <1>4 DEF Poll, Answer, EmptyAnswer, PollDone, server, client
<1>5. ASSUME NEW w \in Workers, RouteRx(w) PROVE [Stream!Next]_(Stream!vars)
  <2>1. UNCHANGED <<supplied, ended, got, reader>> /\ (conn' = conn \/ conn' = Torn(conn))
    BY <1>5 DEF RouteRx, server
  <2> QED  BY <1>2, <1>3, <2>1
<1>6. ASSUME NEW w \in Workers, Fault(w) PROVE [Stream!Next]_(Stream!vars)
  BY <1>2, <1>6 DEF Fault, GiveUp, Undecodable, CommitUnsent, server
<1>7. CASE ReadEnd
  <2>1. ended' = TRUE /\ UNCHANGED <<supplied, got, conn, reader>>
    BY <1>7 DEF ReadEnd, client
  <2> QED  BY <2>1 DEF Stream!Next, Stream!Close
<1>8. CASE IdleGc \/ OrphanAnswer \/ OrphanEnds
  BY <1>2, <1>8 DEF IdleGc, OrphanAnswer, OrphanEnds, client
<1>9. CASE FinAges \/ Abort  BY <1>2, <1>9 DEF FinAges, Abort, server
<1>10. CASE IdleTimeout  BY <1>1, <1>10 DEF IdleTimeout, server
<1>11. CASE RxLoop
  <2>1. UNCHANGED <<supplied, ended, got, reader>> /\ cl.inbox # <<>>
    BY <1>11 DEF RxLoop, server
  <2>2. reader # "eof"  BY <2>1 DEF Inv, Shape, ClientStands
  <2> QED  BY <1>1, <2>1, <2>2
<1>12. CASE RxLoopEnds  BY <1>2, <1>3, <1>12 DEF RxLoopEnds, server
<1>13. CASE Restart  BY <1>2, <1>13 DEF Restart
<1>14. CASE UNCHANGED vars  BY <1>2, <1>14 DEF vars
<1> QED
  BY <1>4, <1>5, <1>6, <1>7, <1>8, <1>9, <1>10, <1>11, <1>12, <1>13, <1>14,
     StreamReadData, StreamRead, StreamReadEof DEF Next, Round

(* The downstream direction is a byte stream: what VirtualConn.Read        *)
(* returns is what the upstream sent, each byte once, in order and without *)
(* a gap, and an end of file that the server's FIN caused comes after the  *)
(* last byte.  No reply that is lost, late or out of order, no partial     *)
(* drain, no handler that answers nobody, no collection and no restart of  *)
(* the exit server breaks it, although the server never sends a frame      *)
(* again.                                                                  *)
THEOREM ReadsAreAByteStream == Spec => ImplementsByteStream
<1>1. Init => Stream!Init
  <2>1. ASSUME Init PROVE (reader = "eof" /\ conn.end = "fin") = FALSE  BY <2>1 DEF Init
  <2> QED  BY <2>1 DEF Init, Stream!Init
<1>2. Inv /\ [Next]_vars => [Stream!Next]_(Stream!vars)  BY StreamStep
<1> QED  BY <1>1, <1>2, InvHolds, PTL DEF Spec, ImplementsByteStream, Stream!Spec
=============================================================================
