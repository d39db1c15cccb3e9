---------------------------- MODULE CarrierProofs ----------------------------
(* Proofs about the carrier client: module Carrier, for any sessions and   *)
(* workers, any caps of a batch and any bounds, and the wake-ups of module *)
(* PollWorkers.                                                            *)
EXTENDS Carrier, CoalesceTimer, SequenceTheorems, TLAPS

TxState == [txBuf : Seq({0}), txSeq : Nat, synNeeded : BOOLEAN,
            closeReq : BOOLEAN, finSent : BOOLEAN]

(* A worker between polls holds nothing, and a rollback only visits what   *)
(* the worker holds.                                                       *)
Holdings ==
  /\ \A w \in Workers : pc[w] \in {"idle", "gc"} => got[w] = {}
  /\ \A w \in Workers : pc[w] \in {"rollback", "onTx"} => left[w] \subseteq got[w]

(* Before the outcome of a POST is known a snapshot of the batch, and      *)
(* afterwards the session itself, stands at the committed sequence number; *)
(* a rollback moves its sessions from the one state to the other.          *)
Unresolved(w, s) ==
  \/ pc[w] \in {"drain", "post"}
  \/ pc[w] \in {"rollback", "onTx"} /\ s \in left[w]

FlightSeq ==
  \A w \in Workers : \A s \in got[w] \cap sessions :
    IF Unresolved(w, s) THEN snap[w][s].txSeq = acked[s]
                        ELSE tx[s].txSeq = acked[s]

(* A session that has not been made has sent nothing. *)
FreshSeq == \A s \in Sessions \ created : tx[s].txSeq = acked[s]

IInv ==
  /\ TypeOK /\ Holdings /\ ExclusiveFlight
  /\ NoStrandedTx
  /\ FreshSeq /\ FlightSeq /\ SeqContinuity
---------------------------------------------------------------------------
(* What the operators of module Session do to a session.                   *)

(* A sequence written as a function of its indices. *)
LEMMA FunctionIsSeq ==
  ASSUME NEW n \in Nat, NEW S, NEW f \in [1..n -> S]
  PROVE  f \in Seq(S) /\ Len(f) = n
<1>1. f \in Seq(S)  BY SeqDef
<1>2. Len(f) \in Nat /\ DOMAIN f = 1..Len(f)  BY <1>1, LenProperties
<1>3. 1..Len(f) = 1..n  BY <1>2
<1> QED  BY <1>1, <1>2, <1>3

LEMMA TxStateFields ==
  ASSUME NEW t \in TxState
  PROVE  /\ t = [txBuf |-> t.txBuf, txSeq |-> t.txSeq, synNeeded |-> t.synNeeded,
                 closeReq |-> t.closeReq, finSent |-> t.finSent]
         /\ t.txBuf \in Seq({0}) /\ t.txSeq \in Nat
         /\ t.synNeeded \in BOOLEAN /\ t.closeReq \in BOOLEAN /\ t.finSent \in BOOLEAN
BY DEF TxState

(* An update of the fields that a drain or its rollback touches. *)
Updated(t, b, q, y, f) ==
  [t EXCEPT !.txBuf = b, !.txSeq = q, !.synNeeded = y, !.finSent = f]

LEMMA UpdatedFacts ==
  ASSUME NEW t \in TxState, NEW b \in Seq({0}), NEW q \in Nat,
         NEW y \in BOOLEAN, NEW f \in BOOLEAN
  PROVE  /\ Updated(t, b, q, y, f) \in TxState
         /\ Updated(t, b, q, y, f).txBuf = b
         /\ Updated(t, b, q, y, f).txSeq = q
         /\ Updated(t, b, q, y, f).synNeeded = y
         /\ Updated(t, b, q, y, f).closeReq = t.closeReq
         /\ Updated(t, b, q, y, f).finSent = f
BY DEF TxState, Updated

LEMMA ByOne == \A a \in Nat : (a + 1 - 1) \div 1 = a
OBVIOUS

(* drainTx with a slot to spend: it never exceeds its cap, advances the    *)
(* sequence number by what it emits, and emits nothing only for a session  *)
(* with nothing to send.                                                   *)
LEMMA DrainTxFacts ==
  ASSUME NEW t \in TxState, NEW k \in Nat \ {0}
  PROVE  LET d == DrainTx(t, 1, k)
         IN  /\ d.snap = t
             /\ d.sess \in TxState
             /\ Len(d.frames) \in 0..k
             /\ d.frames = <<>> => d.sess.txSeq = t.txSeq /\ ~HasPendingTx(d.sess)
<1> DEFINE b     == t.txBuf
           n     == Least(k, DataFrames(t, 1))
           taken == Least(n * 1, Len(b))
           data  == [i \in 1..n |->
                       Frame(t.txSeq + i - 1, t.synNeeded /\ i = 1, FALSE,
                             SubSeq(b, (i - 1) * 1 + 1, Least(i * 1, Len(b))))]
           fin   == FinPending(t) /\ n < k
           tail  == IF fin THEN <<Frame(t.txSeq + n, FALSE, TRUE, <<>>)>> ELSE <<>>
           sess  == [t EXCEPT !.txBuf = SubSeq(@, taken + 1, Len(@)),
                              !.txSeq = @ + n + Len(tail),
                              !.synNeeded = @ /\ n = 0,
                              !.finSent = @ \/ fin]
<1>1. DrainTx(t, 1, k) = [frames |-> data \o tail, snap |-> t, sess |-> sess]
  BY DEF DrainTx
<1>2. Len(b) \in Nat /\ b \in Seq({0}) /\ DOMAIN b = 1..Len(b)
  BY TxStateFields, LenProperties
<1>3. CeilDiv(Len(b), 1) = Len(b)  BY <1>2, ByOne DEF CeilDiv
<1>4. /\ DataFrames(t, 1) \in Nat
      /\ DataFrames(t, 1) >= Len(b)
      /\ t.synNeeded => DataFrames(t, 1) >= 1
  BY <1>2, <1>3 DEF DataFrames, Greatest
<1>5. n \in 0..k /\ (n = 0 => Len(b) = 0 /\ ~t.synNeeded)
  BY <1>2, <1>4 DEF Least
<1>6. taken \in 0..Len(b)  BY <1>2, <1>5 DEF Least
<1> HIDE DEF n, taken
<1> DEFINE V == {data[i] : i \in 1..n} \cup {Frame(t.txSeq + n, FALSE, TRUE, <<>>)}
<1>7. data \in Seq(V) /\ Len(data) = n
  <2>1. data \in [1..n -> V]  OBVIOUS
  <2>2. n \in Nat  BY <1>5
  <2> HIDE DEF data
  <2> QED  BY <2>1, <2>2, FunctionIsSeq
<1>8. tail \in Seq(V) /\ Len(tail) = IF fin THEN 1 ELSE 0
  <2> DEFINE last == Frame(t.txSeq + n, FALSE, TRUE, <<>>)
  <2>1. last \in V  OBVIOUS
  <2> HIDE DEF V, fin, last
  <2>2. <<last>> \in Seq(V) /\ Len(<<last>>) = 1  BY <2>1
  <2>3. CASE fin  BY <2>2, <2>3 DEF last
  <2>4. CASE ~fin  BY <2>4
  <2> QED  BY <2>3, <2>4
<1> HIDE DEF V, data, tail
<1>9. Len(data \o tail) = n + Len(tail) /\ data \o tail \in Seq(V)
  BY <1>7, <1>8, ConcatProperties
<1>10. Len(data \o tail) \in 0..k
  BY <1>5, <1>8, <1>9
<1>11. SubSeq(b, taken + 1, Len(b)) \in Seq({0})
  <2>1. \A i \in (taken + 1)..Len(b) : b[i] \in {0}
    BY <1>2, <1>6, ElementOfSeq
  <2> QED  BY <2>1, <1>2, <1>6, SubSeqProperties
<1>12. t.txSeq + n + Len(tail) \in Nat
  BY <1>5, <1>8, TxStateFields
<1> DEFINE r == SubSeq(b, taken + 1, Len(b))
           q == t.txSeq + n + Len(tail)
           y == t.synNeeded /\ n = 0
           f == t.finSent \/ fin
<1>13. r \in Seq({0}) /\ q \in Nat /\ y \in BOOLEAN /\ f \in BOOLEAN
  BY <1>11, <1>12
<1>14. sess = Updated(t, r, q, y, f)  BY DEF Updated
<1> HIDE DEF sess, fin, r, q, y, f
<1>15. /\ sess \in TxState
       /\ sess.txBuf = r /\ sess.txSeq = q /\ sess.synNeeded = y
       /\ sess.closeReq = t.closeReq /\ sess.finSent = f
  BY <1>13, <1>14, UpdatedFacts
<1>16. ASSUME data \o tail = <<>>
       PROVE  sess.txSeq = t.txSeq /\ ~HasPendingTx(sess)
  <2>1. n = 0 /\ Len(tail) = 0
    BY <1>16, <1>5, <1>8, <1>9, EmptySeq
  <2>2. sess.txSeq = t.txSeq  BY <2>1, <1>15, TxStateFields DEF q
  <2>3. ~fin  BY <2>1, <1>8
  <2>4. ~FinPending(t)  BY <2>1, <2>3 DEF fin
  <2>5. f <=> t.finSent  BY <2>3 DEF f
  <2>6. ~FinPending(sess)  BY <2>4, <2>5, <1>15, Zenon DEF FinPending
  <2>7. sess.txBuf = <<>>
    <3>1. Len(b) = 0 /\ taken = 0  BY <2>1, <1>5, <1>6
    <3> QED  BY <3>1, <1>15, SubSeqEmpty DEF r
  <2>8. ~y  BY <2>1, <1>5 DEF y
  <2> QED  BY <2>2, <2>6, <2>7, <2>8, <1>15, Zenon DEF HasPendingTx
<1> HIDE DEF b
<1> QED  BY <1>1, <1>10, <1>15, <1>16

(* What applications and resets do keeps the shape of a session and its    *)
(* sequence number; a rollback takes the number from the snapshot.         *)
LEMMA TxOpFacts ==
  ASSUME NEW t \in TxState, NEW u \in TxState
  PROVE  /\ EnqueueInitialData(t, <<0>>) \in TxState
         /\ EnqueueInitialData(t, <<0>>).txSeq = t.txSeq
         /\ RequestClose(t) \in TxState
         /\ RequestClose(t).txSeq = t.txSeq
         /\ RollbackDrain(t, u) \in TxState
         /\ RollbackDrain(t, u).txSeq = u.txSeq
<1>1. t.txBuf \o <<0>> \in Seq({0}) /\ u.txBuf \o t.txBuf \in Seq({0})
  BY TxStateFields
<1>2. /\ EnqueueInitialData(t, <<0>>) \in TxState
      /\ EnqueueInitialData(t, <<0>>).txSeq = t.txSeq
  BY <1>1 DEF EnqueueInitialData, EnqueueTx, TxState
<1>3. RequestClose(t) \in TxState /\ RequestClose(t).txSeq = t.txSeq
  BY DEF RequestClose, TxState
<1> DEFINE r == u.txBuf \o t.txBuf
           q == u.txSeq
           y == t.synNeeded \/ u.synNeeded
           f == t.finSent /\ u.finSent
<1>4. r \in Seq({0}) /\ q \in Nat /\ y \in BOOLEAN /\ f \in BOOLEAN
  BY <1>1, TxStateFields
<1>5. RollbackDrain(t, u) = Updated(t, r, q, y, f)  BY DEF RollbackDrain, Updated
<1> HIDE DEF r, q, y, f
<1>6. RollbackDrain(t, u) \in TxState /\ RollbackDrain(t, u).txSeq = q
  BY <1>4, <1>5, UpdatedFacts
<1> USE DEF q
<1> QED  BY <1>2, <1>3, <1>6
---------------------------------------------------------------------------
(* The shape of the state.                                                 *)

LEMMA TypeFacts ==
  ASSUME TypeOK
  PROVE  /\ tx \in [Sessions -> TxState]
         /\ snap \in [Workers -> [Sessions -> TxState]]
         /\ \A w \in Workers : got[w] \subseteq created /\ left[w] \subseteq created
                             /\ cur[w] \subseteq created
         /\ created \subseteq Sessions
BY DEF TypeOK, TxState

LEMMA NewTxFacts == NewTx(TRUE) \in TxState /\ NewTx(TRUE).txSeq = 0
<1>1. <<>> \in Seq({0})  OBVIOUS
<1> QED  BY <1>1 DEF NewTx, TxState

LEMMA NoSnapsFacts == NoSnaps \in [Sessions -> TxState]
BY NewTxFacts DEF NoSnaps

LEMMA InitType == Init => TypeOK
<1> SUFFICES ASSUME Init PROVE TypeOK  OBVIOUS
<1>1. tx \in [Sessions -> TxState] /\ snap \in [Workers -> [Sessions -> TxState]]
  BY NewTxFacts, NoSnapsFacts DEF Init
<1> QED  BY <1>1 DEF Init, TypeOK, TxState

(* The part of TypeOK that does not look into sessions. *)
TableTypes ==
  /\ mu \in Workers \cup {Free}
  /\ created \subseteq Sessions
  /\ sessions \subseteq created
  /\ txReady \subseteq created
  /\ inFlight \subseteq created
  /\ rxClosed \subseteq created
  /\ cb \subseteq Callers \X created
  /\ pc \in [Workers -> {"idle", "drain", "post", "route", "reset", "remove",
                         "rollback", "onTx", "release", "gc"}]
  /\ got \in [Workers -> SUBSET created]
  /\ left \in [Workers -> SUBSET created]
  /\ room \in Nat
  /\ cur \in [Workers -> SUBSET created]

SessionTypes ==
  /\ tx \in [Sessions -> TxState]
  /\ snap \in [Workers -> [Sessions -> TxState]]
  /\ acked \in [Sessions -> Nat]

LEMMA TypeSplit == TypeOK <=> TableTypes /\ SessionTypes
BY DEF TypeOK, TableTypes, SessionTypes, TxState

LEMMA TypeJoin == TableTypes' /\ SessionTypes' => TypeOK'
BY DEF TypeOK, TableTypes, SessionTypes, TxState

(* drainTx as DrainOne calls it. *)
LEMMA DrainOneFacts ==
  ASSUME TypeOK, NEW s \in Sessions, room # 0
  PROVE  LET d == DrainTx(tx[s], 1, Least(FramesPerSession, room))
         IN  /\ d.snap = tx[s]
             /\ d.sess \in TxState
             /\ room - Len(d.frames) \in Nat
             /\ d.frames = <<>> => d.sess.txSeq = tx[s].txSeq /\ ~HasPendingTx(d.sess)
<1>1. tx[s] \in TxState  BY TypeFacts
<1>2. Least(FramesPerSession, room) \in Nat \ {0} /\ Least(FramesPerSession, room) <= room
  BY CarrierAssumption DEF TypeOK, Least
<1> DEFINE k == Least(FramesPerSession, room)
<1>3. room \in Nat  BY DEF TypeOK
<1> HIDE DEF k
<1>4. k \in Nat \ {0} /\ k <= room  BY <1>2 DEF k
<1>5. Len(DrainTx(tx[s], 1, k).frames) \in 0..k  BY <1>1, <1>4, DrainTxFacts
<1>6. room - Len(DrainTx(tx[s], 1, k).frames) \in Nat  BY <1>3, <1>4, <1>5
<1>7. LET d == DrainTx(tx[s], 1, k)
      IN  /\ d.snap = tx[s]
          /\ d.sess \in TxState
          /\ d.frames = <<>> => d.sess.txSeq = tx[s].txSeq /\ ~HasPendingTx(d.sess)
  BY <1>1, <1>4, DrainTxFacts
<1> QED  BY <1>6, <1>7 DEF k
LEMMA AppTypes ==
  ASSUME TypeOK, NEW s \in Sessions, App(s) \/ Callback(s)
  PROVE  TypeOK'
<1>0. TableTypes /\ SessionTypes  BY TypeSplit
<1>1. tx[s] \in TxState  BY TypeFacts
<1>2. CASE NewSession(s)
  <2>1. TableTypes'  BY <1>0, <1>2 DEF NewSession, batch, TableTypes
  <2>2. SessionTypes'  BY <1>0, <1>2 DEF NewSession, batch, SessionTypes
  <2> QED  BY <2>1, <2>2, TypeJoin
<1>3. CASE Write(s)
  <2>1. TableTypes'
    BY <1>0, <1>3 DEF Write, table, batch, TableTypes, Callers
  <2>2. EnqueueInitialData(tx[s], <<0>>) \in TxState  BY <1>1, TxOpFacts
  <2>3. SessionTypes'
    BY <1>0, <1>3, <2>2 DEF Write, batch, SessionTypes
  <2> QED  BY <2>1, <2>3, TypeJoin
<1>4. CASE Close(s)
  <2>1. TableTypes'
    BY <1>0, <1>4 DEF Close, table, batch, TableTypes, Callers
  <2>2. RequestClose(tx[s]) \in TxState  BY <1>1, TxOpFacts
  <2>3. SessionTypes'
    BY <1>0, <1>4, <2>2 DEF Close, batch, SessionTypes
  <2> QED  BY <2>1, <2>3, TypeJoin
<1>5. CASE Callback(s)
  <2> PICK c \in Callers : OnTx(c, s)  BY <1>5 DEF Callback
  <2>1. s \in created  BY <1>0 DEF OnTx, TableTypes
  <2>2. TableTypes'  BY <1>0, <2>1 DEF OnTx, batch, TableTypes
  <2>3. SessionTypes'  BY <1>0 DEF OnTx, batch, SessionTypes
  <2> QED  BY <2>2, <2>3, TypeJoin
<1> QED  BY <1>2, <1>3, <1>4, <1>5 DEF App

LEMMA DrainOneTypes ==
  ASSUME TypeOK, NEW w \in Workers, NEW s \in Sessions, DrainOne(w, s)
  PROVE  TypeOK'
<1>0. TableTypes /\ SessionTypes  BY TypeSplit
<1> DEFINE d == DrainTx(tx[s], 1, Least(FramesPerSession, room))
<1>1. s \in created  BY <1>0 DEF DrainOne, TableTypes
<1>2. CASE room = 0 \/ s \in inFlight
  <2>1. TableTypes'  BY <1>0, <1>2 DEF DrainOne, TableTypes
  <2>2. SessionTypes'  BY <1>0, <1>2 DEF DrainOne, SessionTypes
  <2> QED  BY <2>1, <2>2, TypeJoin
<1>3. CASE ~(room = 0 \/ s \in inFlight)
  <2>1. d.sess \in TxState /\ d.snap \in TxState /\ room - Len(d.frames) \in Nat
    BY <1>3, DrainOneFacts, TypeFacts
  <2> HIDE DEF d
  <2>2. /\ txReady' = txReady \ {s}
        /\ room' = room - Len(d.frames)
        /\ inFlight' = IF d.frames = <<>> THEN inFlight ELSE inFlight \cup {s}
        /\ got' = IF d.frames = <<>> THEN got ELSE [got EXCEPT ![w] = @ \cup {s}]
        /\ left' = [left EXCEPT ![w] = @ \ {s}]
        /\ UNCHANGED <<mu, created, sessions, rxClosed, cb, pc, cur>>
    BY <1>3 DEF DrainOne, d
  <2>3. TableTypes'  BY <1>0, <1>1, <2>1, <2>2 DEF TableTypes
  <2>4. /\ tx' = [tx EXCEPT ![s] = d.sess]
        /\ snap' = [snap EXCEPT ![w][s] = d.snap]
        /\ acked' = acked
    BY <1>3 DEF DrainOne, d
  <2>5. SessionTypes'  BY <1>0, <2>1, <2>4 DEF SessionTypes
  <2> QED  BY <2>3, <2>5, TypeJoin
<1> QED  BY <1>2, <1>3

LEMMA WorkerTypes ==
  ASSUME TypeOK, NEW w \in Workers, Worker(w) \/ Peer(w)
  PROVE  TypeOK'
<1>0. TableTypes /\ SessionTypes  BY TypeSplit
<1> USE DEF Goto
<1>1. CASE DrainStart(w)
  <2>1. room' \in Nat  BY <1>1, CarrierAssumption DEF DrainStart
  <2>2. TableTypes'  BY <1>0, <1>1, <2>1 DEF DrainStart, TableTypes
  <2>3. SessionTypes'  BY <1>0, <1>1 DEF DrainStart, SessionTypes
  <2> QED  BY <2>2, <2>3, TypeJoin
<1>2. CASE \E s \in Sessions : DrainOne(w, s)
  BY <1>2, DrainOneTypes
<1>3. CASE DrainEnd(w)
  <2>1. TableTypes'  BY <1>0, <1>3 DEF DrainEnd, table, TableTypes
  <2>2. SessionTypes'  BY <1>0, <1>3 DEF DrainEnd, SessionTypes
  <2> QED  BY <2>1, <2>2, TypeJoin
<1>4. CASE PollOk(w)
  <2>1. TableTypes'  BY <1>0, <1>4 DEF PollOk, table, batch, TableTypes
  <2>2. \A s \in Sessions : tx[s].txSeq \in Nat  BY TypeFacts, TxStateFields
  <2>3. SessionTypes'  BY <1>0, <1>4, <2>2 DEF PollOk, batch, SessionTypes
  <2> QED  BY <2>1, <2>3, TypeJoin
<1>5. CASE RouteEnd(w)
  <2>1. TableTypes'  BY <1>0, <1>5 DEF RouteEnd, table, batch, TableTypes
  <2>2. SessionTypes'  BY <1>0, <1>5 DEF RouteEnd, batch, SessionTypes
  <2> QED  BY <2>1, <2>2, TypeJoin
<1>6. CASE ResetOnTx(w)
  <2>1. TableTypes'  BY <1>0, <1>6 DEF ResetOnTx, batch, TableTypes
  <2>2. SessionTypes'  BY <1>0, <1>6 DEF ResetOnTx, batch, SessionTypes
  <2> QED  BY <2>1, <2>2, TypeJoin
<1>7. CASE ResetRemove(w)
  <2>1. TableTypes'  BY <1>0, <1>7 DEF ResetRemove, TableTypes
  <2>2. SessionTypes'  BY <1>0, <1>7 DEF ResetRemove, SessionTypes
  <2> QED  BY <2>1, <2>2, TypeJoin
<1>8. CASE PollFail(w)
  <2>1. TableTypes'  BY <1>0, <1>8 DEF PollFail, table, TableTypes
  <2>2. SessionTypes'  BY <1>0, <1>8 DEF PollFail, SessionTypes
  <2> QED  BY <2>1, <2>2, TypeJoin
<1>9. ASSUME NEW s \in Sessions, RollbackOne(w, s) PROVE TypeOK'
  <2>1. TableTypes'  BY <1>0, <1>9 DEF RollbackOne, table, TableTypes
  <2>2. RollbackDrain(tx[s], snap[w][s]) \in TxState
    <3>1. tx[s] \in TxState /\ snap[w][s] \in TxState  BY TypeFacts
    <3> QED  BY <3>1, TxOpFacts
  <2>3. SessionTypes'  BY <1>0, <1>9, <2>2 DEF RollbackOne, SessionTypes
  <2> QED  BY <2>1, <2>3, TypeJoin
<1>10. CASE RollbackOnTx(w)
  <2>1. TableTypes'  BY <1>0, <1>10 DEF RollbackOnTx, TableTypes
  <2>2. SessionTypes'  BY <1>0, <1>10 DEF RollbackOnTx, SessionTypes
  <2> QED  BY <2>1, <2>2, TypeJoin
<1>11. CASE RollbackEnd(w)
  <2>1. TableTypes'  BY <1>0, <1>11 DEF RollbackEnd, table, batch, TableTypes
  <2>2. SessionTypes'  BY <1>0, <1>11 DEF RollbackEnd, batch, SessionTypes
  <2> QED  BY <2>1, <2>2, TypeJoin
<1>12. CASE Release(w)
  <2>1. TableTypes'  BY <1>0, <1>12 DEF Release, TableTypes
  <2>2. SessionTypes'  BY <1>0, <1>12, NoSnapsFacts DEF Release, SessionTypes
  <2> QED  BY <2>1, <2>2, TypeJoin
<1>13. CASE Gc(w)
  <2>1. TableTypes'  BY <1>0, <1>13 DEF Gc, batch, TableTypes
  <2>2. SessionTypes'  BY <1>0, <1>13 DEF Gc, batch, SessionTypes
  <2> QED  BY <2>1, <2>2, TypeJoin
<1>14. ASSUME NEW s \in Sessions, RouteFin(w, s) PROVE TypeOK'
  <2>1. TableTypes'  BY <1>0, <1>14 DEF RouteFin, table, batch, TableTypes
  <2>2. SessionTypes'  BY <1>0, <1>14 DEF RouteFin, batch, SessionTypes
  <2> QED  BY <2>1, <2>2, TypeJoin
<1>15. ASSUME NEW s \in Sessions, RouteRst(w, s) PROVE TypeOK'
  <2>1. TableTypes'  BY <1>0, <1>15 DEF RouteRst, table, TableTypes
  <2>2. RequestClose(tx[s]) \in TxState  BY TypeFacts, TxOpFacts
  <2>3. SessionTypes'  BY <1>0, <1>15, <2>2 DEF RouteRst, SessionTypes
  <2> QED  BY <2>1, <2>3, TypeJoin
<1> QED
  BY <1>1, <1>2, <1>3, <1>4, <1>5, <1>6, <1>7, <1>8, <1>9, <1>10, <1>11, <1>12,
     <1>13, <1>14, <1>15 DEF Worker, Peer

LEMMA TypeStep == TypeOK /\ [Next]_vars => TypeOK'
<1> SUFFICES ASSUME TypeOK, [Next]_vars PROVE TypeOK'  OBVIOUS
<1>1. CASE UNCHANGED vars
  BY <1>1 DEF vars, table, batch, TypeOK
<1> QED  BY <1>1, AppTypes, WorkerTypes DEF Next
---------------------------------------------------------------------------
(* Exclusive flight.                                                       *)

(* What a drain does to the books. *)
LEMMA DrainOneBooks ==
  ASSUME TypeOK, NEW w \in Workers, NEW s \in Sessions, DrainOne(w, s)
  PROVE  \/ UNCHANGED <<txReady, tx, inFlight, got, snap>>
         \/ /\ s \notin inFlight
            /\ txReady' = txReady \ {s}
            /\ inFlight' = inFlight
            /\ got' = got
            /\ tx'[s] \in TxState /\ tx'[s].txSeq = tx[s].txSeq /\ ~HasPendingTx(tx'[s])
            /\ tx' = [tx EXCEPT ![s] = tx'[s]]
            /\ snap' = [snap EXCEPT ![w][s] = tx[s]]
         \/ /\ s \notin inFlight
            /\ txReady' = txReady \ {s}
            /\ inFlight' = inFlight \cup {s}
            /\ got' = [got EXCEPT ![w] = @ \cup {s}]
            /\ tx' = [tx EXCEPT ![s] = tx'[s]]
            /\ snap' = [snap EXCEPT ![w][s] = tx[s]]
<1> DEFINE d == DrainTx(tx[s], 1, Least(FramesPerSession, room))
<1>1. CASE room = 0 \/ s \in inFlight  BY <1>1 DEF DrainOne
<1>2. CASE ~(room = 0 \/ s \in inFlight)
  <2>1. /\ d.snap = tx[s] /\ d.sess \in TxState
        /\ d.frames = <<>> => d.sess.txSeq = tx[s].txSeq /\ ~HasPendingTx(d.sess)
    BY <1>2, DrainOneFacts
  <2> HIDE DEF d
  <2>2. /\ s \notin inFlight
        /\ txReady' = txReady \ {s}
        /\ inFlight' = IF d.frames = <<>> THEN inFlight ELSE inFlight \cup {s}
        /\ got' = IF d.frames = <<>> THEN got ELSE [got EXCEPT ![w] = @ \cup {s}]
        /\ tx' = [tx EXCEPT ![s] = d.sess]
        /\ snap' = [snap EXCEPT ![w][s] = d.snap]
    BY <1>2 DEF DrainOne, d
  <2>3. tx'[s] = d.sess  BY <2>2, TypeFacts
  <2>4. CASE d.frames = <<>>  BY <2>1, <2>2, <2>3, <2>4
  <2>5. CASE d.frames # <<>>  BY <2>1, <2>2, <2>3, <2>5
  <2> QED  BY <2>4, <2>5
<1> QED  BY <1>1, <1>2

LEMMA ExclusiveStep ==
  ASSUME TypeOK, ExclusiveFlight, [Next]_vars PROVE ExclusiveFlight'
<1>0. got \in [Workers -> SUBSET created]  BY DEF TypeOK
<1>1. ASSUME UNCHANGED <<inFlight, got>> PROVE ExclusiveFlight'
  BY <1>1 DEF ExclusiveFlight
<1>2. ASSUME NEW w \in Workers, NEW s \in Sessions, DrainOne(w, s) PROVE ExclusiveFlight'
  <2>1. CASE UNCHANGED <<inFlight, got>>  BY <2>1, <1>1
  <2>2. CASE /\ s \notin inFlight
             /\ inFlight' = inFlight \cup {s}
             /\ got' = [got EXCEPT ![w] = @ \cup {s}]
    <3>1. \A v \in Workers : s \notin got[v]  BY <2>2 DEF ExclusiveFlight
    <3>2. /\ got'[w] = got[w] \cup {s}
          /\ \A v \in Workers : v # w => got'[v] = got[v]
      BY <1>0, <2>2
    <3>3. inFlight' = UNION {got'[v] : v \in Workers}
      BY <2>2, <3>2 DEF ExclusiveFlight
    <3>4. ASSUME NEW u \in Workers, NEW v \in Workers, u # v
          PROVE  got'[u] \cap got'[v] = {}
      BY <3>1, <3>2, <3>4 DEF ExclusiveFlight
    <3> QED  BY <3>3, <3>4 DEF ExclusiveFlight
  <2> QED  BY <1>2, <2>1, <2>2, DrainOneBooks
<1>3. ASSUME NEW w \in Workers, Release(w) PROVE ExclusiveFlight'
  <2>1. /\ inFlight' = inFlight \ got[w]
        /\ got'[w] = {}
        /\ \A v \in Workers : v # w => got'[v] = got[v]
    BY <1>0, <1>3 DEF Release
  <2>2. inFlight' = UNION {got'[v] : v \in Workers}
    BY <2>1 DEF ExclusiveFlight
  <2>3. ASSUME NEW u \in Workers, NEW v \in Workers, u # v
        PROVE  got'[u] \cap got'[v] = {}
    BY <2>1, <2>3 DEF ExclusiveFlight
  <2> QED  BY <2>2, <2>3 DEF ExclusiveFlight
<1>4. CASE UNCHANGED vars  BY <1>1, <1>4 DEF vars, table, batch
<1>5. CASE Next
  <2>1. ASSUME NEW s \in Sessions, App(s) \/ Callback(s) PROVE ExclusiveFlight'
    BY <2>1, <1>1 DEF App, Callback, NewSession, Write, Close, OnTx, table, batch
  <2>2. ASSUME NEW w \in Workers, Peer(w) PROVE ExclusiveFlight'
    BY <2>2, <1>1 DEF Peer, RouteFin, RouteRst, table, batch
  <2>3. ASSUME NEW w \in Workers,
               DrainStart(w) \/ DrainEnd(w) \/ PollOk(w) \/ RouteEnd(w) \/ ResetOnTx(w)
        PROVE  ExclusiveFlight'
    BY <2>3, <1>1 DEF DrainStart, DrainEnd, PollOk, RouteEnd, ResetOnTx, table, batch
  <2>4. ASSUME NEW w \in Workers,
               \/ ResetRemove(w) \/ PollFail(w) \/ RollbackOnTx(w) \/ RollbackEnd(w)
               \/ Gc(w) \/ \E s \in Sessions : RollbackOne(w, s)
        PROVE  ExclusiveFlight'
    BY <2>4, <1>1 DEF ResetRemove, PollFail, RollbackOne, RollbackOnTx, RollbackEnd, Gc,
                      table, batch
  <2> QED  BY <1>2, <1>3, <1>5, <2>1, <2>2, <2>3, <2>4 DEF Next, Worker
<1> QED  BY <1>4, <1>5

(* Who holds what while it is not its turn. *)
LEMMA HoldingsStep ==
  ASSUME TypeOK, Holdings, [Next]_vars PROVE Holdings'
<1>0. /\ got \in [Workers -> SUBSET created] /\ left \in [Workers -> SUBSET created]
      /\ DOMAIN pc = Workers
  BY DEF TypeOK
<1> USE DEF Holdings, Goto
<1>1. ASSUME UNCHANGED <<pc, got, left>> PROVE Holdings'
  BY <1>1
<1>2. ASSUME NEW w \in Workers, NEW s \in Sessions, DrainOne(w, s) PROVE Holdings'
  <2>1. /\ pc' = pc /\ pc[w] = "drain"
        /\ \A v \in Workers : v # w => got'[v] = got[v] /\ left'[v] = left[v]
    BY <1>0, <1>2, DrainOneBooks DEF DrainOne
  <2> QED  BY <2>1
<1>3. ASSUME NEW w \in Workers, Release(w) PROVE Holdings'
  BY <1>0, <1>3 DEF Release
<1>4. ASSUME NEW w \in Workers, PollFail(w) PROVE Holdings'
  BY <1>0, <1>4 DEF PollFail
<1>5. ASSUME NEW w \in Workers, NEW s \in Sessions, RollbackOne(w, s) PROVE Holdings'
  BY <1>0, <1>5 DEF RollbackOne
<1>6. ASSUME NEW w \in Workers,
             DrainStart(w) \/ DrainEnd(w) \/ PollOk(w) \/ RouteEnd(w) \/ ResetOnTx(w)
      PROVE  Holdings'
  BY <1>0, <1>6 DEF DrainStart, DrainEnd, PollOk, RouteEnd, ResetOnTx, batch
<1>7. ASSUME NEW w \in Workers,
             ResetRemove(w) \/ RollbackOnTx(w) \/ RollbackEnd(w) \/ Gc(w) \/ Peer(w)
      PROVE  Holdings'
  BY <1>0, <1>7 DEF ResetRemove, RollbackOnTx, RollbackEnd, Gc, Peer, RouteFin,
                    RouteRst, batch
<1>8. ASSUME NEW s \in Sessions, App(s) \/ Callback(s) PROVE Holdings'
  <2>1. UNCHANGED <<pc, got, left>>
    BY <1>8 DEF App, Callback, NewSession, Write, Close, OnTx, batch
  <2> QED  BY <2>1, <1>1
<1>9. CASE UNCHANGED vars  BY <1>9, <1>1 DEF vars, batch
<1> QED
  BY <1>2, <1>3, <1>4, <1>5, <1>6, <1>7, <1>8, <1>9 DEF Next, Worker
---------------------------------------------------------------------------
(* No stranded session.                                                    *)

Noticed(s) == s \in txReady \/ s \in inFlight \/ CallbackDue(s)

LEMMA AppStranded ==
  ASSUME TypeOK, NoStrandedTx, NEW s \in Sessions, App(s) \/ Callback(s)
  PROVE  NoStrandedTx'
<1> SUFFICES ASSUME NEW r \in sessions', HasPendingTx(tx'[r]) PROVE Noticed(r)'
  BY DEF NoStrandedTx, Noticed
<1>0. tx \in [Sessions -> TxState] /\ sessions \subseteq Sessions
  BY TypeFacts DEF TypeOK
<1>1. r \in sessions /\ tx'[r] = tx[r] => Noticed(r)
  BY DEF NoStrandedTx, Noticed
<1> USE DEF Noticed, CallbackDue, Callers
<1>2. CASE NewSession(s)
  BY <1>1, <1>2 DEF NewSession, batch
<1>3. CASE Write(s)
  <2>1. CASE r = s  BY <1>3, <2>1 DEF Write
  <2>2. CASE r # s
    <3>1. r \in sessions /\ tx'[r] = tx[r]  BY <1>0, <1>3, <2>2 DEF Write, table
    <3> QED  BY <1>1, <1>3, <3>1 DEF Write, table, batch
  <2> QED  BY <2>1, <2>2
<1>4. CASE Close(s)
  <2>1. CASE r = s  BY <1>4, <2>1 DEF Close
  <2>2. CASE r # s
    <3>1. r \in sessions /\ tx'[r] = tx[r]  BY <1>0, <1>4, <2>2 DEF Close, table
    <3> QED  BY <1>1, <1>4, <3>1 DEF Close, table, batch
  <2> QED  BY <2>1, <2>2
<1>5. ASSUME NEW c \in Callers, OnTx(c, s) PROVE Noticed(r)'
  <2>1. CASE r = s  BY <1>5, <2>1 DEF OnTx
  <2>2. CASE r # s
    <3>1. Noticed(r)  BY <1>1, <1>5 DEF OnTx
    <3>2. \A a : <<a, r>> \in cb => <<a, r>> \in cb'  BY <1>5, <2>2 DEF OnTx
    <3> QED  BY <1>5, <3>1, <3>2 DEF OnTx, batch
  <2> QED  BY <2>1, <2>2
<1> QED  BY <1>2, <1>3, <1>4, <1>5 DEF App, Callback

LEMMA WorkerStranded ==
  ASSUME TypeOK, Holdings, ExclusiveFlight, NoStrandedTx,
         NEW w \in Workers, Worker(w) \/ Peer(w)
  PROVE  NoStrandedTx'
<1> SUFFICES ASSUME NEW r \in sessions', HasPendingTx(tx'[r]) PROVE Noticed(r)'
  BY DEF NoStrandedTx, Noticed
<1>0. /\ tx \in [Sessions -> TxState] /\ sessions \subseteq Sessions
      /\ DOMAIN pc = Workers /\ cur \in [Workers -> SUBSET created]
      /\ got \in [Workers -> SUBSET created]
  BY TypeFacts DEF TypeOK
<1>1. r \in sessions /\ tx'[r] = tx[r] => Noticed(r)
  BY DEF NoStrandedTx, Noticed
<1> USE DEF Noticed, CallbackDue, Goto
<1>2. CASE DrainStart(w)  BY <1>0, <1>1, <1>2 DEF DrainStart
<1>3. ASSUME NEW s \in Sessions, DrainOne(w, s) PROVE Noticed(r)'
  <2>0. UNCHANGED <<sessions, cb, pc, cur>>  BY <1>3 DEF DrainOne
  <2>1. CASE UNCHANGED <<txReady, tx, inFlight>>  BY <1>1, <2>0, <2>1
  <2>2. CASE ~HasPendingTx(tx'[s]) /\ inFlight' = inFlight /\ txReady' = txReady \ {s}
             /\ tx' = [tx EXCEPT ![s] = tx'[s]]
    <3>1. r # s  BY <2>2
    <3>2. tx'[r] = tx[r]  BY <3>1, <2>2, <2>0, <1>0
    <3> QED  BY <1>1, <2>0, <2>2, <3>1, <3>2
  <2>3. CASE inFlight' = inFlight \cup {s} /\ txReady' = txReady \ {s}
             /\ tx' = [tx EXCEPT ![s] = tx'[s]]
    <3>1. r # s => tx'[r] = tx[r]  BY <2>3, <2>0, <1>0
    <3> QED  BY <1>1, <2>0, <2>3, <3>1
  <2> QED  BY <1>3, <2>1, <2>2, <2>3, DrainOneBooks
<1>4. CASE DrainEnd(w)  BY <1>0, <1>1, <1>4 DEF DrainEnd, table
<1>5. CASE PollOk(w) \/ RouteEnd(w)
  BY <1>0, <1>1, <1>5 DEF PollOk, RouteEnd, table, batch
<1>6. CASE ResetOnTx(w)  BY <1>0, <1>1, <1>6 DEF ResetOnTx, batch
<1>7. CASE ResetRemove(w)
  <2>1. r \notin cur[w] /\ r \in sessions /\ tx'[r] = tx[r]  BY <1>7 DEF ResetRemove
  <2> QED  BY <1>0, <1>1, <1>7, <2>1 DEF ResetRemove
<1>8. CASE PollFail(w)  BY <1>0, <1>1, <1>8 DEF PollFail, table
<1>9. ASSUME NEW s \in Sessions, RollbackOne(w, s) PROVE Noticed(r)'
  <2>1. s \in inFlight  BY <1>9 DEF RollbackOne, Holdings, ExclusiveFlight
  <2>2. r # s => tx'[r] = tx[r]  BY <1>0, <1>9 DEF RollbackOne, table
  <2> QED  BY <1>0, <1>1, <1>9, <2>1, <2>2 DEF RollbackOne, table
<1>10. CASE RollbackOnTx(w)  BY <1>0, <1>1, <1>10 DEF RollbackOnTx
<1>11. CASE RollbackEnd(w)  BY <1>0, <1>1, <1>11 DEF RollbackEnd, table, batch
<1>12. CASE Release(w)
  <2>1. r \in sessions /\ tx' = tx /\ HasPendingTx(tx[r])  BY <1>12 DEF Release
  <2>2. r \in got[w] => r \in txReady'  BY <1>12, <2>1 DEF Release
  <2> QED  BY <1>0, <1>1, <1>12, <2>1, <2>2 DEF Release
<1>13. CASE Gc(w)  BY <1>0, <1>1, <1>13 DEF Gc, batch
<1>14. ASSUME NEW s \in Sessions, RouteFin(w, s) PROVE Noticed(r)'
  BY <1>0, <1>1, <1>14 DEF RouteFin, table, batch
<1>15. ASSUME NEW s \in Sessions, RouteRst(w, s) PROVE Noticed(r)'
  <2>1. r # s => tx'[r] = tx[r]  BY <1>0, <1>15 DEF RouteRst, table
  <2>2. s \in cur'[w] /\ pc'[w] = "reset"  BY <1>0, <1>15 DEF RouteRst
  <2> QED  BY <1>0, <1>1, <1>15, <2>1, <2>2 DEF RouteRst, table
<1> QED
  BY <1>2, <1>3, <1>4, <1>5, <1>6, <1>7, <1>8, <1>9, <1>10, <1>11, <1>12, <1>13,
     <1>14, <1>15 DEF Worker, Peer

LEMMA StrandedStep ==
  ASSUME TypeOK, Holdings, ExclusiveFlight, NoStrandedTx, [Next]_vars
  PROVE  NoStrandedTx'
<1>1. CASE UNCHANGED vars
  BY <1>1 DEF vars, table, batch, NoStrandedTx, CallbackDue
<1> QED  BY <1>1, AppStranded, WorkerStranded DEF Next
---------------------------------------------------------------------------
(* Continuity of the sequence numbers.                                     *)

SeqInv == FreshSeq /\ FlightSeq /\ SeqContinuity

(* Steps that leave batches, tables and committed numbers alone. *)
LEMMA SeqFrame ==
  ASSUME SeqInv, TypeOK,
         UNCHANGED <<created, sessions, inFlight, pc, got, left, snap, acked>>,
         \A r \in Sessions : tx'[r].txSeq = tx[r].txSeq
  PROVE  SeqInv'
<1>1. FreshSeq'  BY DEF SeqInv, FreshSeq
<1>2. SeqContinuity'  BY DEF SeqInv, SeqContinuity, TypeOK
<1>3. ASSUME NEW v \in Workers, NEW r \in got[v] \cap sessions
      PROVE  IF Unresolved(v, r)' THEN snap'[v][r].txSeq = acked'[r]
                                  ELSE tx'[r].txSeq = acked'[r]
  <2>1. r \in Sessions  BY DEF TypeOK
  <2>2. Unresolved(v, r)' <=> Unresolved(v, r)  BY DEF Unresolved
  <2> QED  BY <2>1, <2>2 DEF SeqInv, FlightSeq
<1>4. FlightSeq'  BY <1>3 DEF FlightSeq
<1> QED  BY <1>1, <1>2, <1>4 DEF SeqInv

LEMMA AppSeq ==
  ASSUME TypeOK, SeqInv, NEW s \in Sessions, App(s) \/ Callback(s)
  PROVE  SeqInv'
<1>0. tx \in [Sessions -> TxState]  BY TypeFacts
<1>1. CASE NewSession(s)
  <2>1. FreshSeq'  BY <1>1 DEF SeqInv, FreshSeq, NewSession
  <2>2. SeqContinuity'  BY <1>1 DEF SeqInv, FreshSeq, SeqContinuity, NewSession
  <2>3. ASSUME NEW v \in Workers, NEW r \in got'[v] \cap sessions'
        PROVE  IF Unresolved(v, r)' THEN snap'[v][r].txSeq = acked'[r]
                                    ELSE tx'[r].txSeq = acked'[r]
    <3>1. r \in got[v] \cap sessions
      BY <1>1, TypeFacts DEF NewSession, batch
    <3>2. Unresolved(v, r)' <=> Unresolved(v, r)
      BY <1>1 DEF Unresolved, NewSession, batch
    <3> QED  BY <1>1, <3>1, <3>2 DEF SeqInv, FlightSeq, NewSession, batch
  <2>4. FlightSeq'  BY <2>3 DEF FlightSeq
  <2> QED  BY <2>1, <2>2, <2>4 DEF SeqInv
<1>2. CASE Write(s)
  <2>1. \A r \in Sessions : tx'[r].txSeq = tx[r].txSeq
    <3>1. tx'[s] = EnqueueInitialData(tx[s], <<0>>)  BY <1>0, <1>2 DEF Write
    <3>2. tx'[s].txSeq = tx[s].txSeq  BY <1>0, <3>1, TxOpFacts
    <3> QED  BY <1>0, <1>2, <3>2 DEF Write
  <2> QED  BY <1>2, <2>1, SeqFrame DEF Write, table, batch
<1>3. CASE Close(s)
  <2>1. \A r \in Sessions : tx'[r].txSeq = tx[r].txSeq
    <3>1. tx'[s] = RequestClose(tx[s])  BY <1>0, <1>3 DEF Close
    <3>2. tx'[s].txSeq = tx[s].txSeq  BY <1>0, <3>1, TxOpFacts
    <3> QED  BY <1>0, <1>3, <3>2 DEF Close
  <2> QED  BY <1>3, <2>1, SeqFrame DEF Close, table, batch
<1>4. CASE Callback(s)
  BY <1>4, SeqFrame DEF Callback, OnTx, batch
<1> QED  BY <1>1, <1>2, <1>3, <1>4 DEF App

(* A worker that moves on while sessions may only leave the table: the     *)
(* batches of the others are not affected, its own is as the action says.  *)
LEMMA SeqMove ==
  ASSUME TypeOK, SeqInv, NEW w \in Workers,
         UNCHANGED <<created, inFlight, got, acked, snap>>, sessions' \subseteq sessions,
         \A r \in Sessions : tx'[r].txSeq = tx[r].txSeq,
         \A v \in Workers : v # w => pc'[v] = pc[v] /\ left'[v] = left[v],
         \A r \in got[w] \cap sessions' : Unresolved(w, r)' <=> Unresolved(w, r)
  PROVE  SeqInv'
<1>1. FreshSeq'  BY DEF SeqInv, FreshSeq
<1>2. SeqContinuity'  BY DEF SeqInv, SeqContinuity, TypeOK
<1>3. ASSUME NEW v \in Workers, NEW r \in got[v] \cap sessions'
      PROVE  IF Unresolved(v, r)' THEN snap'[v][r].txSeq = acked'[r]
                                  ELSE tx'[r].txSeq = acked'[r]
  <2>1. r \in Sessions  BY DEF TypeOK
  <2>2. Unresolved(v, r)' <=> Unresolved(v, r)
    <3>1. CASE v = w  BY <3>1
    <3>2. CASE v # w  BY <3>2 DEF Unresolved
    <3> QED  BY <3>1, <3>2
  <2> QED  BY <2>1, <2>2 DEF SeqInv, FlightSeq
<1>4. FlightSeq'  BY <1>3 DEF FlightSeq
<1> QED  BY <1>1, <1>2, <1>4 DEF SeqInv

(* The steps of a worker that move no number. *)
LEMMA QuietSeq ==
  ASSUME TypeOK, Holdings, SeqInv, NEW w \in Workers,
         \/ DrainStart(w) \/ DrainEnd(w) \/ RouteEnd(w) \/ ResetOnTx(w) \/ ResetRemove(w)
         \/ PollFail(w) \/ RollbackOnTx(w) \/ RollbackEnd(w) \/ Gc(w) \/ Peer(w)
  PROVE  SeqInv'
<1>0. /\ tx \in [Sessions -> TxState] /\ DOMAIN pc = Workers
      /\ got \in [Workers -> SUBSET created] /\ left \in [Workers -> SUBSET created]
  BY TypeFacts DEF TypeOK
<1> USE DEF Goto, Unresolved
<1>1. CASE DrainStart(w)
  <2>1. got[w] = {}  BY <1>1 DEF Holdings, DrainStart
  <2> QED  BY <1>0, <1>1, <2>1, SeqMove DEF DrainStart
<1>2. CASE DrainEnd(w)  BY <1>0, <1>2, SeqMove DEF DrainEnd, table
<1>3. CASE RouteEnd(w)  BY <1>0, <1>3, SeqMove DEF RouteEnd, table, batch
<1>4. CASE ResetOnTx(w)  BY <1>0, <1>4, SeqMove DEF ResetOnTx, batch
<1>5. CASE ResetRemove(w)  BY <1>0, <1>5, SeqMove DEF ResetRemove
<1>6. CASE PollFail(w)  BY <1>0, <1>6, SeqMove DEF PollFail, table
<1>7. CASE RollbackOnTx(w)  BY <1>0, <1>7, SeqMove DEF RollbackOnTx
<1>8. CASE RollbackEnd(w)  BY <1>0, <1>8, SeqMove DEF RollbackEnd, table, batch
<1>9. CASE Gc(w)  BY <1>0, <1>9, SeqMove DEF Gc, batch
<1>10. ASSUME NEW s \in Sessions, RouteFin(w, s) PROVE SeqInv'
  BY <1>10, SeqFrame DEF RouteFin, table, batch
<1>11. ASSUME NEW s \in Sessions, RouteRst(w, s) PROVE SeqInv'
  <2>1. \A r \in Sessions : tx'[r].txSeq = tx[r].txSeq
    <3>0. tx[s] \in TxState  BY <1>0
    <3>1. tx'[s] = RequestClose(tx[s])  BY <1>0, <1>11 DEF RouteRst
    <3>2. tx'[s].txSeq = tx[s].txSeq  BY <3>0, <3>1, TxOpFacts
    <3> QED  BY <1>0, <1>11, <3>2 DEF RouteRst
  <2> QED  BY <1>0, <1>11, <2>1, SeqMove DEF RouteRst, table
<1> QED
  BY <1>1, <1>2, <1>3, <1>4, <1>5, <1>6, <1>7, <1>8, <1>9, <1>10, <1>11 DEF Peer
(* drainAll takes a session that is not in flight, so its snapshot carries *)
(* the committed number.                                                   *)
LEMMA DrainOneSeq ==
  ASSUME TypeOK, ExclusiveFlight, SeqInv, NEW w \in Workers, NEW s \in Sessions,
         DrainOne(w, s)
  PROVE  SeqInv'
<1>0. /\ tx \in [Sessions -> TxState] /\ snap \in [Workers -> [Sessions -> TxState]]
      /\ got \in [Workers -> SUBSET created] /\ left \in [Workers -> SUBSET created]
      /\ created \subseteq Sessions /\ sessions \subseteq created
  BY TypeFacts DEF TypeOK
<1>1. /\ UNCHANGED <<created, sessions, pc, acked>> /\ pc[w] = "drain"
      /\ s \in created
      /\ \A v \in Workers : v # w => left'[v] = left[v]
  BY <1>0 DEF DrainOne
<1>2. \A v \in Workers, r \in Sessions : Unresolved(v, r)' <=> Unresolved(v, r)
  BY <1>1 DEF Unresolved
<1>3. CASE UNCHANGED <<tx, inFlight, got, snap>>
  <2>1. FreshSeq'  BY <1>1, <1>3 DEF SeqInv, FreshSeq
  <2>2. SeqContinuity'  BY <1>1, <1>3 DEF SeqInv, SeqContinuity
  <2>3. FlightSeq'
    <3> SUFFICES ASSUME NEW v \in Workers, NEW r \in got'[v] \cap sessions'
                 PROVE  IF Unresolved(v, r)' THEN snap'[v][r].txSeq = acked'[r]
                                             ELSE tx'[r].txSeq = acked'[r]
      BY DEF FlightSeq
    <3>1. r \in Sessions /\ r \in got[v] \cap sessions  BY <1>0, <1>1, <1>3
    <3> QED  BY <1>1, <1>2, <1>3, <3>1 DEF SeqInv, FlightSeq
  <2> QED  BY <2>1, <2>2, <2>3 DEF SeqInv
<1>4. CASE /\ s \notin inFlight
           /\ tx' = [tx EXCEPT ![s] = tx'[s]]
           /\ snap' = [snap EXCEPT ![w][s] = tx[s]]
           /\ \/ inFlight' = inFlight /\ got' = got /\ tx'[s].txSeq = tx[s].txSeq
              \/ inFlight' = inFlight \cup {s} /\ got' = [got EXCEPT ![w] = @ \cup {s}]
  <2>0. \A v \in Workers : s \notin got[v]  BY <1>4 DEF ExclusiveFlight
  <2>1. /\ \A r \in Sessions : r # s => tx'[r] = tx[r]
        /\ \A v \in Workers, r \in Sessions :
             ~(v = w /\ r = s) => snap'[v][r] = snap[v][r]
        /\ snap'[w][s] = tx[s]
    BY <1>0, <1>4
  <2>2. FreshSeq'  BY <1>1, <2>1 DEF SeqInv, FreshSeq
  <2>3. SeqContinuity'
    <3> SUFFICES ASSUME NEW r \in sessions \ inFlight' PROVE tx'[r].txSeq = acked[r]
      BY <1>1 DEF SeqContinuity
    <3>1. r \in sessions \ inFlight /\ r \in Sessions  BY <1>0, <1>4
    <3>2. tx[r].txSeq = acked[r]  BY <3>1 DEF SeqInv, SeqContinuity
    <3> QED  BY <1>4, <2>1, <3>1, <3>2
  <2>4. FlightSeq'
    <3> SUFFICES ASSUME NEW v \in Workers, NEW r \in got'[v] \cap sessions'
                 PROVE  IF Unresolved(v, r)' THEN snap'[v][r].txSeq = acked'[r]
                                             ELSE tx'[r].txSeq = acked'[r]
      BY DEF FlightSeq
    <3>1. r \in Sessions /\ r \in sessions  BY <1>0, <1>1
    <3>2. CASE r \in got[v]
      <4>1. r # s  BY <2>0, <3>2
      <4>2. tx'[r] = tx[r] /\ snap'[v][r] = snap[v][r]  BY <2>1, <3>1, <4>1
      <4> QED  BY <1>1, <1>2, <3>1, <3>2, <4>2 DEF SeqInv, FlightSeq
    <3>3. CASE r \notin got[v]
      <4>1. v = w /\ r = s  BY <1>0, <1>4, <3>3
      <4>2. Unresolved(v, r)'  BY <1>1, <4>1 DEF Unresolved
      <4>3. tx[s].txSeq = acked[s]  BY <1>4, <3>1, <4>1 DEF SeqInv, SeqContinuity
      <4> QED  BY <1>1, <2>1, <4>1, <4>2, <4>3
    <3> QED  BY <3>2, <3>3
  <2> QED  BY <2>2, <2>3, <2>4 DEF SeqInv
<1> QED  BY <1>3, <1>4, DrainOneBooks

(* A successful POST commits the numbers of its batch. *)
LEMMA PollOkSeq ==
  ASSUME TypeOK, ExclusiveFlight, SeqInv, NEW w \in Workers, PollOk(w)
  PROVE  SeqInv'
<1>0. /\ got \in [Workers -> SUBSET created] /\ DOMAIN pc = Workers
      /\ created \subseteq Sessions /\ sessions \subseteq created
  BY DEF TypeOK
<1>1. /\ UNCHANGED <<created, sessions, inFlight, tx, got, snap, left>>
      /\ pc'[w] = "route" /\ \A v \in Workers : v # w => pc'[v] = pc[v]
      /\ \A r \in Sessions : acked'[r] = IF r \in got[w] THEN tx[r].txSeq ELSE acked[r]
  BY <1>0 DEF PollOk, table, batch, Goto
<1>2. FreshSeq'  BY <1>0, <1>1 DEF SeqInv, FreshSeq
<1>3. SeqContinuity'  BY <1>0, <1>1 DEF SeqInv, SeqContinuity
<1>4. FlightSeq'
  <2> SUFFICES ASSUME NEW v \in Workers, NEW r \in got[v] \cap sessions
               PROVE  IF Unresolved(v, r)' THEN snap[v][r].txSeq = acked'[r]
                                           ELSE tx[r].txSeq = acked'[r]
    BY <1>1 DEF FlightSeq
  <2>1. r \in Sessions  BY <1>0
  <2>2. CASE v = w  BY <1>1, <2>1, <2>2 DEF Unresolved
  <2>3. CASE v # w
    <3>1. r \notin got[w]  BY <2>3 DEF ExclusiveFlight
    <3>2. Unresolved(v, r)' <=> Unresolved(v, r)  BY <1>1, <2>3 DEF Unresolved
    <3> QED  BY <1>1, <2>1, <3>1, <3>2 DEF SeqInv, FlightSeq
  <2> QED  BY <2>2, <2>3
<1> QED  BY <1>2, <1>3, <1>4 DEF SeqInv

(* A rollback winds its session back to the committed number. *)
LEMMA RollbackOneSeq ==
  ASSUME TypeOK, Holdings, ExclusiveFlight, SeqInv, NEW w \in Workers,
         NEW s \in Sessions, RollbackOne(w, s)
  PROVE  SeqInv'
<1>0. /\ tx \in [Sessions -> TxState] /\ snap \in [Workers -> [Sessions -> TxState]]
      /\ got \in [Workers -> SUBSET created] /\ left \in [Workers -> SUBSET created]
      /\ created \subseteq Sessions /\ sessions \subseteq created /\ DOMAIN pc = Workers
  BY TypeFacts DEF TypeOK
<1>1. /\ UNCHANGED <<created, sessions, inFlight, got, snap, acked>>
      /\ s \in left[w] /\ left'[w] = left[w] \ {s}
      /\ pc[w] = "rollback" /\ pc'[w] = "onTx"
      /\ \A v \in Workers : v # w => pc'[v] = pc[v] /\ left'[v] = left[v]
      /\ tx'[s] = RollbackDrain(tx[s], snap[w][s])
      /\ \A r \in Sessions : r # s => tx'[r] = tx[r]
  BY <1>0 DEF RollbackOne, table, Goto
<1>2. tx'[s].txSeq = snap[w][s].txSeq
  <2>1. tx[s] \in TxState /\ snap[w][s] \in TxState  BY <1>0
  <2> QED  BY <1>1, <2>1, TxOpFacts
<1>3. s \in got[w] /\ s \in inFlight  BY <1>1 DEF Holdings, ExclusiveFlight
<1>4. FreshSeq'  BY <1>0, <1>1, <1>3 DEF SeqInv, FreshSeq
<1>5. SeqContinuity'  BY <1>0, <1>1, <1>3 DEF SeqInv, SeqContinuity
<1>6. FlightSeq'
  <2> SUFFICES ASSUME NEW v \in Workers, NEW r \in got[v] \cap sessions
               PROVE  IF Unresolved(v, r)' THEN snap[v][r].txSeq = acked[r]
                                           ELSE tx'[r].txSeq = acked[r]
    BY <1>1 DEF FlightSeq
  <2>1. r \in Sessions  BY <1>0
  <2>2. CASE r = s
    <3>1. v = w  BY <1>3, <2>2 DEF ExclusiveFlight
    <3>2. snap[w][s].txSeq = acked[s]
      BY <1>1, <2>2, <3>1 DEF SeqInv, FlightSeq, Unresolved
    <3> QED  BY <1>2, <2>2, <3>1, <3>2
  <2>3. CASE r # s
    <3>1. Unresolved(v, r)' <=> Unresolved(v, r)
      BY <1>1, <2>3 DEF Unresolved
    <3> QED  BY <1>1, <2>1, <2>3, <3>1 DEF SeqInv, FlightSeq
  <2> QED  BY <2>2, <2>3
<1> QED  BY <1>4, <1>5, <1>6 DEF SeqInv

(* releaseInFlight ends the flight of sessions that stand at the committed *)
(* number: nothing of the batch is left to roll back.                      *)
LEMMA ReleaseSeq ==
  ASSUME TypeOK, ExclusiveFlight, SeqInv, NEW w \in Workers, Release(w)
  PROVE  SeqInv'
<1>0. /\ snap \in [Workers -> [Sessions -> TxState]]
      /\ got \in [Workers -> SUBSET created] /\ DOMAIN pc = Workers
      /\ created \subseteq Sessions /\ sessions \subseteq created
  BY TypeFacts DEF TypeOK
<1>1. /\ UNCHANGED <<created, sessions, tx, acked, left>>
      /\ pc[w] = "release" /\ inFlight' = inFlight \ got[w] /\ got'[w] = {}
      /\ \A v \in Workers : v # w => pc'[v] = pc[v] /\ got'[v] = got[v] /\ snap'[v] = snap[v]
  BY <1>0 DEF Release, Goto
<1>2. FreshSeq'  BY <1>1 DEF SeqInv, FreshSeq
<1>3. SeqContinuity'
  <2> SUFFICES ASSUME NEW r \in sessions \ inFlight' PROVE tx[r].txSeq = acked[r]
    BY <1>1 DEF SeqContinuity
  <2>1. CASE r \in got[w]  BY <1>1, <2>1 DEF SeqInv, FlightSeq, Unresolved
  <2>2. CASE r \notin got[w]  BY <1>1, <2>2 DEF SeqInv, SeqContinuity
  <2> QED  BY <2>1, <2>2
<1>4. FlightSeq'
  <2> SUFFICES ASSUME NEW v \in Workers, NEW r \in got'[v] \cap sessions
               PROVE  IF Unresolved(v, r)' THEN snap'[v][r].txSeq = acked[r]
                                           ELSE tx[r].txSeq = acked[r]
    BY <1>1 DEF FlightSeq
  <2>1. v # w  BY <1>1
  <2>2. Unresolved(v, r)' <=> Unresolved(v, r)  BY <1>1, <2>1 DEF Unresolved
  <2> QED  BY <1>1, <2>1, <2>2 DEF SeqInv, FlightSeq
<1> QED  BY <1>2, <1>3, <1>4 DEF SeqInv

LEMMA SeqStep ==
  ASSUME TypeOK, Holdings, ExclusiveFlight, SeqInv, [Next]_vars
  PROVE  SeqInv'
<1>1. CASE UNCHANGED vars
  BY <1>1, SeqFrame DEF vars, table, batch
<1>2. ASSUME NEW w \in Workers, Worker(w) \/ Peer(w) PROVE SeqInv'
  BY <1>2, QuietSeq, DrainOneSeq, PollOkSeq, RollbackOneSeq, ReleaseSeq DEF Worker
<1> QED  BY <1>1, <1>2, AppSeq DEF Next

---------------------------------------------------------------------------
(* The inductive invariant and what follows from it.                       *)

LEMMA InitIInv == Init => IInv
<1> SUFFICES ASSUME Init PROVE IInv  OBVIOUS
<1>1. TypeOK  BY InitType
<1>2. Holdings /\ NoStrandedTx /\ SeqContinuity /\ FlightSeq
  BY DEF Init, Holdings, NoStrandedTx, SeqContinuity, FlightSeq
<1>3. FreshSeq  BY NewTxFacts DEF Init, FreshSeq
<1>4. ExclusiveFlight  BY DEF Init, ExclusiveFlight
<1> QED  BY <1>1, <1>2, <1>3, <1>4 DEF IInv

LEMMA NextIInv == IInv /\ [Next]_vars => IInv'
<1> SUFFICES ASSUME IInv, [Next]_vars PROVE IInv'  OBVIOUS
<1>1. TypeOK /\ Holdings /\ ExclusiveFlight /\ NoStrandedTx /\ SeqInv
  BY DEF IInv, SeqInv
<1>2. TypeOK'  BY <1>1, TypeStep
<1>3. Holdings'  BY <1>1, HoldingsStep
<1>4. ExclusiveFlight'  BY <1>1, ExclusiveStep
<1>5. NoStrandedTx'  BY <1>1, StrandedStep
<1>6. SeqInv'  BY <1>1, SeqStep
<1> QED  BY <1>2, <1>3, <1>4, <1>5, <1>6 DEF IInv, SeqInv

LEMMA SpecIInv == Spec => []IInv
BY InitIInv, NextIInv, PTL DEF Spec

(* The tables only ever hold sessions NewSession has made, and drainAll    *)
(* never plans more frames than its batch has room for.                    *)
THEOREM TypeCorrect == Spec => []TypeOK
<1>1. IInv => TypeOK  BY DEF IInv
<1> QED  BY <1>1, SpecIInv, PTL

(* However many workers poll at once, a session's frames are in at most    *)
(* one batch, and Client.inFlight is exactly what the batches hold.        *)
THEOREM FlightIsExclusive == Spec => []ExclusiveFlight
<1>1. IInv => ExclusiveFlight  BY DEF IInv
<1> QED  BY <1>1, SpecIInv, PTL

(* No interleaving of writes, closes, resets, drains, failed polls and     *)
(* collections leaves a session with something to send unmarked: txReady,  *)
(* a batch in flight or a callback on its way accounts for it.             *)
THEOREM NothingStranded == Spec => []NoStrandedTx
<1>1. IInv => NoStrandedTx  BY DEF IInv
<1> QED  BY <1>1, SpecIInv, PTL

(* When a session's flight ends its sequence number is the one after the   *)
(* last committed frame, whether its batch was answered or rolled back.    *)
THEOREM SequencesContinue == Spec => []SeqContinuity
<1>1. IInv => SeqContinuity  BY DEF IInv
<1> QED  BY <1>1, SpecIInv, PTL

---------------------------------------------------------------------------
(* The workers' wake-ups (modules CoalesceTimer and PollWorkers), for any  *)
(* sessions, workers and bounds, with and without coalescing.              *)

TimerTypes == live \in Nat /\ fired \in Nat /\ firing \in Nat

(* While coalesceTimer points at a timer, the timer is running or its      *)
(* goroutine has not taken the lock yet: a kick that finds the pointer set *)
(* and arms nothing still has somebody to wait for.                        *)
RefIsAlive == ref => live + fired > 0

KickInv == TimerTypes /\ RefIsAlive /\ KickIsDelivered

LEMMA MorePositive == \A a, b, c \in Nat : a + b > 0 => a + b + c > 0
OBVIOUS

LEMMA NoTimerKickInv == NoTimer => KickInv
BY DEF NoTimer, KickInv, TimerTypes, RefIsAlive, KickIsDelivered

(* A Broadcast without the timer pays what is owed; the timers stay. *)
LEMMA PaidKickInv ==
  ASSUME KickInv, UNCHANGED timers, owed' = owed \/ owed' = FALSE PROVE KickInv'
BY DEF timers, KickInv, TimerTypes, RefIsAlive, KickIsDelivered

(* The first kick of a burst brings its own timer. *)
LEMMA ArmKickInv ==
  ASSUME KickInv, ArmTimer PROVE KickInv'
BY DEF ArmTimer, KickInv, TimerTypes, RefIsAlive, KickIsDelivered

(* A later kick relies on the timer the pointer promises. *)
LEMMA ResetKickInv ==
  ASSUME KickInv, ResetTimer PROVE KickInv'
<1>1. live + fired > 0  BY DEF ResetTimer, KickInv, RefIsAlive
<1>2. live' \in Nat /\ live' + fired > 0
  BY <1>1 DEF ResetTimer, KickInv, TimerTypes
<1>3. fired' = fired /\ firing' = firing  BY DEF ResetTimer
<1>4. live' \in Nat /\ fired' \in Nat /\ firing' \in Nat
  BY <1>2, <1>3 DEF KickInv, TimerTypes
<1>5. live' + fired' > 0  BY <1>2, <1>3
<1>6. live' + fired' + firing' > 0  BY <1>4, <1>5, MorePositive
<1> QED  BY <1>4, <1>5, <1>6 DEF KickInv, TimerTypes, RefIsAlive, KickIsDelivered

(* A timer that expires becomes a goroutine; a goroutine that clears the   *)
(* pointer is still to broadcast; its Broadcast pays what is owed.         *)
LEMMA GoroutineKickInv ==
  ASSUME KickInv, StartGoroutine \/ ForgetTimer \/ EndGoroutine PROVE KickInv'
<1>1. CASE StartGoroutine
  BY <1>1 DEF StartGoroutine, KickInv, TimerTypes, RefIsAlive, KickIsDelivered
<1>2. CASE ForgetTimer
  BY <1>2 DEF ForgetTimer, KickInv, TimerTypes, RefIsAlive, KickIsDelivered
<1>3. CASE EndGoroutine
  BY <1>3 DEF EndGoroutine, KickInv, TimerTypes, RefIsAlive, KickIsDelivered
<1> QED  BY <1>1, <1>2, <1>3

---------------------------------------------------------------------------
(* The state of PollWorkers beside the timer's. *)
CONSTANTS Coalescing, DisableIdleSleep, HaltAfter, MaxIdle

VARIABLES coalesce, open, ready, due, workerAt, carrying, work, idle, missed

Polling == INSTANCE PollWorkers WITH pc <- workerAt

(* The instance and the timer module speak of the same timer. *)
LEMMA SameTimer ==
  /\ Polling!timers = timers
  /\ Polling!NoTimer <=> NoTimer
  /\ Polling!ArmTimer <=> ArmTimer
  /\ Polling!ResetTimer <=> ResetTimer
  /\ Polling!StartGoroutine <=> StartGoroutine
  /\ Polling!ForgetTimer <=> ForgetTimer
  /\ Polling!EndGoroutine <=> EndGoroutine
<1>1. Polling!timers = timers  BY DEF Polling!timers, timers
<1>2. Polling!NoTimer <=> NoTimer  BY DEF Polling!NoTimer, NoTimer
<1>3. Polling!ArmTimer <=> ArmTimer  BY DEF Polling!ArmTimer, ArmTimer
<1>4. Polling!ResetTimer <=> ResetTimer  BY DEF Polling!ResetTimer, ResetTimer
<1>5. Polling!StartGoroutine <=> StartGoroutine
  BY DEF Polling!StartGoroutine, StartGoroutine
<1>6. Polling!ForgetTimer <=> ForgetTimer  BY DEF Polling!ForgetTimer, ForgetTimer
<1>7. Polling!EndGoroutine <=> EndGoroutine  BY DEF Polling!EndGoroutine, EndGoroutine
<1> QED  BY <1>1, <1>2, <1>3, <1>4, <1>5, <1>6, <1>7

(* A worker never touches the timer. *)
LEMMA WorkerKickInv ==
  ASSUME NEW w \in Workers, KickInv, Polling!Worker(w) PROVE KickInv'
<1>1. UNCHANGED <<Polling!timers, owed>>
  BY DEF Polling!Worker, Polling!Top, Polling!Drain, Polling!PollOk, Polling!PollFail,
         Polling!Release, Polling!Gc, Polling!Capture, Polling!TimerFires
<1>2. UNCHANGED timers /\ owed' = owed  BY <1>1 DEF Polling!timers, timers
<1> QED  BY <1>2, PaidKickInv

LEMMA NextKickInv == KickInv /\ [Polling!Next]_(Polling!vars) => KickInv'
<1> SUFFICES ASSUME KickInv, [Polling!Next]_(Polling!vars) PROVE KickInv'  OBVIOUS
<1>1. ASSUME NEW s \in Sessions, Polling!Enqueue(s) PROVE KickInv'
  BY <1>1, PaidKickInv DEF Polling!Enqueue, Polling!timers, timers
<1>2. ASSUME NEW c \in Polling!Callers, NEW s \in Sessions, Polling!Kick(c, s)
      PROVE  KickInv'
  <2>1. CASE Polling!KickNow(c, s)
    BY <2>1, PaidKickInv DEF Polling!KickNow, Polling!timers, timers
  <2>2. CASE Polling!KickLater(c, s)
    BY <2>2, SameTimer, ArmKickInv, ResetKickInv DEF Polling!KickLater
  <2> QED  BY <1>2, <2>1, <2>2 DEF Polling!Kick
<1>3. CASE Polling!Timer
  BY <1>3, SameTimer, GoroutineKickInv
  DEF Polling!Timer, Polling!Expire, Polling!FireClear, Polling!FireBroadcast
<1>4. CASE Polling!RecoveryBroadcast
  BY <1>4, PaidKickInv DEF Polling!RecoveryBroadcast, Polling!timers, timers
<1>5. CASE UNCHANGED Polling!vars
  BY <1>5, PaidKickInv DEF Polling!vars, Polling!timers, timers
<1> QED  BY <1>1, <1>2, <1>3, <1>4, <1>5, WorkerKickInv DEF Polling!Next

(* However kicks, resets of the coalescing timer, its expiry and the       *)
(* goroutines it starts interleave, a kick that kick() swallowed always    *)
(* has a live timer or goroutine that will broadcast after it.             *)
THEOREM KickDelivered == Polling!Spec => []KickIsDelivered
<1>1. Polling!Init => KickInv  BY SameTimer, NoTimerKickInv DEF Polling!Init
<1>2. KickInv => KickIsDelivered  BY DEF KickInv
<1> QED  BY <1>1, <1>2, NextKickInv, PTL DEF Polling!Spec
=============================================================================
