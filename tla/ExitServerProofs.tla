-------------------------- MODULE ExitServerProofs ---------------------------
(* Proofs about module ExitServer, for any clients, session IDs, handlers, *)
(* requests and targets, and any caps and bounds.                          *)
EXTENDS ExitServer, FiniteSetTheorems, SequenceTheorems, TLAPS

TxState == [txBuf : Seq({0}), txSeq : Nat, synNeeded : BOOLEAN,
            closeReq : BOOLEAN, finSent : BOOLEAN]

PumpStates == {"read", "enqueue", "mark", "kick", "markFin", "kickFin", "stop", "done"}

Insts == [id : Ids, owner : Clients, tx : TxState, reads : Nat,
          rx : {"open", "stopped", "closed"}, up : {"open", "closed"},
          pump : PumpStates]

(* Where a handler still has a frame in hand, and where it has not. *)
Routing == {"route", "deliver", "rst", "version", "rstKick", "resolve", "lookup",
            "dial", "dialCached"}
Replying == {"capture", "drain", "wait", "reply", "end"}

Tunnels == [at : Routing \cup Replying, client : Clients, id : Ids,
            frames : Seq(Kinds), inst : Nat, ch : Nat, late : BOOLEAN,
            out : SUBSET Nat]

Types ==
  /\ inst \in Seq(Insts)
  /\ table \in [Ids -> 0..Len(inst)]
  /\ txReady \subseteq Ids
  /\ answers \in [Clients -> SUBSET (Ids \X {"rst", "version"})]
  /\ victims \subseteq DOMAIN inst
  /\ failed \cup dns \subseteq {Target[s] : s \in Ids}
  /\ chan \in [Clients -> Nat]
  /\ hnd \in [Handlers -> Tunnels \cup {Idle}]
  /\ syns \in [Ids -> Nat]

(* What a handler refers to exists: a frame while it routes, the instance  *)
(* it delivers to, the instances its reply carries.                        *)
Grounded(h) ==
  /\ hnd[h].at \in Routing => hnd[h].frames # <<>>
  /\ hnd[h].at = "deliver" => hnd[h].inst \in DOMAIN inst
  /\ hnd[h] # Idle => hnd[h].out \subseteq DOMAIN inst

References ==
  /\ \A h \in Handlers : Grounded(h)
  /\ \A s \in Ids : table[s] # 0 => inst[table[s]].id = s

Bounded == \A i \in DOMAIN inst : Len(inst[i].tx.txBuf) <= HighWater + 1
---------------------------------------------------------------------------
(* What the operators of module Session do to a session.                   *)

(* A sequence written as a function of its indices. *)
LEMMA FunctionIsSeq ==
  ASSUME NEW n \in Nat, NEW S, NEW f \in [1..n -> S]
  PROVE  f \in Seq(S) /\ Len(f) = n /\ DOMAIN f = 1..n
<1>1. f \in Seq(S)  BY SeqDef
<1>2. Len(f) \in Nat /\ DOMAIN f = 1..Len(f)  BY <1>1, LenProperties
<1>3. 1..Len(f) = 1..n  BY <1>2
<1> QED  BY <1>1, <1>2, <1>3

LEMMA ByOne == \A a \in Nat : (a + 1 - 1) \div 1 = a
OBVIOUS

(* An update of the fields that a drain touches. *)
Updated(t, b, q, y, f) ==
  [t EXCEPT !.txBuf = b, !.txSeq = q, !.synNeeded = y, !.finSent = f]

LEMMA UpdatedFacts ==
  ASSUME NEW t \in TxState, NEW b \in Seq({0}), NEW q \in Nat,
         NEW y \in BOOLEAN, NEW f \in BOOLEAN
  PROVE  Updated(t, b, q, y, f) \in TxState /\ Updated(t, b, q, y, f).txBuf = b
BY DEF TxState, Updated

(* drainTx keeps a session a session and lengthens no buffer. *)
LEMMA DrainSess ==
  ASSUME NEW t \in TxState, NEW k \in Nat \ {0}
  PROVE  /\ DrainTx(t, 1, k).sess \in TxState
         /\ Len(DrainTx(t, 1, k).sess.txBuf) <= Len(t.txBuf)
<1> DEFINE b     == t.txBuf
           n     == Least(k, DataFrames(t, 1))
           taken == Least(n * 1, Len(b))
           data  == [i \in 1..n |->
                       Frame(t.txSeq + i - 1, t.synNeeded /\ i = 1, FALSE,
                             SubSeq(b, (i - 1) * 1 + 1, Least(i * 1, Len(b))))]
           fin   == FinPending(t) /\ n < k
           tail  == IF fin THEN <<Frame(t.txSeq + n, FALSE, TRUE, <<>>)>> ELSE <<>>
           sess  == [t EXCEPT !.txBuf = SubSeq(@, taken + 1, Len(@)),
                              !.txSeq = @ + n + Len(tail),
                              !.synNeeded = @ /\ n = 0,
                              !.finSent = @ \/ fin]
<1>1. DrainTx(t, 1, k).sess = sess  BY DEF DrainTx
<1>2. Len(b) \in Nat /\ b \in Seq({0}) /\ t.txSeq \in Nat
  BY LenProperties DEF TxState
<1>3. CeilDiv(Len(b), 1) = Len(b)  BY <1>2, ByOne DEF CeilDiv
<1>4. n \in Nat  BY <1>2, <1>3 DEF DataFrames, Greatest, Least
<1>5. taken \in 0..Len(b)  BY <1>2, <1>4 DEF Least
<1> HIDE DEF n, taken
<1>6. Len(tail) \in Nat
  <2> DEFINE last == Frame(t.txSeq + n, FALSE, TRUE, <<>>)
  <2> HIDE DEF last, fin
  <2>1. Len(<<last>>) = 1  OBVIOUS
  <2>2. CASE fin  BY <2>1, <2>2 DEF last
  <2>3. CASE ~fin  BY <2>3
  <2> QED  BY <2>2, <2>3
<1> HIDE DEF tail
<1> DEFINE r == SubSeq(b, taken + 1, Len(b))
           q == t.txSeq + n + Len(tail)
           y == t.synNeeded /\ n = 0
           f == t.finSent \/ fin
<1>7. r \in Seq({0}) /\ Len(r) <= Len(b)
  <2>1. \A i \in (taken + 1)..Len(b) : b[i] \in {0}  BY <1>2, <1>5, ElementOfSeq
  <2>2. r \in Seq({0}) /\ Len(r) = IF taken + 1 <= Len(b) THEN Len(b) - (taken + 1) + 1 ELSE 0
    BY <2>1, <1>2, <1>5, SubSeqProperties
  <2> QED  BY <2>2, <1>2, <1>5
<1>8. q \in Nat /\ y \in BOOLEAN /\ f \in BOOLEAN  BY <1>2, <1>4, <1>6
<1>9. sess = Updated(t, r, q, y, f)  BY DEF Updated
<1> HIDE DEF sess, fin, r, q, y, f
<1>10. sess \in TxState /\ sess.txBuf = r  BY <1>7, <1>8, <1>9, UpdatedFacts
<1> QED  BY <1>1, <1>7, <1>10

LEMMA TxOpFacts ==
  ASSUME NEW t \in TxState
  PROVE  /\ EnqueueTx(t, <<0>>) \in TxState
         /\ ~t.closeReq => Len(EnqueueTx(t, <<0>>).txBuf) = Len(t.txBuf) + 1
         /\ t.closeReq => EnqueueTx(t, <<0>>) = t
         /\ RequestClose(t) \in TxState
         /\ RequestClose(t).txBuf = t.txBuf
         /\ NewTx(FALSE) \in TxState
         /\ Len(NewTx(FALSE).txBuf) = 0
         /\ ~HasPendingTx(NewTx(FALSE))
<1>1. t.txBuf \o <<0>> \in Seq({0}) /\ Len(t.txBuf \o <<0>>) = Len(t.txBuf) + 1
  BY DEF TxState
<1>2. /\ EnqueueTx(t, <<0>>) \in TxState
      /\ ~t.closeReq => Len(EnqueueTx(t, <<0>>).txBuf) = Len(t.txBuf) + 1
      /\ t.closeReq => EnqueueTx(t, <<0>>) = t
  BY <1>1 DEF EnqueueTx, TxState
<1>3. RequestClose(t) \in TxState /\ RequestClose(t).txBuf = t.txBuf
  BY DEF RequestClose, TxState
<1>4. /\ NewTx(FALSE) \in TxState /\ Len(NewTx(FALSE).txBuf) = 0
      /\ ~HasPendingTx(NewTx(FALSE))
  <2>1. <<>> \in Seq({0}) /\ Len(<<>>) = 0  OBVIOUS
  <2> QED  BY <2>1 DEF NewTx, TxState, HasPendingTx, FinPending
<1> QED  BY <1>2, <1>3, <1>4
---------------------------------------------------------------------------
(* Wake channels.                                                          *)

(* There are more names than goroutines and table entries, so activityFor  *)
(* always finds a channel nobody refers to.                                *)
LEMMA FreshFacts ==
  /\ FreshChannel \in Nat \ {0}
  /\ \A c \in Clients : chan[c] # FreshChannel
  /\ \A h \in Handlers : hnd[h] # Idle => hnd[h].ch # FreshChannel
<1> DEFINE used(n) == \/ \E c \in Clients : chan[c] = n
                      \/ \E h \in Handlers : hnd[h] # Idle /\ hnd[h].ch = n
           m == Cardinality(Clients) + Cardinality(Handlers) + 1
           A == {chan[c] : c \in Clients}
           B == {hnd[h].ch : h \in Handlers}
<1>1. IsFiniteSet(Clients) /\ IsFiniteSet(Handlers)  BY ExitServerAssumption
<1>2. Cardinality(Clients) \in Nat /\ Cardinality(Handlers) \in Nat
  BY <1>1, FS_CardinalityType
<1>3. IsFiniteSet(A) /\ Cardinality(A) <= Cardinality(Clients)
  <2> DEFINE f == [c \in Clients |-> chan[c]]
  <2>1. f \in Surjection(Clients, A)  BY DEF Surjection
  <2> QED  BY <2>1, <1>1, FS_Surjection
<1>4. IsFiniteSet(B) /\ Cardinality(B) <= Cardinality(Handlers)
  <2> DEFINE f == [h \in Handlers |-> hnd[h].ch]
  <2>1. f \in Surjection(Handlers, B)  BY DEF Surjection
  <2> QED  BY <2>1, <1>1, FS_Surjection
<1> HIDE DEF A, B
<1>5. IsFiniteSet(A \cup B) /\ Cardinality(A \cup B) < m
  <2>1. /\ IsFiniteSet(A \cup B)
        /\ Cardinality(A \cup B) = Cardinality(A) + Cardinality(B) - Cardinality(A \cap B)
    BY <1>3, <1>4, FS_Union
  <2>2. IsFiniteSet(A \cap B)  BY <1>3, FS_Subset
  <2>3. Cardinality(A) \in Nat /\ Cardinality(B) \in Nat /\ Cardinality(A \cap B) \in Nat
    BY <1>3, <1>4, <2>2, FS_CardinalityType
  <2> QED  BY <1>2, <1>3, <1>4, <2>1, <2>3
<1>6. \E n \in 1..m : ~used(n)
  <2> SUFFICES ASSUME \A n \in 1..m : used(n) PROVE FALSE  OBVIOUS
  <2>1. 1..m \subseteq A \cup B  BY DEF A, B
  <2>2. m \in Nat /\ m >= 1  BY <1>2
  <2>3. Cardinality(1..m) = m  BY <2>2, FS_Interval
  <2>4. Cardinality(1..m) <= Cardinality(A \cup B)  BY <1>5, <2>1, FS_Subset
  <2>5. Cardinality(A \cup B) \in Nat  BY <1>5, FS_CardinalityType
  <2> HIDE DEF m
  <2> QED  BY <1>5, <2>2, <2>3, <2>4, <2>5
<1>7. FreshChannel \in 1..m /\ ~used(FreshChannel)
  <2>1. FreshChannel = CHOOSE n \in 1..m : ~used(n)  BY DEF FreshChannel
  <2> QED  BY <1>6, <2>1
<1> QED  BY <1>2, <1>7

---------------------------------------------------------------------------
(* Steps of a handler and of an instance, in general.                      *)

(* An instance keeps its session ID and its owner for ever. *)
Keeps ==
  /\ inst' \in Seq(Insts)
  /\ DOMAIN inst \subseteq DOMAIN inst'
  /\ \A i \in DOMAIN inst : inst'[i].id = inst[i].id /\ inst'[i].owner = inst[i].owner

LEMMA SameInst ==
  ASSUME Types, inst' = inst PROVE Keeps
<1>1. inst \in Seq(Insts)  BY DEF Types
<1> QED  BY <1>1 DEF Keeps

LEMMA InstFacts ==
  ASSUME Types
  PROVE  /\ Len(inst) \in Nat /\ DOMAIN inst = 1..Len(inst)
         /\ \A i \in DOMAIN inst : inst[i] \in Insts
<1>1. inst \in Seq(Insts)  BY DEF Types
<1> QED  BY <1>1, LenProperties, ElementOfSeq

(* One instance changes, but not who it is. *)
LEMMA OneInst ==
  ASSUME Types, NEW i \in DOMAIN inst, NEW r \in Insts,
         r.id = inst[i].id, r.owner = inst[i].owner, inst' = [inst EXCEPT ![i] = r]
  PROVE  /\ Keeps /\ Len(inst') = Len(inst) /\ DOMAIN inst' = DOMAIN inst
         /\ inst'[i] = r
         /\ \A j \in DOMAIN inst : j # i => inst'[j] = inst[j]
<1>1. inst \in Seq(Insts)  BY DEF Types
<1>2. i \in 1..Len(inst)  BY InstFacts
<1>3. inst' \in Seq(Insts) /\ Len(inst') = Len(inst)  BY <1>1, <1>2, ExceptSeq
<1>4. /\ DOMAIN inst' = DOMAIN inst /\ inst'[i] = r
      /\ \A j \in DOMAIN inst : j # i => inst'[j] = inst[j]
  OBVIOUS
<1> QED  BY <1>3, <1>4 DEF Keeps

LEMMA Busy ==
  ASSUME Types, NEW h \in Handlers, hnd[h].at # "idle"
  PROVE  hnd[h] \in Tunnels /\ hnd[h] # Idle
BY DEF Types, Idle

LEMMA TunnelIsBusy ==
  ASSUME NEW r \in Tunnels PROVE r # Idle /\ r.at # "idle"
BY DEF Tunnels, Routing, Replying, Idle

(* Handlers whose tunnel does not change stay grounded and isolated. *)
LEMMA OtherHandler ==
  ASSUME Keeps, NEW h \in Handlers, Grounded(h), hnd'[h] = hnd[h],
         hnd[h] # Idle => \A i \in hnd[h].out : inst[i].owner = hnd[h].client
  PROVE  /\ Grounded(h)'
         /\ (hnd[h] # Idle => \A i \in hnd[h].out : inst[i].owner = hnd[h].client)'
BY DEF Keeps, Grounded, Idle
(* A tunnel that may follow in a state with the instances of the next one. *)
Sound(r) ==
  /\ r.at \in Routing => r.frames # <<>>
  /\ r.at = "deliver" => r.inst \in DOMAIN inst'
  /\ r.out \subseteq DOMAIN inst'
  /\ \A i \in r.out : inst'[i].owner = r.client

LEMMA OneHandler ==
  ASSUME Types, References, Isolation, Keeps, NEW h \in Handlers,
         NEW r \in Tunnels \cup {Idle}, hnd' = [hnd EXCEPT ![h] = r],
         r \in Tunnels => Sound(r)
  PROVE  /\ hnd' \in [Handlers -> Tunnels \cup {Idle}]
         /\ (\A g \in Handlers : Grounded(g))'
         /\ Isolation'
<1>1. /\ hnd' \in [Handlers -> Tunnels \cup {Idle}] /\ hnd'[h] = r
      /\ \A g \in Handlers : g # h => hnd'[g] = hnd[g]
  BY DEF Types
<1> DEFINE Good(g) == /\ Grounded(g)
                      /\ hnd[g] # Idle => \A i \in hnd[g].out : inst[i].owner = hnd[g].client
<1>2. ASSUME NEW g \in Handlers, g # h PROVE Good(g)'
  <2>1. Good(g)  BY DEF References, Isolation
  <2> QED  BY <1>1, <1>2, <2>1, OtherHandler
<1>3. Good(h)'
  <2>1. CASE r = Idle
    BY <1>1, <2>1 DEF Grounded, Idle, Routing
  <2>2. CASE r \in Tunnels
    BY <1>1, <2>2 DEF Grounded, Sound
  <2> QED  BY <2>1, <2>2
<1>4. \A g \in Handlers : Good(g)'  BY <1>2, <1>3
<1>5. (\A g \in Handlers : Grounded(g))'  BY <1>4
<1>6. Isolation'  BY <1>4 DEF Isolation
<1> QED  BY <1>1, <1>5, <1>6

LEMMA NoHandler ==
  ASSUME Types, References, Isolation, Keeps, hnd' = hnd
  PROVE  /\ hnd' \in [Handlers -> Tunnels \cup {Idle}]
         /\ (\A g \in Handlers : Grounded(g))'
         /\ Isolation'
<1> DEFINE Good(g) == /\ Grounded(g)
                      /\ hnd[g] # Idle => \A i \in hnd[g].out : inst[i].owner = hnd[g].client
<1>1. ASSUME NEW g \in Handlers PROVE Good(g)'
  <2>1. Good(g)  BY DEF References, Isolation
  <2> QED  BY <2>1, OtherHandler
<1>2. (\A g \in Handlers : Grounded(g))'  BY <1>1
<1>3. Isolation'  BY <1>1 DEF Isolation
<1> QED  BY <1>2, <1>3 DEF Types

(* Entries that stay or are removed refer to instances of their ID. *)
LEMMA TableShrinks ==
  ASSUME Types, References, Keeps, table' \in [Ids -> Nat],
         \A s \in Ids : table'[s] \in {0, table[s]}
  PROVE  /\ table' \in [Ids -> 0..Len(inst')]
         /\ (\A s \in Ids : table[s] # 0 => inst[table[s]].id = s)'
<1>1. /\ inst' \in Seq(Insts) /\ Len(inst') \in Nat /\ DOMAIN inst' = 1..Len(inst')
  BY LenProperties DEF Keeps
<1>2. DOMAIN inst = 1..Len(inst) /\ Len(inst) \in Nat  BY InstFacts
<1>3. Len(inst) <= Len(inst')  BY <1>1, <1>2 DEF Keeps
<1>4. ASSUME NEW s \in Ids
      PROVE  /\ table'[s] \in 0..Len(inst')
             /\ table'[s] # 0 => inst'[table'[s]].id = s
  <2>1. table[s] \in 0..Len(inst)  BY DEF Types
  <2>2. table[s] # 0 => table[s] \in DOMAIN inst /\ inst[table[s]].id = s
    BY <1>2, <2>1 DEF References
  <2>3. table'[s] = 0 \/ table'[s] = table[s]  OBVIOUS
  <2> QED  BY <1>1, <1>2, <1>3, <2>1, <2>2, <2>3 DEF Keeps
<1> QED  BY <1>4

Inv == Types /\ References /\ Bounded /\ Isolation

(* A handler moves and no session changes. *)
LEMMA QuietHandler ==
  ASSUME Inv, UNCHANGED <<inst, table, victims>>, NEW h \in Handlers,
         NEW r \in Tunnels \cup {Idle}, hnd' = [hnd EXCEPT ![h] = r],
         r \in Tunnels => Sound(r),
         txReady' = txReady,
         answers' \in [Clients -> SUBSET (Ids \X {"rst", "version"})],
         failed' \cup dns' \subseteq {Target[s] : s \in Ids},
         chan' \in [Clients -> Nat], syns' \in [Ids -> Nat]
  PROVE  Inv'
<1>1. Types /\ References /\ Isolation  BY DEF Inv
<1>2. Keeps  BY <1>1, SameInst
<1>3. /\ hnd' \in [Handlers -> Tunnels \cup {Idle}]
      /\ (\A g \in Handlers : Grounded(g))' /\ Isolation'
  BY <1>1, <1>2, OneHandler
<1>4. Types'  BY <1>1, <1>3 DEF Types
<1>5. References'  BY <1>1, <1>3 DEF References
<1>6. Bounded'  BY DEF Inv, Bounded
<1> QED  BY <1>3, <1>4, <1>5, <1>6 DEF Inv

(* What a grounded tunnel holds stays sound. *)
LEMMA SoundBefore ==
  ASSUME Inv, Keeps, NEW h \in Handlers, hnd[h].at # "idle"
  PROVE  /\ hnd[h] \in Tunnels
         /\ hnd[h].out \subseteq DOMAIN inst'
         /\ \A i \in hnd[h].out : inst'[i].owner = hnd[h].client
         /\ hnd[h].at \in Routing => hnd[h].frames # <<>>
<1>1. hnd[h] \in Tunnels /\ hnd[h] # Idle  BY Busy DEF Inv
<1> QED  BY <1>1 DEF Inv, References, Grounded, Isolation, Keeps

LEMMA GotoFacts ==
  ASSUME Inv, Keeps, NEW h \in Handlers, hnd[h].at # "idle",
         NEW to \in (Routing \cup Replying) \ {"deliver"},
         to \in Routing => hnd[h].at \in Routing, Goto(h, to)
  PROVE  \E r \in Tunnels : hnd' = [hnd EXCEPT ![h] = r] /\ Sound(r)
<1> DEFINE r == [hnd[h] EXCEPT !.at = to]
<1>1. /\ hnd[h] \in Tunnels
      /\ hnd[h].out \subseteq DOMAIN inst'
      /\ \A i \in hnd[h].out : inst'[i].owner = hnd[h].client
      /\ hnd[h].at \in Routing => hnd[h].frames # <<>>
  BY SoundBefore
<1>2. /\ r \in Tunnels /\ r.at = to /\ r.out = hnd[h].out
      /\ r.client = hnd[h].client /\ r.frames = hnd[h].frames
  BY <1>1 DEF Tunnels
<1>3. hnd' = [hnd EXCEPT ![h] = r]  BY DEF Goto
<1> HIDE DEF r
<1>4. Sound(r)  BY <1>1, <1>2 DEF Sound
<1> QED  BY <1>2, <1>3, <1>4

LEMMA NextFrameFacts ==
  ASSUME Inv, Keeps, NEW h \in Handlers, hnd[h].at \in Routing, NextFrame(h)
  PROVE  \E r \in Tunnels : hnd' = [hnd EXCEPT ![h] = r] /\ Sound(r)
<1> DEFINE rest == Tail(hnd[h].frames)
           to   == IF rest = <<>> THEN "capture" ELSE "route"
           r    == [hnd[h] EXCEPT !.frames = rest, !.inst = 0, !.at = to]
<1>0. hnd[h].at # "idle"  BY DEF Routing
<1>1. /\ hnd[h] \in Tunnels
      /\ hnd[h].out \subseteq DOMAIN inst'
      /\ \A i \in hnd[h].out : inst'[i].owner = hnd[h].client
      /\ hnd[h].frames # <<>>
  BY <1>0, SoundBefore
<1>2. hnd[h].frames \in Seq(Kinds)  BY <1>1 DEF Tunnels
<1>3. rest \in Seq(Kinds)  BY <1>1, <1>2, HeadTailProperties
<1>4. /\ to \in Routing \cup Replying
      /\ to \in Routing => rest # <<>> /\ to # "deliver"
      /\ to # "deliver"
  BY DEF Routing, Replying
<1>5. hnd' = [hnd EXCEPT ![h] = r]  BY DEF NextFrame
<1> HIDE DEF rest, to
<1>6. /\ r \in Tunnels /\ r.at = to /\ r.out = hnd[h].out
      /\ r.client = hnd[h].client /\ r.frames = rest
  BY <1>1, <1>3, <1>4 DEF Tunnels
<1> HIDE DEF r
<1>7. Sound(r)  BY <1>1, <1>4, <1>6 DEF Sound
<1> QED  BY <1>5, <1>6, <1>7

(* kick and activityFor keep the channels typed. *)
LEMMA ActivityType ==
  ASSUME Types, NEW c \in Clients PROVE ActivityFor(c) \in Nat \ {0}
BY FreshFacts DEF Types, ActivityFor

LEMMA InvTypes ==
  ASSUME Inv
  PROVE  /\ answers \in [Clients -> SUBSET (Ids \X {"rst", "version"})]
         /\ failed \cup dns \subseteq {Target[s] : s \in Ids}
         /\ chan \in [Clients -> Nat] /\ syns \in [Ids -> Nat] /\ Types
BY DEF Inv, Types
---------------------------------------------------------------------------
(* The handlers.                                                           *)

LEMMA ArriveStep ==
  ASSUME Inv, NEW h \in Handlers, NEW c \in Clients, NEW s \in Ids,
         NEW frames \in Requests, Arrive(h, c, s, frames)
  PROVE  Inv'
<1> DEFINE to == IF frames = <<>> THEN "capture" ELSE "route"
           r  == [at |-> to, client |-> c, id |-> s, frames |-> frames, inst |-> 0,
                  ch |-> 0, late |-> FALSE, out |-> {}]
<1>0. /\ UNCHANGED <<inst, table, victims, txReady, answers, failed, dns, chan>>
      /\ hnd' = [hnd EXCEPT ![h] = r]
      /\ syns' = [syns EXCEPT ![s] = IF Opens(frames) THEN @ + 1 ELSE @]
  BY DEF Arrive, dials, wakes
<1>1. frames \in Seq(Kinds)  BY ExitServerAssumption
<1>2. to \in Routing \cup Replying /\ (to \in Routing => frames # <<>>) /\ to # "deliver"
  BY DEF Routing, Replying
<1> HIDE DEF to
<1>3. r \in Tunnels  BY <1>1, <1>2 DEF Tunnels
<1>4. Sound(r)  BY <1>2 DEF Sound
<1> HIDE DEF r
<1>5. syns' \in [Ids -> Nat]  BY <1>0, InvTypes
<1> QED  BY <1>0, <1>3, <1>4, <1>5, InvTypes, QuietHandler

LEMMA RouteStep ==
  ASSUME Inv, NEW h \in Handlers, Route(h) PROVE Inv'
<1> DEFINE i == table[hnd[h].id]
<1>0. /\ UNCHANGED <<inst, table, victims, txReady, answers, failed, dns, chan, syns>>
      /\ hnd[h].at = "route" /\ hnd[h].at \in Routing /\ hnd[h].at # "idle"
  BY DEF Route, dials, wakes, Routing
<1>1. Keeps  BY <1>0, SameInst DEF Inv
<1>2. /\ hnd[h] \in Tunnels
      /\ hnd[h].out \subseteq DOMAIN inst'
      /\ \A j \in hnd[h].out : inst'[j].owner = hnd[h].client
      /\ hnd[h].frames # <<>>
  BY <1>0, <1>1, SoundBefore
<1>3. CASE i # 0 /\ hnd' = [hnd EXCEPT ![h] = [@ EXCEPT !.at = "deliver", !.inst = i]]
  <2> DEFINE r == [hnd[h] EXCEPT !.at = "deliver", !.inst = i]
  <2>1. hnd[h].id \in Ids  BY <1>2 DEF Tunnels
  <2>2. i \in DOMAIN inst /\ i \in Nat
    BY <1>3, <2>1, InstFacts DEF Inv, Types
  <2> HIDE DEF i
  <2>3. /\ r \in Tunnels /\ r.frames # <<>> /\ r.out = hnd[h].out
        /\ r.client = hnd[h].client /\ r.inst = i
    BY <1>2, <2>2 DEF Tunnels, Routing
  <2>4. hnd' = [hnd EXCEPT ![h] = r]  BY <1>3
  <2> HIDE DEF r
  <2>5. Sound(r)  BY <1>0, <1>2, <2>2, <2>3 DEF Sound
  <2> QED  BY <1>0, <2>3, <2>4, <2>5, InvTypes, QuietHandler
<1>4. CASE \E to \in {"resolve", "version", "rst"} : Goto(h, to)
  <2> PICK to \in {"resolve", "version", "rst"} : Goto(h, to)  BY <1>4
  <2>1. to \in (Routing \cup Replying) \ {"deliver"}  BY DEF Routing
  <2>2. PICK r \in Tunnels : hnd' = [hnd EXCEPT ![h] = r] /\ Sound(r)
    BY <1>0, <1>1, <2>1, GotoFacts
  <2> QED  BY <1>0, <2>2, InvTypes, QuietHandler
<1> QED  BY <1>3, <1>4 DEF Route

LEMMA AnswerStep ==
  ASSUME Inv, NEW h \in Handlers, QueueRst(h) \/ RstKick(h) PROVE Inv'
<1>1. CASE QueueRst(h)
  <2>0. /\ UNCHANGED <<inst, table, victims, txReady, failed, dns, chan, syns>>
        /\ hnd[h].at \in {"rst", "version"} /\ hnd[h].at \in Routing
        /\ hnd[h].at # "idle" /\ Goto(h, "rstKick")
    BY <1>1 DEF QueueRst, dials, wakes, Routing
  <2>1. Keeps  BY <2>0, SameInst DEF Inv
  <2>2. hnd[h] \in Tunnels  BY <2>0, Busy DEF Inv
  <2>3. hnd[h].client \in Clients /\ hnd[h].id \in Ids  BY <2>2 DEF Tunnels
  <2>4. answers' \in [Clients -> SUBSET (Ids \X {"rst", "version"})]
    BY <1>1, <2>0, <2>3, InvTypes DEF QueueRst
  <2>5. PICK r \in Tunnels : hnd' = [hnd EXCEPT ![h] = r] /\ Sound(r)
    BY <2>0, <2>1, GotoFacts DEF Routing
  <2> QED  BY <2>0, <2>4, <2>5, InvTypes, QuietHandler
<1>2. CASE RstKick(h)
  <2>0. /\ UNCHANGED <<inst, table, victims, txReady, answers, failed, dns, syns>>
        /\ hnd[h].at \in Routing /\ hnd[h].at # "idle" /\ NextFrame(h)
    BY <1>2 DEF RstKick, dials, Routing
  <2>1. Keeps  BY <2>0, SameInst DEF Inv
  <2>2. hnd[h] \in Tunnels  BY <2>0, Busy DEF Inv
  <2>3. hnd[h].client \in Clients  BY <2>2 DEF Tunnels
  <2>4. chan' \in [Clients -> Nat]
    BY <1>2, <2>3, InvTypes, ActivityType DEF RstKick, Kick
  <2>5. PICK r \in Tunnels : hnd' = [hnd EXCEPT ![h] = r] /\ Sound(r)
    BY <2>0, <2>1, NextFrameFacts
  <2> QED  BY <2>0, <2>4, <2>5, InvTypes, QuietHandler
<1> QED  BY <1>1, <1>2

LEMMA DialStep ==
  ASSUME Inv, NEW h \in Handlers, Resolve(h) \/ Lookup(h) \/ DialFails(h) PROVE Inv'
<1>0. /\ UNCHANGED <<inst, table, victims, txReady, answers, chan, syns>>
      /\ hnd[h].at \in Routing /\ hnd[h].at # "idle"
  BY DEF Resolve, Lookup, DialFails, wakes, Routing
<1>1. Keeps  BY <1>0, SameInst DEF Inv
<1>2. hnd[h] \in Tunnels  BY <1>0, Busy DEF Inv
<1>3. hnd[h].id \in Ids  BY <1>2 DEF Tunnels
<1>4. failed' \cup dns' \subseteq {Target[s] : s \in Ids}
  BY <1>3, InvTypes DEF Resolve, Lookup, DialFails
<1>5. PICK r \in Tunnels : hnd' = [hnd EXCEPT ![h] = r] /\ Sound(r)
  <2>1. CASE NextFrame(h)  BY <1>0, <1>1, <2>1, NextFrameFacts
  <2>2. CASE \E to \in {"dialCached", "lookup", "dial"} : Goto(h, to)
    <3> PICK to \in {"dialCached", "lookup", "dial"} : Goto(h, to)  BY <2>2
    <3>1. to \in (Routing \cup Replying) \ {"deliver"}  BY DEF Routing
    <3> QED  BY <1>0, <1>1, <3>1, GotoFacts
  <2> QED  BY <2>1, <2>2 DEF Resolve, Lookup, DialFails
<1> QED  BY <1>0, <1>4, <1>5, InvTypes, QuietHandler

LEMMA WaitStep ==
  ASSUME Inv, NEW h \in Handlers,
         Capture(h) \/ Wake(h) \/ Deadline(h) \/ Hangup(h) \/ EmptyReply(h)
  PROVE  Inv'
<1>0. /\ UNCHANGED <<inst, table, victims, txReady, answers, failed, dns, syns>>
      /\ hnd[h].at \in Replying /\ hnd[h].at # "idle"
  BY DEF Capture, Wake, Deadline, Hangup, EmptyReply, dials, Replying
<1>1. Keeps  BY <1>0, SameInst DEF Inv
<1>2. /\ hnd[h] \in Tunnels
      /\ hnd[h].out \subseteq DOMAIN inst'
      /\ \A j \in hnd[h].out : inst'[j].owner = hnd[h].client
  BY <1>0, <1>1, SoundBefore
<1>3. hnd[h].client \in Clients  BY <1>2 DEF Tunnels
<1>4. CASE Capture(h)
  <2> DEFINE ch == ActivityFor(hnd[h].client)
             r  == [hnd[h] EXCEPT !.at = "drain", !.ch = ch]
  <2>1. ch \in Nat  BY <1>3, InvTypes, ActivityType
  <2>2. chan' \in [Clients -> Nat]  BY <1>3, <1>4, <2>1, InvTypes DEF Capture
  <2>3. hnd' = [hnd EXCEPT ![h] = r]  BY <1>4 DEF Capture
  <2> HIDE DEF ch
  <2>4. r \in Tunnels /\ r.at = "drain" /\ r.out = hnd[h].out /\ r.client = hnd[h].client
    BY <1>2, <2>1 DEF Tunnels, Replying
  <2> HIDE DEF r
  <2>5. Sound(r)  BY <1>2, <2>4 DEF Sound, Routing
  <2> QED  BY <1>0, <2>2, <2>3, <2>4, <2>5, InvTypes, QuietHandler
<1>5. CASE Wake(h)
  <2>1. chan' = chan /\ Goto(h, "drain")  BY <1>5 DEF Wake
  <2>2. PICK r \in Tunnels : hnd' = [hnd EXCEPT ![h] = r] /\ Sound(r)
    BY <1>0, <1>1, <2>1, GotoFacts DEF Routing, Replying
  <2> QED  BY <1>0, <2>1, <2>2, InvTypes, QuietHandler
<1>6. CASE Deadline(h)
  <2> DEFINE r == [hnd[h] EXCEPT !.at = "drain", !.late = TRUE]
  <2>1. hnd' = [hnd EXCEPT ![h] = r] /\ chan' = chan  BY <1>6 DEF Deadline, wakes
  <2>2. r \in Tunnels /\ r.at = "drain" /\ r.out = hnd[h].out /\ r.client = hnd[h].client
    BY <1>2 DEF Tunnels, Replying
  <2> HIDE DEF r
  <2>3. Sound(r)  BY <1>2, <2>2 DEF Sound, Routing
  <2> QED  BY <1>0, <2>1, <2>2, <2>3, InvTypes, QuietHandler
<1>7. CASE Hangup(h) \/ EmptyReply(h)
  <2>1. hnd' = [hnd EXCEPT ![h] = Idle] /\ chan' = chan
    BY <1>7 DEF Hangup, EmptyReply, wakes
  <2>2. Idle \notin Tunnels  BY TunnelIsBusy
  <2> QED  BY <1>0, <2>1, <2>2, InvTypes, QuietHandler
<1> QED  BY <1>4, <1>5, <1>6, <1>7
(* openSession: the new instance comes last and takes over its ID. *)
LEMMA OpenStep ==
  ASSUME Inv, NEW h \in Handlers, Open(h) PROVE Inv'
<1> DEFINE i == Len(inst) + 1
           new == [id |-> hnd[h].id, owner |-> hnd[h].client, tx |-> NewTx(FALSE),
                   reads |-> 0, rx |-> "open", up |-> "open", pump |-> "read"]
           r == [hnd[h] EXCEPT !.at = "deliver", !.inst = i]
<1>0. /\ UNCHANGED <<txReady, answers, dns, chan, victims, syns>>
      /\ hnd[h].at \in Routing /\ hnd[h].at # "idle"
      /\ inst' = Append(inst, new)
      /\ table' = [table EXCEPT ![hnd[h].id] = i]
      /\ failed' = failed \ {Target[hnd[h].id]}
      /\ hnd' = [hnd EXCEPT ![h] = r]
  BY DEF Open, wakes, Routing
<1>1. Types /\ References /\ Isolation /\ Bounded  BY DEF Inv
<1>2. hnd[h] \in Tunnels  BY <1>0, <1>1, Busy
<1>3. hnd[h].client \in Clients /\ hnd[h].id \in Ids  BY <1>2 DEF Tunnels
<1>4. NewTx(FALSE) \in TxState /\ Len(NewTx(FALSE).txBuf) = 0
  <2>1. <<>> \in Seq({0}) /\ Len(<<>>) = 0  OBVIOUS
  <2> QED  BY <2>1 DEF NewTx, TxState
<1>5. new \in Insts  BY <1>3, <1>4 DEF Insts, PumpStates
<1>6. inst \in Seq(Insts) /\ Len(inst) \in Nat /\ DOMAIN inst = 1..Len(inst)
  BY <1>1, InstFacts DEF Types
<1> HIDE DEF new
<1>7. /\ inst' \in Seq(Insts) /\ Len(inst') = i /\ inst'[i] = new
      /\ \A j \in 1..Len(inst) : inst'[j] = inst[j]
  BY <1>0, <1>5, <1>6, AppendProperties
<1>8. DOMAIN inst' = 1..i  BY <1>7, LenProperties
<1>9. Keeps  BY <1>6, <1>7, <1>8 DEF Keeps
<1>10. r \in Tunnels /\ Sound(r)
  <2>1. /\ hnd[h].out \subseteq DOMAIN inst'
        /\ \A j \in hnd[h].out : inst'[j].owner = hnd[h].client
        /\ hnd[h].frames # <<>>
    BY <1>0, <1>9, SoundBefore
  <2>2. i \in Nat /\ i \in DOMAIN inst'  BY <1>6, <1>8
  <2> HIDE DEF i
  <2>3. /\ r \in Tunnels /\ r.frames # <<>> /\ r.out = hnd[h].out
        /\ r.client = hnd[h].client /\ r.inst = i
    BY <1>2, <2>1, <2>2 DEF Tunnels, Routing
  <2> HIDE DEF r
  <2>4. Sound(r)  BY <2>1, <2>2, <2>3 DEF Sound
  <2> QED  BY <2>3, <2>4
<1> HIDE DEF r
<1>11. /\ hnd' \in [Handlers -> Tunnels \cup {Idle}]
       /\ (\A g \in Handlers : Grounded(g))' /\ Isolation'
  BY <1>0, <1>1, <1>9, <1>10, OneHandler
<1>12. table' \in [Ids -> 0..Len(inst')]
  BY <1>0, <1>1, <1>3, <1>6, <1>7 DEF Types
<1>13. ASSUME NEW s \in Ids, table'[s] # 0 PROVE inst'[table'[s]].id = s
  <2>1. CASE s = hnd[h].id
    BY <1>0, <1>1, <1>7, <2>1 DEF Types, new
  <2>2. CASE s # hnd[h].id
    <3>1. table'[s] = table[s] /\ table[s] \in 0..Len(inst)  BY <1>0, <1>1, <2>2 DEF Types
    <3>2. table[s] \in 1..Len(inst)  BY <1>6, <1>13, <3>1
    <3> QED  BY <1>1, <1>7, <1>13, <3>1, <3>2 DEF References
  <2> QED  BY <2>1, <2>2
<1>14. Types'
  <2>1. victims' \subseteq DOMAIN inst'  BY <1>0, <1>1, <1>6, <1>8 DEF Types
  <2>2. failed' \cup dns' \subseteq {Target[s] : s \in Ids}  BY <1>0, <1>1 DEF Types
  <2> QED  BY <1>0, <1>1, <1>7, <1>11, <1>12, <2>1, <2>2 DEF Types
<1>15. References'  BY <1>11, <1>13 DEF References
<1>16. Bounded'
  <2> SUFFICES ASSUME NEW j \in DOMAIN inst' PROVE Len(inst'[j].tx.txBuf) <= HighWater + 1
    BY DEF Bounded
  <2>0. HighWater \in Nat  BY ExitServerAssumption
  <2>1. CASE j = i
    <3>1. new.tx = NewTx(FALSE)  BY Zenon DEF new
    <3>2. inst'[j] = new  BY <1>7, <2>1
    <3>3. Len(inst'[j].tx.txBuf) = 0  BY <1>4, <3>1, <3>2, Zenon
    <3> QED  BY <2>0, <3>3
  <2>2. CASE j # i
    <3>1. j \in DOMAIN inst /\ inst'[j] = inst[j]  BY <1>6, <1>7, <1>8, <2>2
    <3> QED  BY <1>1, <3>1 DEF Bounded
  <2> QED  BY <2>1, <2>2
<1> QED  BY <1>11, <1>14, <1>15, <1>16 DEF Inv

(* One instance changes what it is doing: its buffer stays within the mark. *)
LEMMA OneInstStep ==
  ASSUME Inv, NEW i \in DOMAIN inst, NEW r \in Insts,
         r.id = inst[i].id, r.owner = inst[i].owner,
         Len(r.tx.txBuf) <= HighWater + 1,
         inst' = [inst EXCEPT ![i] = r],
         UNCHANGED <<table, answers, failed, dns, syns>>,
         txReady' \subseteq Ids, chan' \in [Clients -> Nat], victims' \subseteq victims,
         \/ hnd' = hnd
         \/ \E h \in Handlers, q \in Tunnels : hnd' = [hnd EXCEPT ![h] = q] /\ Sound(q)
  PROVE  Inv'
<1>1. Types /\ References /\ Isolation /\ Bounded  BY DEF Inv
<1>2. /\ Keeps /\ Len(inst') = Len(inst) /\ DOMAIN inst' = DOMAIN inst
      /\ inst'[i] = r
      /\ \A j \in DOMAIN inst : j # i => inst'[j] = inst[j]
  BY <1>1, OneInst
<1>3. /\ hnd' \in [Handlers -> Tunnels \cup {Idle}]
      /\ (\A g \in Handlers : Grounded(g))' /\ Isolation'
  <2>1. CASE hnd' = hnd  BY <1>1, <1>2, <2>1, NoHandler
  <2>2. CASE \E h \in Handlers, q \in Tunnels : hnd' = [hnd EXCEPT ![h] = q] /\ Sound(q)
    <3> PICK h \in Handlers, q \in Tunnels : hnd' = [hnd EXCEPT ![h] = q] /\ Sound(q)
      BY <2>2
    <3> QED  BY <1>1, <1>2, OneHandler
  <2> QED  BY <2>1, <2>2
<1>4. /\ table' \in [Ids -> 0..Len(inst')]
      /\ (\A s \in Ids : table[s] # 0 => inst[table[s]].id = s)'
  <2>1. table' \in [Ids -> Nat]  BY <1>1, InstFacts DEF Types
  <2> QED  BY <1>1, <1>2, <2>1, TableShrinks
<1>5. Types'  BY <1>1, <1>2, <1>3, <1>4 DEF Types, Keeps
<1>6. References'  BY <1>3, <1>4 DEF References
<1>7. Bounded'  BY <1>1, <1>2 DEF Bounded
<1> QED  BY <1>3, <1>5, <1>6, <1>7 DEF Inv

LEMMA InstOf ==
  ASSUME Inv, NEW i \in DOMAIN inst
  PROVE  inst[i] \in Insts /\ inst[i].tx \in TxState /\ Len(inst[i].tx.txBuf) <= HighWater + 1
<1>1. inst[i] \in Insts  BY InstFacts DEF Inv
<1> QED  BY <1>1 DEF Insts, Inv, Bounded

LEMMA DeliverStep ==
  ASSUME Inv, NEW h \in Handlers, Deliver(h) PROVE Inv'
<1> DEFINE i == hnd[h].inst
<1>0. /\ UNCHANGED <<table, txReady, answers, failed, dns, chan, victims, syns>>
      /\ hnd[h].at \in Routing /\ NextFrame(h)
  BY DEF Deliver, dials, wakes, Routing
<1>1. i \in DOMAIN inst  BY DEF Inv, References, Grounded, Deliver
<1>2. \E x \in {"open", "stopped", "closed"} : inst' = [inst EXCEPT ![i].rx = x]
  <2>1. CASE inst' = inst
    <3>1. inst[i].rx \in {"open", "stopped", "closed"}  BY <1>1, InstOf DEF Insts
    <3>2. inst = [inst EXCEPT ![i].rx = inst[i].rx]
      <4> DEFINE r == [inst[i] EXCEPT !.rx = inst[i].rx]
      <4>1. r = inst[i]  BY <1>1, InstOf DEF Insts
      <4>2. inst \in [1..Len(inst) -> Insts] /\ i \in 1..Len(inst)
        BY <1>1, InstFacts, LenProperties DEF Inv, Types
      <4> HIDE DEF r
      <4>3. inst = [inst EXCEPT ![i] = r]  BY <4>1, <4>2
      <4> QED  BY <4>3 DEF r
    <3> QED  BY <2>1, <3>1, <3>2
  <2> QED  BY <2>1 DEF Deliver
<1>3. PICK x \in {"open", "stopped", "closed"} : inst' = [inst EXCEPT ![i].rx = x]
  BY <1>2
<1> DEFINE r == [inst[i] EXCEPT !.rx = x]
<1>4. /\ r \in Insts /\ r.id = inst[i].id /\ r.owner = inst[i].owner
      /\ r.tx = inst[i].tx
  BY <1>1, InstOf DEF Insts
<1>5. inst' = [inst EXCEPT ![i] = r]  BY <1>3
<1> HIDE DEF r
<1>6. Len(r.tx.txBuf) <= HighWater + 1  BY <1>1, <1>4, InstOf
<1>7. Keeps  BY <1>1, <1>4, <1>5, OneInst DEF Inv
<1>8. PICK q \in Tunnels : hnd' = [hnd EXCEPT ![h] = q] /\ Sound(q)
  BY <1>0, <1>7, NextFrameFacts
<1>9. txReady \subseteq Ids /\ chan \in [Clients -> Nat]  BY DEF Inv, Types
<1> HIDE DEF i
<1> QED  BY <1>0, <1>1, <1>4, <1>5, <1>6, <1>8, <1>9, OneInstStep
(* Of an instance, what only its own goroutines change. *)
SameButTx(a, b) ==
  /\ a.id = b.id /\ a.owner = b.owner /\ a.rx = b.rx /\ a.up = b.up /\ a.pump = b.pump
  /\ a.reads = b.reads

(* drainAll shortens the buffers of the sessions it visits, which are its  *)
(* client's, and touches nothing else of the instances.                    *)
LEMMA DrainAllFacts ==
  ASSUME Inv, NEW h \in Handlers, DrainAll(h), hnd[h].at \in {"drain", "reply"}
  PROVE  \E visited \in SUBSET Drainable(hnd[h].client) :
           /\ inst' \in Seq(Insts) /\ Len(inst') = Len(inst) /\ DOMAIN inst' = DOMAIN inst
           /\ \A i \in DOMAIN inst : SameButTx(inst'[i], inst[i])
           /\ \A i \in DOMAIN inst : Len(inst'[i].tx.txBuf) <= HighWater + 1
           /\ \A i \in DOMAIN inst :
                ~(Registered(i) /\ inst[i].id \in visited) => inst'[i] = inst[i]
           /\ txReady' = StillReady(visited, inst')
           /\ answers' = [answers EXCEPT ![hnd[h].client] = {}]
           /\ \E r \in Tunnels : /\ hnd' = [hnd EXCEPT ![h] = r] /\ Sound(r)
                                 /\ r.at \in Replying /\ r.frames = hnd[h].frames
                                 /\ r.client = hnd[h].client /\ r.ch = hnd[h].ch
                                 /\ r.at \in {"wait", "reply", "end"}
<1> DEFINE c == hnd[h].client
<1>1. PICK visited \in SUBSET Drainable(c), last \in Drainable(c) \cup {0},
           cap \in 1..PerSession :
        LET own(i)   == Registered(i) /\ inst[i].id \in visited
            limit(i) == IF inst[i].id = last THEN cap ELSE PerSession
            carried  == {i \in DOMAIN inst : own(i) /\ HasPendingTx(inst[i].tx)}
            drained  == [i \in DOMAIN inst |->
                           IF own(i)
                           THEN [inst[i] EXCEPT !.tx = DrainTx(@, 1, limit(i)).sess]
                           ELSE inst[i]]
            empty    == carried = {} /\ answers[c] = {}
        IN  /\ visited = {} => Drainable(c) = {}
            /\ IF Cardinality(visited) > 1 THEN last \in visited ELSE last = 0 /\ cap = 1
            /\ inst' = drained
            /\ txReady' = StillReady(visited, drained)
            /\ answers' = [answers EXCEPT ![c] = {}]
            /\ hnd' = [hnd EXCEPT ![h] =
                         [@ EXCEPT !.out = hnd[h].out \cup carried,
                                   !.at = IF ~empty \/ hnd[h].at = "reply" THEN "reply"
                                          ELSE IF hnd[h].late THEN "end" ELSE "wait"]]
  BY Zenon DEF DrainAll
<1> DEFINE own(i)   == Registered(i) /\ inst[i].id \in visited
           limit(i) == IF inst[i].id = last THEN cap ELSE PerSession
           carried  == {i \in DOMAIN inst : own(i) /\ HasPendingTx(inst[i].tx)}
           d(i)     == DrainTx(inst[i].tx, 1, limit(i)).sess
           drained  == [i \in DOMAIN inst |->
                          IF own(i) THEN [inst[i] EXCEPT !.tx = d(i)] ELSE inst[i]]
           empty    == carried = {} /\ answers[c] = {}
           to       == IF ~empty \/ hnd[h].at = "reply" THEN "reply"
                       ELSE IF hnd[h].late THEN "end" ELSE "wait"
           r        == [hnd[h] EXCEPT !.out = hnd[h].out \cup carried, !.at = to]
<1>2. /\ inst' = drained /\ txReady' = StillReady(visited, drained)
      /\ answers' = [answers EXCEPT ![c] = {}] /\ hnd' = [hnd EXCEPT ![h] = r]
  <2>1. inst' = drained  BY <1>1, Zenon
  <2>2. txReady' = StillReady(visited, drained)  BY <1>1, Zenon
  <2>3. answers' = [answers EXCEPT ![c] = {}]  BY <1>1, Zenon
  <2>4. hnd' = [hnd EXCEPT ![h] = r]  BY <1>1, Zenon
  <2> QED  BY <2>1, <2>2, <2>3, <2>4, Zenon
<1>3. \A i \in DOMAIN inst : limit(i) \in Nat \ {0}
  <2>1. PerSession \in Nat \ {0} /\ cap \in Nat \ {0}  BY ExitServerAssumption
  <2> QED  BY <2>1
<1> HIDE DEF limit
<1>4. \A i \in DOMAIN inst : d(i) \in TxState /\ Len(d(i).txBuf) <= Len(inst[i].tx.txBuf)
  BY <1>3, InstOf, DrainSess
<1>5. ASSUME NEW i \in DOMAIN inst
      PROVE  /\ drained[i] \in Insts /\ SameButTx(drained[i], inst[i])
             /\ Len(drained[i].tx.txBuf) <= HighWater + 1
             /\ ~own(i) => drained[i] = inst[i]
  <2>0. inst[i] \in Insts /\ Len(inst[i].tx.txBuf) <= HighWater + 1  BY InstOf
  <2>1. CASE own(i)
    <3>1. drained[i] = [inst[i] EXCEPT !.tx = d(i)]  BY <2>1
    <3>2. d(i) \in TxState /\ Len(d(i).txBuf) <= Len(inst[i].tx.txBuf)  BY <1>4
    <3> HIDE DEF drained, d, own
    <3>3. /\ drained[i] \in Insts /\ SameButTx(drained[i], inst[i])
          /\ drained[i].tx = d(i)
      BY <2>0, <3>1, <3>2 DEF Insts, SameButTx
    <3>4. Len(d(i).txBuf) \in Nat /\ Len(inst[i].tx.txBuf) \in Nat
      BY <2>0, <3>2, LenProperties DEF Insts, TxState
    <3>5. HighWater \in Nat  BY ExitServerAssumption
    <3>6. Len(drained[i].tx.txBuf) <= HighWater + 1  BY <2>0, <3>2, <3>3, <3>4, <3>5
    <3> QED  BY <2>1, <3>3, <3>6
  <2>2. CASE ~own(i)
    <3>1. drained[i] = inst[i]  BY <2>2
    <3> QED  BY <2>0, <3>1 DEF SameButTx
  <2> QED  BY <2>1, <2>2
<1>6. drained \in Seq(Insts) /\ Len(drained) = Len(inst) /\ DOMAIN drained = DOMAIN inst
  <2>1. DOMAIN inst = 1..Len(inst) /\ Len(inst) \in Nat  BY InstFacts DEF Inv
  <2>2. drained \in [1..Len(inst) -> Insts]  BY <1>5, <2>1
  <2> HIDE DEF drained
  <2> QED  BY <2>1, <2>2, FunctionIsSeq
<1>7. Keeps
  BY <1>2, <1>5, <1>6 DEF Keeps, SameButTx
<1>8. /\ hnd[h] \in Tunnels /\ hnd[h].out \subseteq DOMAIN inst'
      /\ \A i \in hnd[h].out : inst'[i].owner = c
  BY <1>7, SoundBefore
<1>9. \A i \in carried : i \in DOMAIN inst' /\ inst'[i].owner = c
  <2> SUFFICES ASSUME NEW i \in carried PROVE i \in DOMAIN inst' /\ inst'[i].owner = c
    OBVIOUS
  <2>1. i \in DOMAIN inst /\ table[inst[i].id] = i /\ inst[i].id \in Drainable(c)
    BY DEF Registered
  <2>2. inst[i].owner = c  BY <2>1 DEF Drainable
  <2> QED  BY <1>7, <2>1, <2>2 DEF Keeps
<1>10. to \in {"wait", "reply", "end"} /\ to \in Replying /\ to \notin Routing
  BY DEF Replying, Routing
<1>11. carried \subseteq Nat  BY InstFacts DEF Inv
<1> HIDE DEF carried, to, drained
<1>12. /\ r \in Tunnels /\ r.at = to /\ r.out = hnd[h].out \cup carried
       /\ r.client = c /\ r.frames = hnd[h].frames /\ r.ch = hnd[h].ch
  BY <1>8, <1>10, <1>11 DEF Tunnels
<1> HIDE DEF r
<1>13. Sound(r)  BY <1>8, <1>9, <1>10, <1>12 DEF Sound, Routing
<1>14. \A i \in DOMAIN inst :
         /\ SameButTx(inst'[i], inst[i])
         /\ Len(inst'[i].tx.txBuf) <= HighWater + 1
         /\ ~(Registered(i) /\ inst[i].id \in visited) => inst'[i] = inst[i]
  BY <1>2, <1>5
<1>15. \E q \in Tunnels : /\ hnd' = [hnd EXCEPT ![h] = q] /\ Sound(q)
                          /\ q.at \in Replying /\ q.frames = hnd[h].frames
                          /\ q.client = hnd[h].client /\ q.ch = hnd[h].ch
                          /\ q.at \in {"wait", "reply", "end"}
  BY <1>2, <1>10, <1>12, <1>13
<1> HIDE DEF c
<1>16. visited \in SUBSET Drainable(hnd[h].client)  BY DEF c
<1>17. answers' = [answers EXCEPT ![hnd[h].client] = {}]  BY <1>2 DEF c
<1> QED  BY <1>2, <1>6, <1>14, <1>15, <1>16, <1>17

LEMMA DrainStep ==
  ASSUME Inv, NEW h \in Handlers, Drain(h) \/ Coalesce(h) PROVE Inv'
<1>0. /\ UNCHANGED <<table, failed, dns, chan, victims, syns>>
      /\ hnd[h].at \in {"drain", "reply"} /\ DrainAll(h)
  BY DEF Drain, Coalesce, dials, wakes
<1>1. PICK visited \in SUBSET Drainable(hnd[h].client) :
           /\ inst' \in Seq(Insts) /\ Len(inst') = Len(inst) /\ DOMAIN inst' = DOMAIN inst
           /\ \A i \in DOMAIN inst : SameButTx(inst'[i], inst[i])
           /\ \A i \in DOMAIN inst : Len(inst'[i].tx.txBuf) <= HighWater + 1
           /\ txReady' = StillReady(visited, inst')
           /\ answers' = [answers EXCEPT ![hnd[h].client] = {}]
           /\ \E r \in Tunnels : hnd' = [hnd EXCEPT ![h] = r] /\ Sound(r)
  BY <1>0, DrainAllFacts
<1>2. Types /\ References /\ Isolation  BY DEF Inv
<1>3. Keeps  BY <1>1 DEF Keeps, SameButTx
<1>4. PICK r \in Tunnels : hnd' = [hnd EXCEPT ![h] = r] /\ Sound(r)  BY <1>1
<1>5. /\ hnd' \in [Handlers -> Tunnels \cup {Idle}]
      /\ (\A g \in Handlers : Grounded(g))' /\ Isolation'
  BY <1>2, <1>3, <1>4, OneHandler
<1>6. hnd[h].client \in Clients
  <2>1. hnd[h] \in Tunnels  BY <1>0, <1>2, Busy
  <2> QED  BY <2>1 DEF Tunnels
<1>7. answers' \in [Clients -> SUBSET (Ids \X {"rst", "version"})]
  BY <1>1, <1>2, <1>6 DEF Types
<1>8. /\ table' \in [Ids -> 0..Len(inst')]
      /\ (\A s \in Ids : table[s] # 0 => inst[table[s]].id = s)'
  <2>1. table' \in [Ids -> Nat]  BY <1>0, <1>2, InstFacts DEF Types
  <2> QED  BY <1>0, <1>2, <1>3, <2>1, TableShrinks
<1>9. txReady' \subseteq Ids  BY <1>1, <1>2 DEF Types, StillReady
<1>10. Types'  BY <1>0, <1>1, <1>2, <1>5, <1>7, <1>8, <1>9 DEF Types
<1>11. References'  BY <1>5, <1>8 DEF References
<1>12. Bounded'  BY <1>1 DEF Bounded
<1> QED  BY <1>5, <1>10, <1>11, <1>12 DEF Inv
---------------------------------------------------------------------------
(* The pumps.                                                              *)

Marking == {"mark", "markFin"}

(* What a step of its own goroutines makes of instance i: the identity is  *)
(* kept, the buffer stays within the mark, whoever adds to the buffer goes *)
(* on to mark the session, and a connection stays in reach.                *)
Turn(i, r) ==
  /\ inst' = [inst EXCEPT ![i] = r]
  /\ r.id = inst[i].id /\ r.owner = inst[i].owner
  /\ Len(r.tx.txBuf) <= HighWater + 1
  /\ r.tx = inst[i].tx \/ r.pump \in Marking
  /\ inst[i].pump \in Marking => r.pump \in Marking \/ inst[i].id \in txReady'
  /\ r.up = "open" => /\ inst[i].up = "open"
                      /\ inst[i].rx # "open" => r.rx # "open"
                      /\ i \in victims => i \in victims'

Frames ==
  /\ UNCHANGED <<table, answers, failed, dns, hnd, syns>>
  /\ txReady \subseteq txReady' /\ txReady' \subseteq Ids
  /\ chan' \in [Clients -> Nat] /\ victims' \subseteq victims

LEMMA PumpTurn ==
  ASSUME Inv, NEW i \in DOMAIN inst, Pumps(i)
  PROVE  /\ Frames
         /\ \A j \in victims : j # i => j \in victims'
         /\ \E r \in Insts : Turn(i, r)
<1>0. /\ inst[i] \in Insts /\ inst[i].tx \in TxState
      /\ Len(inst[i].tx.txBuf) <= HighWater + 1
  BY InstOf
<1>1. txReady \subseteq Ids /\ chan \in [Clients -> Nat]  BY DEF Inv, Types
<1>2. inst[i].id \in Ids /\ inst[i].owner \in Clients  BY <1>0 DEF Insts
<1>3. CASE ReadData(i)
  <2> DEFINE n == inst[i].reads + 1
             r == [inst[i] EXCEPT !.reads = n, !.pump = "enqueue"]
  <2>0. n \in Nat  BY <1>0 DEF Insts
  <2>2. inst' = [inst EXCEPT ![i] = r] /\ inst[i].pump = "read"  BY <1>3 DEF ReadData
  <2> HIDE DEF n
  <2>1. /\ r \in Insts /\ r.id = inst[i].id /\ r.owner = inst[i].owner
        /\ r.tx = inst[i].tx /\ r.up = inst[i].up /\ r.rx = inst[i].rx
    BY <1>0, <2>0 DEF Insts, PumpStates
  <2> HIDE DEF r
  <2>3. Frames /\ victims' = victims  BY <1>1, <1>3 DEF ReadData, Frames, dials, wakes
  <2>4. Turn(i, r)  BY <1>0, <2>1, <2>2, <2>3 DEF Turn, Marking
  <2> QED  BY <2>1, <2>3, <2>4
<1>4. CASE Enqueue(i)
  <2> DEFINE e == EnqueueTx(inst[i].tx, <<0>>)
             r == [inst[i] EXCEPT !.tx = e, !.pump = "mark"]
  <2>1. e \in TxState /\ Len(e.txBuf) <= HighWater + 1
    <3>1. /\ e \in TxState
          /\ ~inst[i].tx.closeReq => Len(e.txBuf) = Len(inst[i].tx.txBuf) + 1
          /\ inst[i].tx.closeReq => e = inst[i].tx
      BY <1>0, TxOpFacts
    <3> HIDE DEF e
    <3>2. Len(inst[i].tx.txBuf) <= HighWater \/ inst[i].tx.closeReq
      <4>1. Len(inst[i].tx.txBuf) \in Nat  BY <1>0, LenProperties DEF TxState
      <4>2. HighWater \in Nat  BY ExitServerAssumption
      <4> QED  BY <1>4, <4>1, <4>2 DEF Enqueue, TxBlocked
    <3>3. Len(inst[i].tx.txBuf) \in Nat /\ HighWater \in Nat
      BY <1>0, LenProperties, ExitServerAssumption DEF TxState
    <3> QED  BY <1>0, <3>1, <3>2, <3>3
  <2>2. inst' = [inst EXCEPT ![i] = r] /\ inst[i].pump = "enqueue"  BY <1>4 DEF Enqueue
  <2> HIDE DEF e
  <2>3. /\ r \in Insts /\ r.id = inst[i].id /\ r.owner = inst[i].owner
        /\ r.tx = e /\ r.pump = "mark" /\ r.up = inst[i].up /\ r.rx = inst[i].rx
    BY <1>0, <2>1 DEF Insts, PumpStates
  <2> HIDE DEF r
  <2>4. Frames /\ victims' = victims  BY <1>1, <1>4 DEF Enqueue, Frames, dials, wakes
  <2>5. Turn(i, r)  BY <2>1, <2>2, <2>3, <2>4 DEF Turn, Marking
  <2> QED  BY <2>3, <2>4, <2>5
<1>5. CASE ReadEnd(i)
  <2> DEFINE e == RequestClose(inst[i].tx)
             r == [inst[i] EXCEPT !.tx = e, !.pump = "markFin"]
  <2>1. e \in TxState /\ e.txBuf = inst[i].tx.txBuf  BY <1>0, TxOpFacts
  <2>2. inst' = [inst EXCEPT ![i] = r] /\ inst[i].pump = "read"  BY <1>5 DEF ReadEnd
  <2> HIDE DEF e
  <2>3. /\ r \in Insts /\ r.id = inst[i].id /\ r.owner = inst[i].owner
        /\ r.tx = e /\ r.pump = "markFin" /\ r.up = inst[i].up /\ r.rx = inst[i].rx
    BY <1>0, <2>1 DEF Insts, PumpStates
  <2> HIDE DEF r
  <2>4. Frames /\ victims' = victims  BY <1>1, <1>5 DEF ReadEnd, Frames, dials, wakes
  <2>5. Turn(i, r)  BY <1>0, <2>1, <2>2, <2>3, <2>4 DEF Turn, Marking
  <2> QED  BY <2>3, <2>4, <2>5
<1>6. CASE Mark(i)
  <2> DEFINE to == IF inst[i].pump = "mark" THEN "kick" ELSE "kickFin"
             r  == [inst[i] EXCEPT !.pump = to]
  <2>1. inst' = [inst EXCEPT ![i] = r]  BY <1>6 DEF Mark
  <2>2. to \in PumpStates  BY DEF PumpStates
  <2> HIDE DEF to
  <2>3. /\ r \in Insts /\ r.id = inst[i].id /\ r.owner = inst[i].owner
        /\ r.tx = inst[i].tx /\ r.up = inst[i].up /\ r.rx = inst[i].rx
    BY <1>0, <2>2 DEF Insts
  <2> HIDE DEF r
  <2>4. Frames /\ victims' = victims /\ inst[i].id \in txReady'
    BY <1>1, <1>2, <1>6 DEF Mark, Frames, dials, wakes
  <2>5. Turn(i, r)  BY <1>0, <2>1, <2>3, <2>4 DEF Turn
  <2> QED  BY <2>3, <2>4, <2>5
<1>7. CASE KickOwner(i)
  <2> DEFINE to == IF inst[i].pump = "kick" THEN "read" ELSE "stop"
             r  == [inst[i] EXCEPT !.pump = to]
  <2>1. inst' = [inst EXCEPT ![i] = r] /\ inst[i].pump \in {"kick", "kickFin"}
    BY <1>7 DEF KickOwner
  <2>2. to \in PumpStates  BY DEF PumpStates
  <2> HIDE DEF to
  <2>3. /\ r \in Insts /\ r.id = inst[i].id /\ r.owner = inst[i].owner
        /\ r.tx = inst[i].tx /\ r.up = inst[i].up /\ r.rx = inst[i].rx
    BY <1>0, <2>2 DEF Insts
  <2> HIDE DEF r
  <2>4. chan' \in [Clients -> Nat]
    BY <1>1, <1>2, <1>7, InvTypes, ActivityType DEF KickOwner, Kick
  <2>5. Frames /\ victims' = victims  BY <1>1, <1>7, <2>4 DEF KickOwner, Frames, dials
  <2>6. Turn(i, r)  BY <1>0, <2>1, <2>3, <2>5 DEF Turn, Marking
  <2> QED  BY <2>3, <2>5, <2>6
<1>8. CASE ReadPumpEnds(i)
  <2> DEFINE to == IF inst[i].rx = "open" THEN "stopped" ELSE inst[i].rx
             r  == [[inst[i] EXCEPT !.rx = to] EXCEPT !.up = "closed", !.pump = "done"]
  <2>1. inst' = [inst EXCEPT ![i] = r] /\ inst[i].pump = "stop"
    BY <1>8 DEF ReadPumpEnds, Stop
  <2>2. to \in {"open", "stopped", "closed"}  BY <1>0 DEF Insts
  <2> HIDE DEF to
  <2>3. /\ r \in Insts /\ r.id = inst[i].id /\ r.owner = inst[i].owner
        /\ r.tx = inst[i].tx /\ r.up = "closed"
    BY <1>0, <2>2 DEF Insts, PumpStates
  <2> HIDE DEF r
  <2>4. Frames /\ victims' = victims  BY <1>1, <1>8 DEF ReadPumpEnds, Frames, dials, wakes
  <2>5. Turn(i, r)  BY <1>0, <2>1, <2>3, <2>4 DEF Turn, Marking
  <2> QED  BY <2>3, <2>4, <2>5
<1>9. CASE WritePumpEnds(i)
  <2> DEFINE r == [inst[i] EXCEPT !.up = "closed"]
  <2>1. inst' = [inst EXCEPT ![i] = r]  BY <1>9 DEF WritePumpEnds
  <2>2. /\ r \in Insts /\ r.id = inst[i].id /\ r.owner = inst[i].owner
        /\ r.tx = inst[i].tx /\ r.up = "closed" /\ r.pump = inst[i].pump
    BY <1>0 DEF Insts
  <2> HIDE DEF r
  <2>3. Frames /\ victims' = victims  BY <1>1, <1>9 DEF WritePumpEnds, Frames, dials, wakes
  <2>4. Turn(i, r)  BY <1>0, <2>1, <2>2, <2>3 DEF Turn
  <2> QED  BY <2>2, <2>3, <2>4
<1>10. CASE RxLoopEnds(i)
  <2> DEFINE r == [inst[i] EXCEPT !.rx = "closed"]
  <2>1. inst' = [inst EXCEPT ![i] = r]  BY <1>10 DEF RxLoopEnds
  <2>2. /\ r \in Insts /\ r.id = inst[i].id /\ r.owner = inst[i].owner
        /\ r.tx = inst[i].tx /\ r.up = inst[i].up /\ r.rx = "closed"
        /\ r.pump = inst[i].pump
    BY <1>0 DEF Insts
  <2> HIDE DEF r
  <2>3. Frames /\ victims' = victims  BY <1>1, <1>10 DEF RxLoopEnds, Frames, dials, wakes
  <2>4. Turn(i, r)  BY <1>0, <2>1, <2>2, <2>3 DEF Turn
  <2> QED  BY <2>2, <2>3, <2>4
<1>11. CASE IdleClose(i)
  <2> DEFINE r == [inst[i] EXCEPT !.up = "closed", !.rx = "closed"]
  <2>1. inst' = [inst EXCEPT ![i] = r]  BY <1>11 DEF IdleClose
  <2>2. /\ r \in Insts /\ r.id = inst[i].id /\ r.owner = inst[i].owner
        /\ r.tx = inst[i].tx /\ r.up = "closed" /\ r.pump = inst[i].pump
    BY <1>0 DEF Insts
  <2> HIDE DEF r
  <2>3. Frames /\ victims' = victims \ {i}
    BY <1>1, <1>11 DEF IdleClose, Frames, dials, wakes
  <2>4. Turn(i, r)  BY <1>0, <2>1, <2>2, <2>3 DEF Turn
  <2> QED  BY <2>2, <2>3, <2>4
<1> QED  BY <1>3, <1>4, <1>5, <1>6, <1>7, <1>8, <1>9, <1>10, <1>11 DEF Pumps

LEMMA PumpStep ==
  ASSUME Inv, NEW i \in DOMAIN inst, Pumps(i) PROVE Inv'
<1>1. Frames  BY PumpTurn
<1>2. PICK r \in Insts : Turn(i, r)  BY PumpTurn
<1> QED  BY <1>1, <1>2, OneInstStep DEF Turn, Frames
---------------------------------------------------------------------------
(* The collectors.                                                         *)

(* gcDoneSessions stops sessions and unregisters them, and changes nothing *)
(* else of an instance.                                                    *)
LEMMA CollectFacts ==
  ASSUME Inv, NEW done \in SUBSET DOMAIN inst, Collect(done)
  PROVE  /\ inst' \in Seq(Insts) /\ Len(inst') = Len(inst) /\ DOMAIN inst' = DOMAIN inst
         /\ \A i \in DOMAIN inst :
              /\ inst'[i].id = inst[i].id /\ inst'[i].owner = inst[i].owner
              /\ inst'[i].tx = inst[i].tx /\ inst'[i].pump = inst[i].pump
              /\ inst'[i].up = inst[i].up /\ inst'[i].reads = inst[i].reads
              /\ i \in done \/ inst[i].rx # "open" => inst'[i].rx # "open"
         /\ table' \in [Ids -> Nat]
         /\ \A s \in Ids : table'[s] = IF table[s] \in done THEN 0 ELSE table[s]
         /\ chan' \in [Clients -> Nat]
<1>1. inst' = [i \in DOMAIN inst |-> IF i \in done THEN Stop(i) ELSE inst[i]]
  BY DEF Collect
<1>2. Len(inst) \in Nat /\ DOMAIN inst = 1..Len(inst)  BY InstFacts DEF Inv
<1>3. ASSUME NEW i \in DOMAIN inst
      PROVE  /\ inst'[i] \in Insts
             /\ inst'[i].id = inst[i].id /\ inst'[i].owner = inst[i].owner
             /\ inst'[i].tx = inst[i].tx /\ inst'[i].pump = inst[i].pump
             /\ inst'[i].up = inst[i].up /\ inst'[i].reads = inst[i].reads
             /\ i \in done \/ inst[i].rx # "open" => inst'[i].rx # "open"
  <2>0. inst[i] \in Insts  BY InstOf
  <2>1. CASE i \in done
    <3> DEFINE to == IF inst[i].rx = "open" THEN "stopped" ELSE inst[i].rx
               r  == [inst[i] EXCEPT !.rx = to]
    <3>1. inst'[i] = r  BY <1>1, <2>1 DEF Stop
    <3>2. to \in {"open", "stopped", "closed"} /\ to # "open"  BY <2>0 DEF Insts
    <3> HIDE DEF to
    <3>3. /\ r \in Insts /\ r.id = inst[i].id /\ r.owner = inst[i].owner
          /\ r.tx = inst[i].tx /\ r.pump = inst[i].pump /\ r.up = inst[i].up /\ r.rx = to
          /\ r.reads = inst[i].reads
      BY <2>0, <3>2 DEF Insts
    <3> HIDE DEF r
    <3> QED  BY <3>1, <3>2, <3>3
  <2>2. CASE i \notin done
    <3>1. inst'[i] = inst[i]  BY <1>1, <2>2
    <3> QED  BY <2>0, <2>2, <3>1
  <2> QED  BY <2>1, <2>2
<1>4. inst' \in [1..Len(inst) -> Insts]  BY <1>1, <1>2, <1>3
<1>5. inst' \in Seq(Insts) /\ Len(inst') = Len(inst) /\ DOMAIN inst' = DOMAIN inst
  BY <1>2, <1>4, FunctionIsSeq
<1>6. /\ table' \in [Ids -> Nat]
      /\ \A s \in Ids : table'[s] = IF table[s] \in done THEN 0 ELSE table[s]
  <2>1. \A s \in Ids : table[s] \in Nat  BY <1>2 DEF Inv, Types
  <2>2. table' = [s \in Ids |-> IF table[s] \in done THEN 0 ELSE table[s]]  BY DEF Collect
  <2> QED  BY <2>1, <2>2
<1>7. chan' \in [Clients -> Nat]  BY InvTypes DEF Collect
<1> QED  BY <1>3, <1>5, <1>6, <1>7

LEMMA ReplyCollects ==
  ASSUME NEW h, Reply(h)
  PROVE  /\ \E done \in SUBSET DOMAIN inst : Collect(done)
         /\ hnd' = [hnd EXCEPT ![h] = Idle]
         /\ UNCHANGED <<answers, failed, dns, victims, syns>>
<1>1. PICK expired \in SUBSET {i \in DOMAIN inst : inst[i].tx.finSent /\ inst[i].rx # "closed"} :
        Collect({i \in DOMAIN inst : Registered(i) /\ IsDone(i, expired)})
  BY DEF Reply
<1>2. {i \in DOMAIN inst : Registered(i) /\ IsDone(i, expired)} \in SUBSET DOMAIN inst
  OBVIOUS
<1>3. \E done \in SUBSET DOMAIN inst : Collect(done)  BY <1>1, <1>2
<1> QED  BY <1>3 DEF Reply, dials

LEMMA ReplyStep ==
  ASSUME Inv, NEW h \in Handlers, Reply(h) PROVE Inv'
<1>0. /\ hnd' = [hnd EXCEPT ![h] = Idle]
      /\ UNCHANGED <<answers, failed, dns, victims, syns>>
  BY ReplyCollects
<1>1. PICK done \in SUBSET DOMAIN inst : Collect(done)  BY ReplyCollects
<1>2. Types /\ References /\ Isolation /\ Bounded  BY DEF Inv
<1>3. /\ inst' \in Seq(Insts) /\ Len(inst') = Len(inst) /\ DOMAIN inst' = DOMAIN inst
      /\ \A i \in DOMAIN inst :
           /\ inst'[i].id = inst[i].id /\ inst'[i].owner = inst[i].owner
           /\ inst'[i].tx = inst[i].tx
      /\ table' \in [Ids -> Nat]
      /\ \A s \in Ids : table'[s] = IF table[s] \in done THEN 0 ELSE table[s]
      /\ chan' \in [Clients -> Nat]
  BY <1>1, CollectFacts
<1>4. Keeps  BY <1>3 DEF Keeps
<1>5. Idle \notin Tunnels  BY TunnelIsBusy
<1>6. /\ hnd' \in [Handlers -> Tunnels \cup {Idle}]
      /\ (\A g \in Handlers : Grounded(g))' /\ Isolation'
  BY <1>0, <1>2, <1>4, <1>5, OneHandler
<1>7. /\ table' \in [Ids -> 0..Len(inst')]
      /\ (\A s \in Ids : table[s] # 0 => inst[table[s]].id = s)'
  BY <1>2, <1>3, <1>4, TableShrinks
<1>8. txReady' \subseteq Ids  BY <1>1, <1>2 DEF Collect, Types
<1>9. Types'  BY <1>0, <1>2, <1>3, <1>6, <1>7, <1>8 DEF Types
<1>10. References'  BY <1>6, <1>7 DEF References
<1>11. Bounded'  BY <1>2, <1>3 DEF Bounded
<1> QED  BY <1>6, <1>9, <1>10, <1>11 DEF Inv

LEMMA TimerStep ==
  ASSUME Inv, (\E t \in failed : DialBackoffEnds(t)) \/ (\E s \in Ids : IdleGc(s))
  PROVE  Inv'
<1>0. UNCHANGED <<inst, answers, dns, chan, hnd, syns>>
  BY DEF DialBackoffEnds, IdleGc, dials, wakes
<1>1. Types /\ References /\ Isolation /\ Bounded  BY DEF Inv
<1>2. Keeps  BY <1>0, <1>1, SameInst
<1>3. /\ hnd' \in [Handlers -> Tunnels \cup {Idle}]
      /\ (\A g \in Handlers : Grounded(g))' /\ Isolation'
  BY <1>0, <1>1, <1>2, NoHandler
<1>4. /\ failed' \subseteq failed /\ txReady' \subseteq Ids /\ victims' \subseteq DOMAIN inst
      /\ table' \in [Ids -> Nat] /\ \A s \in Ids : table'[s] \in {0, table[s]}
  <2>0. Len(inst) \in Nat /\ DOMAIN inst = 1..Len(inst)  BY <1>1, InstFacts
  <2>1. table \in [Ids -> 0..Len(inst)] /\ txReady \subseteq Ids /\ victims \subseteq DOMAIN inst
    BY <1>1 DEF Types
  <2>2. CASE \E t \in failed : DialBackoffEnds(t)
    BY <2>0, <2>1, <2>2 DEF DialBackoffEnds
  <2>3. CASE \E s \in Ids : IdleGc(s)
    <3> PICK s \in Ids : IdleGc(s)  BY <2>3
    <3>1. /\ table[s] # 0 /\ victims' = victims \cup {table[s]}
          /\ table' = [table EXCEPT ![s] = 0] /\ txReady' = txReady \ {s} /\ failed' = failed
      BY DEF IdleGc, dials
    <3>2. table[s] \in DOMAIN inst  BY <2>0, <2>1, <3>1
    <3> QED  BY <2>0, <2>1, <3>1, <3>2
  <2> QED  BY <2>2, <2>3
<1>5. /\ table' \in [Ids -> 0..Len(inst')]
      /\ (\A s \in Ids : table[s] # 0 => inst[table[s]].id = s)'
  BY <1>1, <1>2, <1>4, TableShrinks
<1>6. Types'  BY <1>0, <1>1, <1>3, <1>4, <1>5 DEF Types
<1>7. References'  BY <1>3, <1>5 DEF References
<1>8. Bounded'  BY <1>0, <1>1 DEF Bounded
<1> QED  BY <1>3, <1>6, <1>7, <1>8 DEF Inv
---------------------------------------------------------------------------
LEMMA InitInv == Init => Inv
<1> SUFFICES ASSUME Init PROVE Inv  OBVIOUS
<1>1. inst = <<>> /\ inst \in Seq(Insts) /\ Len(inst) = 0 /\ DOMAIN inst = {}
  BY DEF Init
<1>2. hnd \in [Handlers -> Tunnels \cup {Idle}] /\ \A h \in Handlers : hnd[h] = Idle
  BY DEF Init
<1>3. table \in [Ids -> 0..Len(inst)] /\ \A s \in Ids : table[s] = 0
  BY <1>1 DEF Init
<1>4. Types  BY <1>1, <1>2, <1>3 DEF Init, Types
<1>5. References
  BY <1>2, <1>3 DEF References, Grounded, Idle, Routing
<1>6. Bounded  BY <1>1 DEF Bounded
<1>7. Isolation  BY <1>2 DEF Isolation
<1> QED  BY <1>4, <1>5, <1>6, <1>7 DEF Inv

LEMMA Stutter ==
  ASSUME Inv, UNCHANGED vars PROVE Inv'
<1>1. Keeps  BY SameInst DEF Inv, vars
<1>2. UNCHANGED <<inst, table, txReady, answers, failed, dns, chan, victims, hnd, syns>>
  BY DEF vars, dials, wakes
<1>3. /\ (\A g \in Handlers : Grounded(g))' /\ Isolation'
  BY <1>1, <1>2, NoHandler DEF Inv
<1>4. Types'  BY <1>2 DEF Inv, Types
<1>5. References'  BY <1>2, <1>3 DEF Inv, References
<1>6. Bounded'  BY <1>2 DEF Inv, Bounded
<1> QED  BY <1>3, <1>4, <1>5, <1>6 DEF Inv

LEMMA NextInv == Inv /\ [Next]_vars => Inv'
<1> SUFFICES ASSUME Inv, [Next]_vars PROVE Inv'  OBVIOUS
<1>1. CASE \E h \in Handlers, c \in Clients, s \in Ids, frames \in Requests :
             Arrive(h, c, s, frames)
  BY <1>1, ArriveStep
<1>2. CASE \E h \in Handlers : Handler(h)
  <2> PICK h \in Handlers : Handler(h)  BY <1>2
  <2>1. CASE Route(h)  BY <2>1, RouteStep
  <2>2. CASE QueueRst(h) \/ RstKick(h)  BY <2>2, AnswerStep
  <2>3. CASE Resolve(h) \/ Lookup(h) \/ DialFails(h)  BY <2>3, DialStep
  <2>4. CASE Open(h)  BY <2>4, OpenStep
  <2>5. CASE Deliver(h)  BY <2>5, DeliverStep
  <2>6. CASE Capture(h) \/ Wake(h) \/ Deadline(h) \/ Hangup(h) \/ EmptyReply(h)
    BY <2>6, WaitStep
  <2>7. CASE Drain(h) \/ Coalesce(h)  BY <2>7, DrainStep
  <2>8. CASE Reply(h)  BY <2>8, ReplyStep
  <2> QED  BY <2>1, <2>2, <2>3, <2>4, <2>5, <2>6, <2>7, <2>8 DEF Handler
<1>3. CASE \E i \in DOMAIN inst : Pumps(i)  BY <1>3, PumpStep
<1>4. CASE (\E t \in failed : DialBackoffEnds(t)) \/ (\E s \in Ids : IdleGc(s))
  BY <1>4, TimerStep
<1>5. CASE UNCHANGED vars  BY <1>5, Stutter
<1> QED  BY <1>1, <1>2, <1>3, <1>4, <1>5 DEF Next

LEMMA Invariance == Spec => []Inv
<1> QED  BY InitInv, NextInv, PTL DEF Spec

(* The tables of the exit server stay well formed and consistent, and no   *)
(* read pump gets past the high-water mark (exit.go, EnqueueTx), however   *)
(* handlers, pumps and collectors interleave.                              *)
THEOREM TypeCorrect == Spec => []TypeOK
<1>1. Inv => TypeOK
  <2> SUFFICES ASSUME Inv PROVE TypeOK  OBVIOUS
  <2>1. \A i \in DOMAIN inst : inst[i] \in Insts /\ Len(inst[i].tx.txBuf) <= HighWater + 1
    BY InstOf
  <2> QED  BY <2>1 DEF Inv, Types, TypeOK, Insts, PumpStates
<1> QED  BY <1>1, Invariance, PTL

(* drainAll's filter by owner suffices: no reply, however often it is      *)
(* coalesced and whatever was reopened meanwhile, carries frames of a      *)
(* session that another client owns.                                       *)
THEOREM RepliesAreIsolated == Spec => []Isolation
<1>1. Inv => Isolation  BY DEF Inv
<1> QED  BY <1>1, Invariance, PTL
---------------------------------------------------------------------------
(* Nothing is stranded.                                                    *)

(* The instances keep what they have to send, the tables only shrink, and  *)
(* no ID that stays registered leaves txReady.                             *)
LEMMA NothingNew ==
  ASSUME NoStrandedTx, DOMAIN inst' = DOMAIN inst, 0 \notin DOMAIN inst,
         \A i \in DOMAIN inst : /\ inst'[i].id = inst[i].id
                                /\ inst'[i].tx = inst[i].tx /\ inst'[i].pump = inst[i].pump,
         \A i \in DOMAIN inst : table'[inst[i].id] \in {0, table[inst[i].id]},
         \A i \in DOMAIN inst : table'[inst[i].id] = i /\ inst[i].id \in txReady
                                  => inst[i].id \in txReady'
  PROVE  NoStrandedTx'
<1> SUFFICES ASSUME NEW i \in DOMAIN inst, Registered(i)', HasPendingTx(inst'[i].tx)
             PROVE  inst'[i].id \in txReady' \/ inst'[i].pump \in {"mark", "markFin"}
  BY DEF NoStrandedTx
<1>1. table'[inst[i].id] = i  BY DEF Registered
<1>2. Registered(i)  BY <1>1 DEF Registered
<1>3. HasPendingTx(inst[i].tx)  OBVIOUS
<1>4. inst[i].id \in txReady \/ inst[i].pump \in {"mark", "markFin"}
  BY <1>2, <1>3 DEF NoStrandedTx
<1> QED  BY <1>1, <1>4

LEMMA StrandedStep ==
  ASSUME Inv, NoStrandedTx, [Next]_vars PROVE NoStrandedTx'
<1>0. /\ 0 \notin DOMAIN inst /\ Len(inst) \in Nat /\ DOMAIN inst = 1..Len(inst)
      /\ \A i \in DOMAIN inst : inst[i] \in Insts /\ inst[i].id \in Ids
  <2>1. /\ Len(inst) \in Nat /\ DOMAIN inst = 1..Len(inst)
        /\ \A i \in DOMAIN inst : inst[i] \in Insts
    BY InstFacts DEF Inv
  <2> QED  BY <2>1 DEF Insts
<1>1. CASE UNCHANGED <<inst, table, txReady>>
  BY <1>0, <1>1, NothingNew
<1>2. ASSUME NEW h \in Handlers, Open(h) PROVE NoStrandedTx'
  <2> DEFINE n == Len(inst) + 1
             new == [id |-> hnd[h].id, owner |-> hnd[h].client, tx |-> NewTx(FALSE),
                     reads |-> 0, rx |-> "open", up |-> "open", pump |-> "read"]
  <2>1. /\ inst' = Append(inst, new) /\ table' = [table EXCEPT ![hnd[h].id] = n]
        /\ txReady' = txReady /\ hnd[h].at # "idle"
    BY <1>2 DEF Open
  <2>2. new.tx = NewTx(FALSE) /\ new.id = hnd[h].id  BY Zenon
  <2> HIDE DEF new
  <2>3. inst \in Seq(Insts) /\ table \in [Ids -> 0..Len(inst)]  BY DEF Inv, Types
  <2>4. /\ DOMAIN inst' = 1..n /\ inst'[n] = new
        /\ \A j \in 1..Len(inst) : inst'[j] = inst[j]
    BY <1>0, <2>1, <2>3
  <2> SUFFICES ASSUME NEW i \in DOMAIN inst', Registered(i)', HasPendingTx(inst'[i].tx)
               PROVE  inst'[i].id \in txReady' \/ inst'[i].pump \in {"mark", "markFin"}
    BY DEF NoStrandedTx
  <2>5. i # n
    <3>1. ~HasPendingTx(NewTx(FALSE))  BY DEF NewTx, HasPendingTx, FinPending
    <3>2. ASSUME i = n PROVE FALSE
      <4>1. inst'[i].tx = NewTx(FALSE)  BY <2>2, <2>4, <3>2
      <4> QED  BY <3>1, <4>1
    <3> QED  BY <3>2
  <2>6. i \in DOMAIN inst /\ inst'[i] = inst[i]  BY <1>0, <2>4, <2>5
  <2>7. Registered(i)
    <3>1. table'[inst[i].id] = i  BY <2>6 DEF Registered
    <3>2. inst[i].id # hnd[h].id
      <4>1. ASSUME inst[i].id = hnd[h].id PROVE FALSE
        <5>1. hnd[h].id \in Ids  BY <1>0, <2>6, <4>1
        <5>2. table'[hnd[h].id] = n  BY <2>1, <2>3, <5>1
        <5> QED  BY <2>5, <3>1, <4>1, <5>2
      <4> QED  BY <4>1
    <3> QED  BY <1>0, <2>1, <2>3, <2>6, <3>1, <3>2 DEF Registered
  <2> QED  BY <2>1, <2>6, <2>7 DEF NoStrandedTx
<1>3. ASSUME NEW h \in Handlers, Deliver(h) PROVE NoStrandedTx'
  <2> DEFINE k == hnd[h].inst
  <2>0. UNCHANGED <<table, txReady>> /\ hnd[h].at = "deliver"  BY <1>3 DEF Deliver
  <2>1. k \in DOMAIN inst  BY <2>0 DEF Inv, References, Grounded
  <2>2. inst' = inst \/ \E x \in {"stopped", "closed"} : inst' = [inst EXCEPT ![k].rx = x]
    BY <1>3 DEF Deliver
  <2>3. CASE inst' = inst  BY <1>1, <2>0, <2>3
  <2>4. CASE \E x \in {"stopped", "closed"} : inst' = [inst EXCEPT ![k].rx = x]
    <3> PICK x \in {"stopped", "closed"} : inst' = [inst EXCEPT ![k].rx = x]  BY <2>4
    <3> DEFINE r == [inst[k] EXCEPT !.rx = x]
    <3>1. r.id = inst[k].id /\ r.tx = inst[k].tx /\ r.pump = inst[k].pump
      BY <1>0, <2>1 DEF Insts
    <3>2. inst' = [inst EXCEPT ![k] = r]  OBVIOUS
    <3> HIDE DEF r, k
    <3>3. /\ DOMAIN inst' = DOMAIN inst
          /\ \A i \in DOMAIN inst : inst'[i] = IF i = k THEN r ELSE inst[i]
      BY <2>1, <3>2
    <3> QED  BY <1>0, <2>0, <3>1, <3>3, NothingNew
  <2> QED  BY <2>2, <2>3, <2>4
<1>4. ASSUME NEW h \in Handlers, Drain(h) \/ Coalesce(h) PROVE NoStrandedTx'
  <2>0. table' = table /\ hnd[h].at \in {"drain", "reply"} /\ DrainAll(h)
    BY <1>4 DEF Drain, Coalesce
  <2>1. PICK visited \in SUBSET Drainable(hnd[h].client) :
          /\ DOMAIN inst' = DOMAIN inst
          /\ \A i \in DOMAIN inst : SameButTx(inst'[i], inst[i])
          /\ \A i \in DOMAIN inst :
               ~(Registered(i) /\ inst[i].id \in visited) => inst'[i] = inst[i]
          /\ txReady' = StillReady(visited, inst')
    BY <2>0, DrainAllFacts
  <2> SUFFICES ASSUME NEW i \in DOMAIN inst, Registered(i)', HasPendingTx(inst'[i].tx)
               PROVE  inst'[i].id \in txReady' \/ inst'[i].pump \in {"mark", "markFin"}
    BY <2>1 DEF NoStrandedTx
  <2>2. inst'[i].id = inst[i].id /\ inst'[i].pump = inst[i].pump  BY <2>1 DEF SameButTx
  <2>3. Registered(i) /\ table[inst[i].id] = i  BY <2>0, <2>2 DEF Registered
  <2>4. CASE inst[i].id \in visited
    <3>1. inst[i].id \in txReady  BY <2>4 DEF Drainable
    <3>2. inst[i].id \in StillReady(visited, inst')  BY <1>0, <2>3, <3>1 DEF StillReady
    <3> QED  BY <2>1, <2>2, <3>2
  <2>5. CASE inst[i].id \notin visited
    <3>1. inst'[i] = inst[i]  BY <2>1, <2>5
    <3>2. inst[i].id \in txReady \/ inst[i].pump \in {"mark", "markFin"}
      BY <2>3, <3>1 DEF NoStrandedTx
    <3>3. inst[i].id \in txReady => inst[i].id \in StillReady(visited, inst')
      BY <1>0, <2>3, <2>5 DEF StillReady
    <3> QED  BY <2>1, <2>2, <3>2, <3>3
  <2> QED  BY <2>4, <2>5
<1>5. ASSUME NEW h \in Handlers, Reply(h) PROVE NoStrandedTx'
  <2>1. PICK done \in SUBSET DOMAIN inst : Collect(done)  BY <1>5, ReplyCollects
  <2>2. /\ DOMAIN inst' = DOMAIN inst
        /\ \A i \in DOMAIN inst : /\ inst'[i].id = inst[i].id
                                  /\ inst'[i].tx = inst[i].tx /\ inst'[i].pump = inst[i].pump
        /\ \A s \in Ids : table'[s] = IF table[s] \in done THEN 0 ELSE table[s]
    BY <2>1, CollectFacts
  <2>3. txReady' = {s \in txReady : table[s] \notin done}  BY <2>1 DEF Collect
  <2>4. \A i \in DOMAIN inst : table'[inst[i].id] \in {0, table[inst[i].id]}
    BY <1>0, <2>2
  <2>5. \A i \in DOMAIN inst : table'[inst[i].id] = i /\ inst[i].id \in txReady
                                  => inst[i].id \in txReady'
    BY <1>0, <2>2, <2>3
  <2> QED  BY <1>0, <2>2, <2>4, <2>5, NothingNew
<1>6. ASSUME NEW i \in DOMAIN inst, Pumps(i) PROVE NoStrandedTx'
  <2>1. Frames  BY <1>6, PumpTurn
  <2>2. PICK r \in Insts : Turn(i, r)  BY <1>6, PumpTurn
  <2>3. DOMAIN inst' = DOMAIN inst /\ \A j \in DOMAIN inst : inst'[j] = IF j = i THEN r ELSE inst[j]
    BY <2>2 DEF Turn
  <2> SUFFICES ASSUME NEW j \in DOMAIN inst, Registered(j)', HasPendingTx(inst'[j].tx)
               PROVE  inst'[j].id \in txReady' \/ inst'[j].pump \in Marking
    BY <2>3 DEF NoStrandedTx, Marking
  <2>4. inst'[j].id = inst[j].id  BY <2>2, <2>3 DEF Turn
  <2>5. Registered(j)  BY <2>1, <2>4 DEF Registered, Frames
  <2>6. HasPendingTx(inst[j].tx) => inst[j].id \in txReady' \/ inst[j].pump \in Marking
    BY <2>1, <2>5 DEF NoStrandedTx, Frames, Marking
  <2>7. CASE j = i  BY <2>2, <2>3, <2>4, <2>6, <2>7 DEF Turn
  <2>8. CASE j # i  BY <2>3, <2>4, <2>6, <2>8
  <2> QED  BY <2>7, <2>8
<1>7. ASSUME NEW s \in Ids, IdleGc(s) PROVE NoStrandedTx'
  <2>1. /\ inst' = inst /\ table' = [table EXCEPT ![s] = 0] /\ txReady' = txReady \ {s}
    BY <1>7 DEF IdleGc
  <2>2. table \in [Ids -> 0..Len(inst)]  BY DEF Inv, Types
  <2>3. \A i \in DOMAIN inst : table'[inst[i].id] \in {0, table[inst[i].id]}
    BY <1>0, <2>1, <2>2
  <2>4. \A i \in DOMAIN inst : table'[inst[i].id] = i /\ inst[i].id \in txReady
                                  => inst[i].id \in txReady'
    BY <1>0, <2>1, <2>2
  <2> QED  BY <1>0, <2>1, <2>3, <2>4, NothingNew
<1>8. ASSUME NEW h \in Handlers, Handler(h) PROVE NoStrandedTx'
  <2>1. CASE Open(h) \/ Deliver(h) \/ Drain(h) \/ Coalesce(h) \/ Reply(h)
    BY <1>2, <1>3, <1>4, <1>5, <2>1
  <2>2. CASE UNCHANGED <<inst, table, txReady>>  BY <1>1, <2>2
  <2>3. CASE Route(h) \/ QueueRst(h) \/ RstKick(h) \/ Resolve(h) \/ Lookup(h) \/ DialFails(h)
    BY <2>2, <2>3 DEF Route, QueueRst, RstKick, Resolve, Lookup, DialFails
  <2>4. CASE Capture(h) \/ Wake(h) \/ Deadline(h) \/ Hangup(h) \/ EmptyReply(h)
    BY <2>2, <2>4 DEF Capture, Wake, Deadline, Hangup, EmptyReply
  <2> QED  BY <1>8, <2>1, <2>3, <2>4 DEF Handler
<1>9. CASE \E h \in Handlers, c \in Clients, s \in Ids, frames \in Requests :
             Arrive(h, c, s, frames)
  BY <1>1, <1>9 DEF Arrive
<1>10. CASE \E t \in failed : DialBackoffEnds(t)  BY <1>1, <1>10 DEF DialBackoffEnds
<1>11. CASE UNCHANGED vars  BY <1>1, <1>11 DEF vars
<1> QED  BY <1>6, <1>7, <1>8, <1>9, <1>10, <1>11 DEF Next

(* Partial drains, both collectors and a reopen of the same session ID     *)
(* never leave bytes or a FIN behind: a session with something to send is  *)
(* in txReady or about to be put there (exit.go, drainAll and OnTx).       *)
THEOREM NothingStranded == Spec => []NoStrandedTx
<1>1. Init => NoStrandedTx  BY DEF Init, NoStrandedTx
<1>2. Inv /\ NoStrandedTx /\ [Next]_vars => NoStrandedTx'  BY StrandedStep
<1> QED  BY <1>1, <1>2, Invariance, PTL DEF Spec
---------------------------------------------------------------------------
(* Which open connections are out of reach.                                *)

(* Instances are only added, and keep their IDs. *)
LEMMA ReopenedStays ==
  ASSUME DOMAIN inst \subseteq DOMAIN inst',
         \A i \in DOMAIN inst : inst'[i].id = inst[i].id
  PROVE  \A i \in DOMAIN inst : Reopened(i) => Reopened(i)'
BY DEF Reopened

(* A step that makes no instance, and leaves those the server can close    *)
(* within reach or closed.                                                 *)
LEMMA InReach ==
  ASSUME LostOnlyByReopen, DOMAIN inst' = DOMAIN inst,
         \A i \in DOMAIN inst :
           /\ inst'[i].id = inst[i].id
           /\ inst'[i].up = "open" => /\ inst[i].up = "open"
                                      /\ Tracked(i) => Tracked(i)'
  PROVE  LostOnlyByReopen'
BY ReopenedStays DEF LostOnlyByReopen

LEMMA LostStep ==
  ASSUME Inv, LostOnlyByReopen, [Next]_vars PROVE LostOnlyByReopen'
<1>0. /\ 0 \notin DOMAIN inst /\ Len(inst) \in Nat /\ DOMAIN inst = 1..Len(inst)
      /\ \A i \in DOMAIN inst : inst[i] \in Insts /\ inst[i].id \in Ids
  <2>1. /\ Len(inst) \in Nat /\ DOMAIN inst = 1..Len(inst)
        /\ \A i \in DOMAIN inst : inst[i] \in Insts
    BY InstFacts DEF Inv
  <2> QED  BY <2>1 DEF Insts
<1>1. CASE UNCHANGED <<inst, table, victims>>
  BY <1>1 DEF LostOnlyByReopen, Tracked, Registered, Reopened
<1>2. ASSUME NEW h \in Handlers, Open(h) PROVE LostOnlyByReopen'
  <2> DEFINE n == Len(inst) + 1
             new == [id |-> hnd[h].id, owner |-> hnd[h].client, tx |-> NewTx(FALSE),
                     reads |-> 0, rx |-> "open", up |-> "open", pump |-> "read"]
  <2>1. /\ inst' = Append(inst, new) /\ table' = [table EXCEPT ![hnd[h].id] = n]
        /\ victims' = victims /\ hnd[h].at # "idle"
    BY <1>2 DEF Open
  <2>2. new.id = hnd[h].id  BY Zenon
  <2> HIDE DEF new
  <2>3. inst \in Seq(Insts) /\ table \in [Ids -> 0..Len(inst)]  BY DEF Inv, Types
  <2>4. /\ DOMAIN inst' = 1..n /\ inst'[n] = new
        /\ \A j \in 1..Len(inst) : inst'[j] = inst[j]
    BY <1>0, <2>1, <2>3
  <2>5. hnd[h].id \in Ids
    <3>1. hnd[h] \in Tunnels  BY <2>1, Busy DEF Inv
    <3> QED  BY <3>1 DEF Tunnels
  <2>6. table'[inst'[n].id] = n  BY <2>1, <2>2, <2>3, <2>4, <2>5
  <2>7. ASSUME NEW i \in DOMAIN inst, Registered(i) PROVE Registered(i)' \/ Reopened(i)'
    <3>1. CASE inst[i].id # hnd[h].id
      BY <1>0, <2>1, <2>3, <2>4, <2>7, <3>1 DEF Registered
    <3>2. CASE inst[i].id = hnd[h].id
      <4>1. n \in DOMAIN inst' /\ n > i /\ inst'[n].id = inst'[i].id
        BY <1>0, <2>2, <2>4, <3>2
      <4> QED  BY <4>1 DEF Reopened
    <3> QED  BY <3>1, <3>2
  <2>8. \A i \in DOMAIN inst : i \in DOMAIN inst' /\ inst'[i] = inst[i]  BY <1>0, <2>4
  <2>9. \A i \in DOMAIN inst : Reopened(i) => Reopened(i)'  BY <2>8, ReopenedStays
  <2> SUFFICES ASSUME NEW i \in DOMAIN inst', inst'[i].up = "open"
               PROVE  Tracked(i)' \/ Reopened(i)'
    BY DEF LostOnlyByReopen
  <2>10. CASE i = n  BY <2>6, <2>10 DEF Tracked, Registered
  <2>11. CASE i # n
    <3>1. i \in DOMAIN inst /\ inst'[i] = inst[i]  BY <1>0, <2>4, <2>11
    <3>2. Tracked(i) \/ Reopened(i)  BY <3>1 DEF LostOnlyByReopen
    <3>3. Tracked(i) => Tracked(i)' \/ Reopened(i)'  BY <2>1, <2>7, <3>1 DEF Tracked
    <3> QED  BY <2>9, <3>1, <3>2, <3>3
  <2> QED  BY <2>10, <2>11
<1>3. ASSUME NEW h \in Handlers, Deliver(h) PROVE LostOnlyByReopen'
  <2> DEFINE k == hnd[h].inst
  <2>0. UNCHANGED <<table, victims>> /\ hnd[h].at = "deliver"  BY <1>3 DEF Deliver
  <2>1. k \in DOMAIN inst  BY <2>0 DEF Inv, References, Grounded
  <2>2. inst' = inst \/ \E x \in {"stopped", "closed"} : inst' = [inst EXCEPT ![k].rx = x]
    BY <1>3 DEF Deliver
  <2>3. CASE inst' = inst  BY <1>1, <2>0, <2>3
  <2>4. CASE \E x \in {"stopped", "closed"} : inst' = [inst EXCEPT ![k].rx = x]
    <3> PICK x \in {"stopped", "closed"} : inst' = [inst EXCEPT ![k].rx = x]  BY <2>4
    <3> DEFINE r == [inst[k] EXCEPT !.rx = x]
    <3>1. r.id = inst[k].id /\ r.rx = x /\ r.up = inst[k].up  BY <1>0, <2>1 DEF Insts
    <3>2. inst' = [inst EXCEPT ![k] = r]  OBVIOUS
    <3> HIDE DEF r, k
    <3>3. /\ DOMAIN inst' = DOMAIN inst
          /\ \A i \in DOMAIN inst : inst'[i] = IF i = k THEN r ELSE inst[i]
      BY <2>1, <3>2
    <3>4. \A i \in DOMAIN inst : /\ inst'[i].id = inst[i].id /\ inst'[i].up = inst[i].up
                                 /\ inst[i].rx # "open" => inst'[i].rx # "open"
      BY <3>1, <3>3
    <3> QED  BY <2>0, <3>3, <3>4, InReach DEF Tracked, Registered
  <2> QED  BY <2>2, <2>3, <2>4
<1>4. ASSUME NEW h \in Handlers, Drain(h) \/ Coalesce(h) PROVE LostOnlyByReopen'
  <2>0. UNCHANGED <<table, victims>> /\ hnd[h].at \in {"drain", "reply"} /\ DrainAll(h)
    BY <1>4 DEF Drain, Coalesce
  <2>1. DOMAIN inst' = DOMAIN inst /\ \A i \in DOMAIN inst : SameButTx(inst'[i], inst[i])
    BY <2>0, DrainAllFacts
  <2> QED  BY <2>0, <2>1, InReach DEF Tracked, Registered, SameButTx
<1>5. ASSUME NEW h \in Handlers, Reply(h) PROVE LostOnlyByReopen'
  <2>1. PICK done \in SUBSET DOMAIN inst : Collect(done)  BY <1>5, ReplyCollects
  <2>2. /\ DOMAIN inst' = DOMAIN inst
        /\ \A i \in DOMAIN inst : 
             /\ inst'[i].id = inst[i].id /\ inst'[i].up = inst[i].up
             /\ i \in done \/ inst[i].rx # "open" => inst'[i].rx # "open"
        /\ \A s \in Ids : table'[s] = IF table[s] \in done THEN 0 ELSE table[s]
    BY <2>1, CollectFacts
  <2>3. victims' = victims  BY <1>5 DEF Reply
  <2>4. ASSUME NEW i \in DOMAIN inst, Registered(i), i \notin done PROVE Registered(i)'
    BY <1>0, <2>2, <2>4 DEF Registered
  <2> QED  BY <2>2, <2>3, <2>4, InReach DEF Tracked
<1>6. ASSUME NEW i \in DOMAIN inst, Pumps(i) PROVE LostOnlyByReopen'
  <2>1. table' = table /\ \A j \in victims : j # i => j \in victims'
    BY <1>6, PumpTurn DEF Frames
  <2>2. PICK r \in Insts : Turn(i, r)  BY <1>6, PumpTurn
  <2>3. DOMAIN inst' = DOMAIN inst /\ \A j \in DOMAIN inst : inst'[j] = IF j = i THEN r ELSE inst[j]
    BY <2>2 DEF Turn
  <2>4. \A j \in DOMAIN inst : inst'[j].id = inst[j].id  BY <2>2, <2>3 DEF Turn
  <2>5. ASSUME NEW j \in DOMAIN inst, inst'[j].up = "open"
        PROVE  inst[j].up = "open" /\ (Tracked(j) => Tracked(j)')
    <3>1. inst[j].up = "open"  BY <2>2, <2>3, <2>5 DEF Turn
    <3>2. Registered(j) => Registered(j)'  BY <2>1, <2>4 DEF Registered
    <3>3. CASE j = i  BY <2>2, <2>3, <2>5, <3>1, <3>2, <3>3 DEF Turn, Tracked
    <3>4. CASE j # i  BY <2>1, <2>3, <3>1, <3>2, <3>4 DEF Tracked
    <3> QED  BY <3>3, <3>4
  <2> QED  BY <2>3, <2>4, <2>5, InReach
<1>7. ASSUME NEW s \in Ids, IdleGc(s) PROVE LostOnlyByReopen'
  <2>1. /\ inst' = inst /\ table' = [table EXCEPT ![s] = 0]
        /\ victims' = victims \cup {table[s]}
    BY <1>7 DEF IdleGc
  <2>2. table \in [Ids -> 0..Len(inst)]  BY DEF Inv, Types
  <2>3. ASSUME NEW i \in DOMAIN inst, Registered(i) PROVE Registered(i)' \/ i \in victims'
    BY <1>0, <2>1, <2>2, <2>3 DEF Registered
  <2> QED  BY <2>1, <2>3, InReach DEF Tracked
<1>8. ASSUME NEW h \in Handlers, Handler(h) PROVE LostOnlyByReopen'
  <2>1. CASE Open(h) \/ Deliver(h) \/ Drain(h) \/ Coalesce(h) \/ Reply(h)
    BY <1>2, <1>3, <1>4, <1>5, <2>1
  <2>2. CASE UNCHANGED <<inst, table, victims>>  BY <1>1, <2>2
  <2>3. CASE Route(h) \/ QueueRst(h) \/ RstKick(h) \/ Resolve(h) \/ Lookup(h) \/ DialFails(h)
    BY <2>2, <2>3 DEF Route, QueueRst, RstKick, Resolve, Lookup, DialFails
  <2>4. CASE Capture(h) \/ Wake(h) \/ Deadline(h) \/ Hangup(h) \/ EmptyReply(h)
    BY <2>2, <2>4 DEF Capture, Wake, Deadline, Hangup, EmptyReply
  <2> QED  BY <1>8, <2>1, <2>3, <2>4 DEF Handler
<1>9. CASE \E h \in Handlers, c \in Clients, s \in Ids, frames \in Requests :
             Arrive(h, c, s, frames)
  BY <1>1, <1>9 DEF Arrive
<1>10. CASE \E t \in failed : DialBackoffEnds(t)  BY <1>1, <1>10 DEF DialBackoffEnds
<1>11. CASE UNCHANGED vars  BY <1>1, <1>11 DEF vars
<1> QED  BY <1>6, <1>7, <1>8, <1>9, <1>10, <1>11 DEF Next

(* Whatever the pumps and both collectors do, and however often a SYN      *)
(* arrives, a connection that is open and out of the reach of the server   *)
(* was replaced by a later one of its session ID: openSession (exit.go)    *)
(* has no second look at the table after its dial.                         *)
THEOREM OnlyAReopenLosesAConnection == Spec => []LostOnlyByReopen
<1>1. Init => LostOnlyByReopen  BY DEF Init, LostOnlyByReopen
<1>2. Inv /\ LostOnlyByReopen /\ [Next]_vars => LostOnlyByReopen'  BY LostStep
<1> QED  BY <1>1, <1>2, Invariance, PTL DEF Spec
---------------------------------------------------------------------------
(* Who waits is woken.                                                     *)

(* What a client has coming: sessions whose read pump has kicked for what  *)
(* they hold, answers whose kick has been made.                            *)
Kicked == {"read", "enqueue", "stop", "done"}

Unsent(c) ==
  \E i \in DOMAIN inst : /\ Registered(i) /\ inst[i].owner = c
                         /\ inst[i].pump \in Kicked /\ HasPendingTx(inst[i].tx)

Unanswered(c) ==
  /\ answers[c] # {}
  /\ \A g \in Handlers : hnd[g] # Idle => ~(hnd[g].client = c /\ hnd[g].at = "rstKick")

Draining(c) ==
  \E g \in Handlers : hnd[g] # Idle /\ hnd[g].client = c /\ hnd[g].at = "drain"

(* A token for it, or a handler that drains next.  Without a channel there *)
(* is nobody to wake: the next handler makes one before it drains.         *)
Served(c) == chan[c] = 0 \/ chan[c] \in tokens \/ Draining(c)

Owed(c) == Unsent(c) \/ Unanswered(c)

(* Where a handler has captured its channel. *)
Captured == {"drain", "wait", "reply", "end"}

(* No channel has two clients, in the table or in the hands of a handler.  *)
Channels ==
  /\ \A c, d \in Clients : chan[c] # 0 /\ chan[c] = chan[d] => c = d
  /\ \A h \in Handlers : hnd[h] # Idle =>
       /\ hnd[h].at \in Captured => hnd[h].ch # 0
       /\ \A c \in Clients : chan[c] # 0 /\ chan[c] = hnd[h].ch => c = hnd[h].client

Wakeful == Channels /\ \A c \in Clients : Owed(c) => Served(c)

(* drainAll leaves nothing behind in the sessions of its client. *)
DrainsEmpty ==
  \A h \in Handlers : Drain(h) \/ Coalesce(h) =>
    \A s \in Drainable(hnd[h].client) : ~HasPendingTx(inst'[table[s]].tx)

(* Handler h alone moves ... *)
Only(h) == \A g \in Handlers : g # h => hnd'[g] = hnd[g]

(* ... to another place, for the same client and with the same channel. *)
Advance(h, to) ==
  /\ Only(h) /\ hnd'[h] # Idle /\ hnd'[h].at = to
  /\ hnd'[h].client = hnd[h].client /\ hnd'[h].ch = hnd[h].ch

LEMMA GotoAdvance ==
  ASSUME Inv, NEW h \in Handlers, hnd[h].at # "idle", NEW to, to # "idle", Goto(h, to)
  PROVE  Advance(h, to)
<1> DEFINE r == [hnd[h] EXCEPT !.at = to]
<1>1. hnd[h] \in Tunnels  BY Busy DEF Inv
<1>2. r.at = to /\ r.client = hnd[h].client /\ r.ch = hnd[h].ch  BY <1>1 DEF Tunnels
<1>3. hnd' = [hnd EXCEPT ![h] = r] /\ hnd \in [Handlers -> Tunnels \cup {Idle}]
  BY DEF Goto, Inv, Types
<1> HIDE DEF r
<1>4. r # Idle  BY <1>2 DEF Idle
<1> QED  BY <1>2, <1>3, <1>4 DEF Advance, Only

LEMMA FrameAdvance ==
  ASSUME Inv, NEW h \in Handlers, hnd[h].at \in Routing, NextFrame(h)
  PROVE  \E to \in {"capture", "route"} : Advance(h, to)
<1> DEFINE rest == Tail(hnd[h].frames)
           to   == IF rest = <<>> THEN "capture" ELSE "route"
           r    == [hnd[h] EXCEPT !.frames = rest, !.inst = 0, !.at = to]
<1>1. hnd[h] \in Tunnels  BY Busy DEF Inv, Routing
<1>2. to \in {"capture", "route"}  OBVIOUS
<1>3. hnd' = [hnd EXCEPT ![h] = r] /\ hnd \in [Handlers -> Tunnels \cup {Idle}]
  BY DEF NextFrame, Inv, Types
<1> HIDE DEF to, rest
<1>4. r.at = to /\ r.client = hnd[h].client /\ r.ch = hnd[h].ch  BY <1>1 DEF Tunnels
<1> HIDE DEF r
<1>5. r # Idle  BY <1>2, <1>4 DEF Idle
<1>6. Advance(h, to)  BY <1>3, <1>4, <1>5 DEF Advance, Only
<1> QED  BY <1>2, <1>6

(* Channels are taken over, deleted, or made for one client k, perhaps by  *)
(* a handler that captures it.                                             *)
LEMMA ChannelsStep ==
  ASSUME Channels, NEW k,
         \A c \in Clients : chan'[c] \in {0, chan[c]} \/ (c = k /\ chan'[c] = FreshChannel),
         \A g \in Handlers :
           \/ hnd'[g] \in {hnd[g], Idle}
           \/ /\ hnd[g] # Idle /\ hnd'[g].client = hnd[g].client /\ hnd'[g].ch = hnd[g].ch
              /\ hnd'[g].at \in Captured => hnd[g].at \in Captured
           \/ hnd'[g].ch = 0 /\ hnd'[g].at \notin Captured
           \/ k \in Clients /\ hnd'[g].client = k /\ hnd'[g].ch = chan'[k] /\ chan'[k] # 0
  PROVE  Channels'
<1>1. \A c, d \in Clients : chan'[c] # 0 /\ chan'[c] = chan'[d] => c = d
  BY FreshFacts DEF Channels
<1>2. ASSUME NEW g \in Handlers, hnd'[g] # Idle
      PROVE  /\ hnd'[g].at \in Captured => hnd'[g].ch # 0
             /\ \A c \in Clients : chan'[c] # 0 /\ chan'[c] = hnd'[g].ch => c = hnd'[g].client
  <2>1. CASE hnd'[g] = hnd[g]
    BY <1>2, <2>1, FreshFacts DEF Channels
  <2>2. CASE /\ hnd[g] # Idle /\ hnd'[g].client = hnd[g].client /\ hnd'[g].ch = hnd[g].ch
             /\ hnd'[g].at \in Captured => hnd[g].at \in Captured
    BY <2>2, FreshFacts DEF Channels
  <2>3. CASE hnd'[g].ch = 0 /\ hnd'[g].at \notin Captured
    BY <2>3
  <2>4. CASE k \in Clients /\ hnd'[g].client = k /\ hnd'[g].ch = chan'[k] /\ chan'[k] # 0
    BY <1>1, <2>4
  <2> QED  BY <1>2, <2>1, <2>2, <2>3, <2>4
<1> QED  BY <1>1, <1>2 DEF Channels, Idle

(* A handler that is not about to drain for c moves, and no token is lost. *)
LEMMA ServedKeeps ==
  ASSUME NEW c \in Clients, Served(c), NEW h, Only(h),
         h \in Handlers => ~(hnd[h].client = c /\ hnd[h].at = "drain"),
         chan'[c] \in {0, chan[c]}, chan[c] \in tokens => chan[c] \in tokens'
  PROVE  Served(c)'
<1>1. CASE Draining(c)
  <2> PICK g \in Handlers : hnd[g] # Idle /\ hnd[g].client = c /\ hnd[g].at = "drain"
    BY <1>1 DEF Draining
  <2>1. hnd'[g] = hnd[g]  BY DEF Only
  <2>2. Draining(c)'  BY <2>1 DEF Draining, Idle
  <2> QED  BY <2>2 DEF Served
<1>2. CASE chan[c] = 0 \/ chan[c] \in tokens  BY <1>2 DEF Served
<1> QED  BY <1>1, <1>2 DEF Served

LEMMA UnansweredBefore ==
  ASSUME NEW c \in Clients, NEW h, Only(h),
         h \in Handlers => ~(hnd[h].client = c /\ hnd[h].at = "rstKick"),
         answers'[c] = answers[c], Unanswered(c)'
  PROVE  Unanswered(c)
<1>1. answers[c] # {}  BY DEF Unanswered
<1>2. ASSUME NEW g \in Handlers, hnd[g] # Idle, hnd[g].client = c, hnd[g].at = "rstKick"
      PROVE  FALSE
  <2>1. hnd'[g] = hnd[g]  BY <1>2 DEF Only
  <2> QED  BY <1>2, <2>1 DEF Unanswered, Idle
<1> QED  BY <1>1, <1>2 DEF Unanswered

LEMMA UnsentBefore ==
  ASSUME NEW c \in Clients,
         \A i \in DOMAIN inst' :
           Registered(i)' /\ inst'[i].owner = c /\ inst'[i].pump \in Kicked
           /\ HasPendingTx(inst'[i].tx)
           => /\ i \in DOMAIN inst /\ Registered(i) /\ inst[i].owner = c
              /\ inst[i].pump \in Kicked /\ HasPendingTx(inst[i].tx),
         Unsent(c)'
  PROVE  Unsent(c)
<1> PICK i \in DOMAIN inst' : /\ Registered(i)' /\ inst'[i].owner = c
                              /\ inst'[i].pump \in Kicked /\ HasPendingTx(inst'[i].tx)
  BY DEF Unsent
<1> QED  BY DEF Unsent

(* No session changes: nothing new is unsent. *)
LEMMA SameUnsent ==
  ASSUME NEW c \in Clients, UNCHANGED <<inst, table>>, Unsent(c)' PROVE Unsent(c)
BY DEF Unsent, Registered

(* A step that gives nobody anything new to send, takes no token away and  *)
(* is no drain and no kick.                                                *)
LEMMA QuietStep ==
  ASSUME Wakeful, NEW h, Only(h),
         h \in Handlers => /\ hnd[h].at \notin {"drain", "rstKick"}
                           /\ \/ hnd'[h] = Idle
                              \/ /\ hnd[h] # Idle /\ hnd'[h].client = hnd[h].client
                                 /\ hnd'[h].ch = hnd[h].ch
                                 /\ hnd'[h].at \in Captured => hnd[h].at \in Captured
                              \/ hnd'[h].ch = 0 /\ hnd'[h].at \notin Captured,
         \A c \in Clients : chan'[c] \in {0, chan[c]} /\ answers'[c] = answers[c],
         tokens \subseteq tokens',
         \A c \in Clients : Unsent(c)' => Unsent(c)
  PROVE  Wakeful'
<1>1. Channels'
  <2>1. Channels  BY DEF Wakeful
  <2>2. \A g \in Handlers :
          \/ hnd'[g] \in {hnd[g], Idle}
          \/ /\ hnd[g] # Idle /\ hnd'[g].client = hnd[g].client /\ hnd'[g].ch = hnd[g].ch
             /\ hnd'[g].at \in Captured => hnd[g].at \in Captured
          \/ hnd'[g].ch = 0 /\ hnd'[g].at \notin Captured
    BY DEF Only
  <2> QED  BY <2>1, <2>2, ChannelsStep
<1>2. ASSUME NEW c \in Clients, Owed(c)' PROVE Served(c)'
  <2>1. Unanswered(c)' => Unanswered(c)  BY UnansweredBefore
  <2>2. Owed(c)  BY <1>2, <2>1 DEF Owed
  <2>3. Served(c)  BY <2>2 DEF Wakeful
  <2> QED  BY <2>3, ServedKeeps
<1> QED  BY <1>1, <1>2 DEF Wakeful

(* kick(k), with or without a handler that moves on: k is served, and for  *)
(* the others nothing changes.                                             *)
LEMMA KickServes ==
  ASSUME Inv, Wakeful, NEW k \in Clients, Kick(k), NEW h,
         hnd' = hnd \/ (h \in Handlers /\ hnd[h] # Idle /\ hnd[h].client = k
                        /\ \E to \in {"capture", "route"} : Advance(h, to)),
         \A c \in Clients : answers'[c] = answers[c],
         \A c \in Clients \ {k} : Unsent(c)' => Unsent(c)
  PROVE  Wakeful'
<1>0. chan \in [Clients -> Nat]  BY DEF Inv, Types
<1>1. /\ chan' = [chan EXCEPT ![k] = ActivityFor(k)] /\ tokens' = tokens \cup {ActivityFor(k)}
  BY DEF Kick
<1>2. ActivityFor(k) \in {chan[k], FreshChannel}  BY DEF ActivityFor
<1>3. /\ chan'[k] = ActivityFor(k)
      /\ \A c \in Clients \ {k} : chan'[c] = chan[c]
  BY <1>0, <1>1
<1>4. Only(h)  BY DEF Only, Advance
<1>5. Channels'
  <2>1. \A c \in Clients : chan'[c] \in {0, chan[c]} \/ (c = k /\ chan'[c] = FreshChannel)
    BY <1>2, <1>3
  <2>2. ASSUME NEW g \in Handlers
        PROVE  \/ hnd'[g] \in {hnd[g], Idle}
               \/ /\ hnd[g] # Idle /\ hnd'[g].client = hnd[g].client /\ hnd'[g].ch = hnd[g].ch
                  /\ hnd'[g].at \in Captured => hnd[g].at \in Captured
    <3>1. CASE hnd' = hnd  BY <3>1
    <3>2. CASE hnd' # hnd /\ g = h  BY <3>2 DEF Advance, Captured
    <3>3. CASE g # h  BY <1>4, <3>3 DEF Only
    <3> QED  BY <3>1, <3>2, <3>3
  <2> QED  BY <2>1, <2>2, ChannelsStep DEF Wakeful
<1>6. ASSUME NEW c \in Clients, Owed(c)' PROVE Served(c)'
  <2>1. CASE c = k  BY <1>1, <1>3, <2>1 DEF Served
  <2>2. CASE c # k
    <3>1. h \in Handlers => ~(hnd'[h] # hnd[h] /\ hnd[h].client = c)  BY <2>2 DEF Advance
    <3>2. Unanswered(c)' => Unanswered(c)
      <4>1. CASE hnd' = hnd  BY <4>1 DEF Unanswered
      <4>2. CASE hnd' # hnd
        <5>1. h \in Handlers /\ hnd[h].client = k  BY <4>2
        <5> QED  BY <1>4, <2>2, <5>1, UnansweredBefore
      <4> QED  BY <4>1, <4>2
    <3>3. Owed(c)  BY <1>6, <2>2, <3>2 DEF Owed
    <3>4. Served(c)  BY <3>3 DEF Wakeful
    <3>5. chan'[c] = chan[c] /\ tokens \subseteq tokens'  BY <1>1, <1>3, <2>2
    <3>6. CASE hnd' = hnd  BY <3>4, <3>5, <3>6 DEF Served, Draining
    <3>7. CASE hnd' # hnd
      <4>1. h \in Handlers /\ hnd[h].client = k  BY <3>7
      <4> QED  BY <1>4, <2>2, <3>4, <3>5, <4>1, ServedKeeps
    <3> QED  BY <3>6, <3>7
  <2> QED  BY <2>1, <2>2
<1> QED  BY <1>5, <1>6 DEF Wakeful

LEMMA ArriveWakes ==
  ASSUME Wakeful, Inv, NEW h \in Handlers, NEW k \in Clients, NEW s \in Ids,
         NEW frames \in Requests, Arrive(h, k, s, frames)
  PROVE  Wakeful'
<1> DEFINE to == IF frames = <<>> THEN "capture" ELSE "route"
           r  == [at |-> to, client |-> k, id |-> s, frames |-> frames, inst |-> 0,
                  ch |-> 0, late |-> FALSE, out |-> {}]
<1>1. /\ UNCHANGED <<inst, table, answers, chan, tokens>> /\ hnd' = [hnd EXCEPT ![h] = r]
      /\ hnd[h] = Idle /\ hnd \in [Handlers -> Tunnels \cup {Idle}]
  BY DEF Arrive, wakes, Inv, Types
<1>2. to \in {"capture", "route"}  OBVIOUS
<1> HIDE DEF to
<1>3. r.ch = 0 /\ r.at = to  BY Zenon
<1> HIDE DEF r
<1>4. Only(h) /\ hnd'[h] = r  BY <1>1 DEF Only
<1>5. hnd[h].at \notin {"drain", "rstKick"}  BY <1>1 DEF Idle
<1>6. hnd'[h].ch = 0 /\ hnd'[h].at \notin Captured  BY <1>2, <1>3, <1>4 DEF Captured
<1>7. \A c \in Clients : Unsent(c)' => Unsent(c)  BY <1>1, SameUnsent
<1> QED  BY <1>1, <1>4, <1>5, <1>6, <1>7, QuietStep

(* Steps of a handler that leave the sessions alone, kick and drain none.  *)
LEMMA HandlerWakes ==
  ASSUME Wakeful, Inv, NEW h \in Handlers,
         \/ Route(h) \/ Resolve(h) \/ Lookup(h) \/ DialFails(h)
         \/ Deadline(h) \/ Hangup(h) \/ EmptyReply(h)
  PROVE  Wakeful'
<1>0. hnd \in [Handlers -> Tunnels \cup {Idle}]  BY DEF Inv, Types
<1>1. /\ UNCHANGED <<inst, table, answers, chan, tokens>>
      /\ hnd[h].at \notin {"drain", "rstKick", "idle"}
  BY DEF Route, Resolve, Lookup, DialFails, Deadline, Hangup, EmptyReply, wakes
<1>2. hnd[h] \in Tunnels /\ hnd[h] # Idle  BY <1>1, Busy DEF Inv
<1>3. \A c \in Clients : Unsent(c)' => Unsent(c)  BY <1>1, SameUnsent
<1>4. CASE \E to : Advance(h, to) /\ (to \in Captured => hnd[h].at \in Captured)
  <2>1. Only(h) /\ hnd'[h].client = hnd[h].client /\ hnd'[h].ch = hnd[h].ch
        /\ (hnd'[h].at \in Captured => hnd[h].at \in Captured)
    BY <1>4 DEF Advance
  <2> QED  BY <1>1, <1>2, <1>3, <2>1, QuietStep
<1>5. CASE Route(h)
  <2>1. CASE \E to \in {"resolve", "version", "rst"} : Goto(h, to)
    <3> PICK to \in {"resolve", "version", "rst"} : Goto(h, to)  BY <2>1
    <3>1. Advance(h, to)  BY <1>1, GotoAdvance
    <3> QED  BY <1>4, <3>1 DEF Captured
  <2>2. CASE hnd' = [hnd EXCEPT ![h] = [@ EXCEPT !.at = "deliver", !.inst = table[hnd[h].id]]]
    <3> DEFINE r == [hnd[h] EXCEPT !.at = "deliver", !.inst = table[hnd[h].id]]
    <3>1. r.at = "deliver" /\ r.client = hnd[h].client /\ r.ch = hnd[h].ch
      BY <1>2 DEF Tunnels
    <3>2. hnd' = [hnd EXCEPT ![h] = r]  BY <2>2
    <3> HIDE DEF r
    <3>3. r # Idle  BY <3>1 DEF Idle
    <3>4. Advance(h, "deliver")  BY <1>0, <3>1, <3>2, <3>3 DEF Advance, Only
    <3> QED  BY <1>4, <3>4 DEF Captured
  <2> QED  BY <1>5, <2>1, <2>2 DEF Route
<1>6. CASE Resolve(h) \/ Lookup(h)
  <2>1. PICK to \in {"dialCached", "lookup", "dial"} : Goto(h, to)
    BY <1>6 DEF Resolve, Lookup
  <2>2. Advance(h, to)  BY <1>1, <2>1, GotoAdvance
  <2> QED  BY <1>4, <2>2 DEF Captured
<1>7. CASE DialFails(h)
  <2>1. NextFrame(h) /\ hnd[h].at \in Routing  BY <1>7 DEF DialFails, Routing
  <2>2. PICK to \in {"capture", "route"} : Advance(h, to)  BY <2>1, FrameAdvance
  <2> QED  BY <1>4, <2>2 DEF Captured
<1>8. CASE Deadline(h)
  <2> DEFINE r == [hnd[h] EXCEPT !.at = "drain", !.late = TRUE]
  <2>1. hnd' = [hnd EXCEPT ![h] = r] /\ hnd[h].at = "wait"  BY <1>8 DEF Deadline
  <2>2. r.at = "drain" /\ r.client = hnd[h].client /\ r.ch = hnd[h].ch  BY <1>2 DEF Tunnels
  <2> HIDE DEF r
  <2>3. r # Idle  BY <2>2 DEF Idle
  <2>4. Advance(h, "drain")  BY <1>0, <2>1, <2>2, <2>3 DEF Advance, Only
  <2> QED  BY <1>4, <2>1, <2>4 DEF Captured
<1>9. CASE Hangup(h) \/ EmptyReply(h)
  <2>1. hnd' = [hnd EXCEPT ![h] = Idle]  BY <1>9 DEF Hangup, EmptyReply
  <2>2. Only(h) /\ hnd'[h] = Idle  BY <1>0, <2>1 DEF Only
  <2> QED  BY <1>1, <1>3, <2>2, QuietStep
<1> QED  BY <1>5, <1>6, <1>7, <1>8, <1>9

(* The answer waits for its kick, then has it. *)
LEMMA AnswerWakes ==
  ASSUME Wakeful, Inv, NEW h \in Handlers, QueueRst(h) \/ RstKick(h) PROVE Wakeful'
<1> DEFINE k == hnd[h].client
<1>0. /\ hnd[h].at \in {"rst", "version", "rstKick"} /\ hnd[h].at # "idle"
      /\ hnd[h].at \in Routing /\ UNCHANGED <<inst, table>>
  BY DEF QueueRst, RstKick, Routing
<1>1. hnd[h] \in Tunnels /\ hnd[h] # Idle  BY <1>0, Busy DEF Inv
<1>2. k \in Clients  BY <1>1 DEF Tunnels
<1>3. \A c \in Clients : Unsent(c)' => Unsent(c)  BY <1>0, SameUnsent
<1>4. CASE QueueRst(h)
  <2>0. /\ UNCHANGED <<chan, tokens>> /\ hnd[h].at \notin {"drain", "rstKick"}
        /\ \A c \in Clients \ {k} : answers'[c] = answers[c]
    <3>1. answers \in [Clients -> SUBSET (Ids \X {"rst", "version"})]  BY DEF Inv, Types
    <3>2. answers' = [answers EXCEPT ![k] = @ \cup {<<hnd[h].id, hnd[h].at>>}]
      BY <1>4 DEF QueueRst
    <3> HIDE DEF k
    <3>3. \A c \in Clients \ {k} : answers'[c] = answers[c]  BY <3>1, <3>2
    <3> QED  BY <1>4, <3>3 DEF QueueRst, wakes
  <2>1. Advance(h, "rstKick")  BY <1>0, <1>4, GotoAdvance DEF QueueRst
  <2>2. Channels'
    <3>1. \A g \in Handlers :
            \/ hnd'[g] = hnd[g]
            \/ /\ hnd[g] # Idle /\ hnd'[g].client = hnd[g].client /\ hnd'[g].ch = hnd[g].ch
               /\ hnd'[g].at \in Captured => hnd[g].at \in Captured
      BY <1>1, <2>1 DEF Advance, Only, Captured
    <3> QED  BY <2>0, <3>1, ChannelsStep DEF Wakeful
  <2>3. ASSUME NEW c \in Clients, Owed(c)' PROVE Served(c)'
    <3>1. Unanswered(c)' => Unanswered(c)
      <4>1. CASE c = k  BY <2>1, <4>1 DEF Advance, Unanswered, Idle
      <4>2. CASE c # k  BY <2>0, <2>1, <4>2, UnansweredBefore DEF Advance
      <4> QED  BY <4>1, <4>2
    <3>2. Served(c)  BY <1>3, <2>3, <3>1 DEF Owed, Wakeful
    <3> QED  BY <2>0, <2>1, <3>2, ServedKeeps DEF Advance
  <2> QED  BY <2>2, <2>3 DEF Wakeful
<1>5. CASE RstKick(h)
  <2>1. Kick(k) /\ NextFrame(h) /\ answers' = answers  BY <1>5 DEF RstKick
  <2>2. \E to \in {"capture", "route"} : Advance(h, to)  BY <1>0, <2>1, FrameAdvance
  <2> QED  BY <1>1, <1>2, <1>3, <2>1, <2>2, KickServes
<1> QED  BY <1>4, <1>5

(* A handler that takes a channel, or its token, drains next. *)
LEMMA WaitWakes ==
  ASSUME Wakeful, Inv, NEW h \in Handlers, Capture(h) \/ Wake(h) PROVE Wakeful'
<1> DEFINE k == hnd[h].client
<1>0. /\ hnd[h].at \in {"capture", "wait"} /\ hnd[h].at # "idle"
      /\ UNCHANGED <<inst, table, answers>>
      /\ hnd \in [Handlers -> Tunnels \cup {Idle}] /\ chan \in [Clients -> Nat]
  BY DEF Capture, Wake, Inv, Types
<1>1. hnd[h] \in Tunnels /\ hnd[h] # Idle  BY <1>0, Busy DEF Inv
<1>2. k \in Clients  BY <1>1 DEF Tunnels
<1>3. /\ Only(h) /\ hnd'[h] # Idle /\ hnd'[h].at = "drain" /\ hnd'[h].client = k
      /\ Capture(h) => hnd'[h].ch = ActivityFor(k)
      /\ Wake(h) => hnd'[h].ch = hnd[h].ch
  <2>1. CASE Capture(h)
    <3> DEFINE ch == ActivityFor(k)
               r  == [hnd[h] EXCEPT !.at = "drain", !.ch = ch]
    <3>1. hnd' = [hnd EXCEPT ![h] = r]  BY <2>1 DEF Capture
    <3> HIDE DEF ch
    <3>2. r.at = "drain" /\ r.client = hnd[h].client /\ r.ch = ch  BY <1>1 DEF Tunnels
    <3> HIDE DEF r
    <3>3. r # Idle  BY <3>2 DEF Idle
    <3>4. ~Wake(h)  BY <2>1 DEF Capture, Wake
    <3> QED  BY <1>0, <3>1, <3>2, <3>3, <3>4 DEF Only, ch
  <2>2. CASE Wake(h)
    <3>1. Advance(h, "drain")  BY <1>0, <2>2, GotoAdvance DEF Wake
    <3>2. ~Capture(h)  BY <2>2 DEF Capture, Wake
    <3> QED  BY <3>1, <3>2 DEF Advance
  <2> QED  BY <2>1, <2>2
<1>4. /\ \A c \in Clients \ {k} : /\ chan'[c] = chan[c]
                                  /\ chan[c] # 0 /\ chan[c] \in tokens => chan[c] \in tokens'
      /\ Capture(h) => chan'[k] = ActivityFor(k)
      /\ Wake(h) => chan' = chan
  <2>1. CASE Capture(h)
    <3>1. /\ chan' = [chan EXCEPT ![k] = ActivityFor(k)]
          /\ tokens' = IF chan[k] = 0 THEN tokens \ {ActivityFor(k)} ELSE tokens
      BY <2>1 DEF Capture
    <3>2. chan[k] = 0 => ActivityFor(k) = FreshChannel  BY DEF ActivityFor
    <3>3. ~Wake(h)  BY <2>1 DEF Capture, Wake
    <3> HIDE DEF k
    <3> QED  BY <1>0, <1>2, <3>1, <3>2, <3>3, FreshFacts
  <2>2. CASE Wake(h)
    <3>1. chan' = chan /\ tokens' = tokens \ {hnd[h].ch}  BY <2>2 DEF Wake
    <3>2. \A c \in Clients : chan[c] # 0 /\ chan[c] = hnd[h].ch => c = k
      BY <1>1 DEF Wakeful, Channels
    <3>3. ~Capture(h)  BY <2>2 DEF Capture, Wake
    <3> QED  BY <3>1, <3>2, <3>3
  <2> QED  BY <2>1, <2>2
<1>5. Channels'
  <2>1. ActivityFor(k) \in {chan[k], FreshChannel} /\ ActivityFor(k) # 0
    <3>1. ActivityFor(k) \in Nat \ {0}  BY <1>2, ActivityType DEF Inv
    <3> QED  BY <3>1 DEF ActivityFor
  <2>2. \A c \in Clients : chan'[c] \in {0, chan[c]} \/ (c = k /\ chan'[c] = FreshChannel)
    BY <1>4, <2>1
  <2>3. ASSUME NEW g \in Handlers
        PROVE  \/ hnd'[g] = hnd[g]
               \/ /\ hnd[g] # Idle /\ hnd'[g].client = hnd[g].client /\ hnd'[g].ch = hnd[g].ch
                  /\ hnd'[g].at \in Captured => hnd[g].at \in Captured
               \/ k \in Clients /\ hnd'[g].client = k /\ hnd'[g].ch = chan'[k] /\ chan'[k] # 0
    <3>1. CASE g # h  BY <1>3, <3>1 DEF Only
    <3>2. CASE g = h /\ Wake(h)
      <4>1. hnd[h].at \in Captured  BY <3>2 DEF Wake, Captured
      <4> QED  BY <1>1, <1>3, <3>2, <4>1
    <3>3. CASE g = h /\ Capture(h)  BY <1>2, <1>3, <1>4, <2>1, <3>3
    <3> QED  BY <3>1, <3>2, <3>3
  <2> HIDE DEF k
  <2> QED  BY <2>2, <2>3, ChannelsStep DEF Wakeful
<1>6. ASSUME NEW c \in Clients, Owed(c)' PROVE Served(c)'
  <2>1. CASE c = k
    <3>1. Draining(c)'  BY <1>3, <2>1 DEF Draining
    <3> QED  BY <3>1 DEF Served
  <2>2. CASE c # k
    <3>1. Unsent(c)' => Unsent(c)  BY <1>0, SameUnsent
    <3>2. Unanswered(c)' => Unanswered(c)
      <4>1. hnd[h].at # "rstKick" /\ answers'[c] = answers[c]  BY <1>0
      <4> QED  BY <1>3, <4>1, UnansweredBefore
    <3>3. Served(c)  BY <1>6, <3>1, <3>2 DEF Owed, Wakeful
    <3>4. CASE chan[c] = 0  BY <1>4, <2>2, <3>4 DEF Served
    <3>5. CASE chan[c] # 0
      <4>1. /\ hnd[h].at # "drain" /\ chan'[c] = chan[c]
            /\ chan[c] \in tokens => chan[c] \in tokens'
        BY <1>0, <1>4, <2>2, <3>5
      <4> QED  BY <1>3, <3>3, <4>1, ServedKeeps
    <3> QED  BY <3>4, <3>5
  <2> QED  BY <2>1, <2>2
<1> QED  BY <1>5, <1>6 DEF Wakeful

(* drainAll: its client has nothing coming any more, whatever it leaves to *)
(* the read pumps is not kicked yet.                                       *)
LEMMA DrainWakes ==
  ASSUME Wakeful, Inv, NoStrandedTx, DrainsEmpty, NEW h \in Handlers, Drain(h) \/ Coalesce(h)
  PROVE  Wakeful'
<1> DEFINE k == hnd[h].client
<1>0. /\ table' = table /\ chan' = chan /\ hnd[h].at \in {"drain", "reply"} /\ DrainAll(h)
      /\ hnd[h].at # "idle" /\ tokens \ {hnd[h].ch} \subseteq tokens'
      /\ hnd \in [Handlers -> Tunnels \cup {Idle}]
  BY DEF Drain, Coalesce, wakes, Inv, Types
<1>1. hnd[h] \in Tunnels /\ hnd[h] # Idle  BY <1>0, Busy DEF Inv
<1>2. k \in Clients  BY <1>1 DEF Tunnels
<1>3. PICK visited \in SUBSET Drainable(k) :
        /\ DOMAIN inst' = DOMAIN inst
        /\ \A i \in DOMAIN inst : SameButTx(inst'[i], inst[i])
        /\ \A i \in DOMAIN inst :
             ~(Registered(i) /\ inst[i].id \in visited) => inst'[i] = inst[i]
        /\ answers' = [answers EXCEPT ![k] = {}]
        /\ \E r \in Tunnels : /\ hnd' = [hnd EXCEPT ![h] = r]
                              /\ r.client = hnd[h].client /\ r.ch = hnd[h].ch
                              /\ r.at \in {"wait", "reply", "end"}
  BY <1>0, DrainAllFacts
<1>4. /\ Only(h) /\ hnd'[h].client = k /\ hnd'[h].ch = hnd[h].ch
      /\ hnd[h].at \in Captured
  BY <1>0, <1>3 DEF Only, Captured
<1>5. answers'[k] = {} /\ \A c \in Clients \ {k} : answers'[c] = answers[c]
  <2>1. answers \in [Clients -> SUBSET (Ids \X {"rst", "version"})]  BY DEF Inv, Types
  <2> HIDE DEF k
  <2> QED  BY <1>2, <1>3, <2>1
<1>6. Channels'
  <2>1. \A c \in Clients : chan'[c] \in {0, chan[c]}  BY <1>0
  <2>2. \A g \in Handlers :
          \/ hnd'[g] = hnd[g]
          \/ /\ hnd[g] # Idle /\ hnd'[g].client = hnd[g].client /\ hnd'[g].ch = hnd[g].ch
             /\ hnd'[g].at \in Captured => hnd[g].at \in Captured
    BY <1>1, <1>4 DEF Only
  <2> QED  BY <2>1, <2>2, ChannelsStep DEF Wakeful
<1>7. ASSUME NEW c \in Clients, c = k PROVE ~Owed(c)'
  <2>1. ~Unanswered(c)'  BY <1>5, <1>7 DEF Unanswered
  <2>2. ASSUME NEW i \in DOMAIN inst, table[inst[i].id] = i, inst[i].owner = k,
               inst[i].pump \in Kicked, HasPendingTx(inst'[i].tx)
        PROVE  FALSE
    <3>0. inst[i].id \in Ids /\ i # 0
      <4>1. inst[i] \in Insts /\ DOMAIN inst = 1..Len(inst) /\ Len(inst) \in Nat
        BY InstOf, InstFacts DEF Inv
      <4> QED  BY <4>1 DEF Insts
    <3>1. inst[i].id \notin Drainable(k)  BY <2>2 DEF DrainsEmpty
    <3>2. inst'[i] = inst[i]  BY <1>3, <3>1
    <3>3. inst[i].id \in txReady
      BY <2>2, <3>2 DEF NoStrandedTx, Registered, Kicked
    <3> QED  BY <2>2, <3>0, <3>1, <3>3 DEF Drainable
  <2>3. ~Unsent(c)'
    <3> SUFFICES ASSUME NEW i \in DOMAIN inst, Registered(i)', inst'[i].owner = c,
                        inst'[i].pump \in Kicked, HasPendingTx(inst'[i].tx)
                 PROVE  FALSE
      BY <1>3 DEF Unsent
    <3>1. inst'[i].id = inst[i].id /\ inst'[i].owner = inst[i].owner
          /\ inst'[i].pump = inst[i].pump
      BY <1>3 DEF SameButTx
    <3> QED  BY <1>0, <1>7, <2>2, <3>1 DEF Registered
  <2> QED  BY <2>1, <2>3 DEF Owed
<1>8. ASSUME NEW c \in Clients, c # k, Owed(c)' PROVE Served(c)'
  <2>1. Unsent(c)' => Unsent(c)
    <3>1. ASSUME NEW i \in DOMAIN inst', Registered(i)', inst'[i].owner = c,
                 inst'[i].pump \in Kicked, HasPendingTx(inst'[i].tx)
          PROVE  /\ i \in DOMAIN inst /\ Registered(i) /\ inst[i].owner = c
                 /\ inst[i].pump \in Kicked /\ HasPendingTx(inst[i].tx)
      <4>1. i \in DOMAIN inst /\ inst'[i].id = inst[i].id /\ inst'[i].owner = inst[i].owner
            /\ inst'[i].pump = inst[i].pump
        BY <1>3, <3>1 DEF SameButTx
      <4>2. Registered(i)  BY <1>0, <3>1, <4>1 DEF Registered
      <4>3. inst[i].id \notin visited
        <5>1. inst[i].id \in Drainable(k) => inst[i].owner = k
          BY <4>2 DEF Drainable, Registered
        <5> QED  BY <1>8, <3>1, <4>1, <5>1
      <4>4. inst'[i] = inst[i]  BY <1>3, <4>1, <4>3
      <4> QED  BY <3>1, <4>1, <4>2, <4>4
    <3> QED  BY <3>1, UnsentBefore
  <2>2. Unanswered(c)' => Unanswered(c)
    <3>1. hnd[h].at # "rstKick" /\ answers'[c] = answers[c]  BY <1>0, <1>5, <1>8
    <3> QED  BY <1>4, <3>1, UnansweredBefore
  <2>3. Served(c)  BY <1>8, <2>1, <2>2 DEF Owed, Wakeful
  <2>4. CASE chan[c] = 0  BY <1>0, <2>4 DEF Served
  <2>5. CASE chan[c] # 0
    <3>1. chan[c] # hnd[h].ch  BY <1>1, <1>8, <2>5 DEF Wakeful, Channels
    <3>2. chan[c] \in tokens => chan[c] \in tokens'  BY <1>0, <3>1
    <3>3. ~(hnd[h].client = c /\ hnd[h].at = "drain") /\ chan'[c] = chan[c]  BY <1>0, <1>8
    <3> QED  BY <1>4, <2>3, <3>2, <3>3, ServedKeeps
  <2> QED  BY <2>4, <2>5
<1>9. \A c \in Clients : Owed(c)' => Served(c)'
  BY <1>7, <1>8
<1> QED  BY <1>6, <1>9 DEF Wakeful

(* openSession's new session has nothing to send. *)
LEMMA OpenWakes ==
  ASSUME Wakeful, Inv, NEW h \in Handlers, Open(h) PROVE Wakeful'
<1> DEFINE n == Len(inst) + 1
           new == [id |-> hnd[h].id, owner |-> hnd[h].client, tx |-> NewTx(FALSE),
                   reads |-> 0, rx |-> "open", up |-> "open", pump |-> "read"]
           r == [hnd[h] EXCEPT !.at = "deliver", !.inst = n]
<1>1. /\ inst' = Append(inst, new) /\ table' = [table EXCEPT ![hnd[h].id] = n]
      /\ UNCHANGED <<answers, chan, tokens>> /\ hnd[h].at \in {"dial", "dialCached"}
      /\ hnd' = [hnd EXCEPT ![h] = r] /\ hnd \in [Handlers -> Tunnels \cup {Idle}]
  BY DEF Open, wakes, Inv, Types
<1>2. new.tx = NewTx(FALSE)  BY Zenon
<1> HIDE DEF new
<1>3. hnd[h] \in Tunnels /\ hnd[h] # Idle  BY <1>1, Busy DEF Inv
<1>4. r.at = "deliver" /\ r.client = hnd[h].client /\ r.ch = hnd[h].ch  BY <1>3 DEF Tunnels
<1> HIDE DEF r
<1>5. /\ Only(h) /\ hnd'[h].client = hnd[h].client /\ hnd'[h].ch = hnd[h].ch
      /\ hnd'[h].at \notin Captured /\ hnd[h].at \notin {"drain", "rstKick"}
  BY <1>1, <1>4 DEF Only, Captured
<1>6. /\ inst \in Seq(Insts) /\ table \in [Ids -> 0..Len(inst)] /\ Len(inst) \in Nat
      /\ DOMAIN inst = 1..Len(inst) /\ \A i \in DOMAIN inst : inst[i] \in Insts
  BY InstFacts DEF Inv, Types
<1>7. /\ DOMAIN inst' = 1..n /\ inst'[n] = new
      /\ \A j \in 1..Len(inst) : inst'[j] = inst[j]
  BY <1>1, <1>6
<1>8. ASSUME NEW i \in DOMAIN inst', Registered(i)', HasPendingTx(inst'[i].tx)
      PROVE  i \in DOMAIN inst /\ Registered(i) /\ inst'[i] = inst[i]
  <2>1. i # n
    <3>1. ~HasPendingTx(NewTx(FALSE))  BY DEF NewTx, HasPendingTx, FinPending
    <3>2. ASSUME i = n PROVE FALSE
      <4>1. inst'[i].tx = NewTx(FALSE)  BY <1>2, <1>7, <3>2
      <4> QED  BY <1>8, <3>1, <4>1
    <3> QED  BY <3>2
  <2>2. i \in DOMAIN inst /\ inst'[i] = inst[i]  BY <1>6, <1>7, <2>1
  <2>3. table'[inst[i].id] = i /\ inst[i].id \in Ids  BY <1>6, <1>8, <2>2 DEF Registered, Insts
  <2>4. Registered(i)  BY <1>1, <1>6, <2>1, <2>3 DEF Registered
  <2> QED  BY <2>2, <2>4
<1>9. \A c \in Clients : Unsent(c)' => Unsent(c)  BY <1>8, UnsentBefore
<1> QED  BY <1>1, <1>3, <1>5, <1>9, QuietStep

(* Sessions keep what they have to send and their pumps' positions, the    *)
(* table only shrinks.                                                     *)
LEMMA UnsentShrinks ==
  ASSUME NEW c \in Clients, DOMAIN inst' = DOMAIN inst, 0 \notin DOMAIN inst,
         \A i \in DOMAIN inst : /\ inst'[i].id = inst[i].id /\ inst'[i].owner = inst[i].owner
                                /\ inst'[i].tx = inst[i].tx /\ inst'[i].pump = inst[i].pump,
         \A i \in DOMAIN inst : table'[inst[i].id] \in {0, table[inst[i].id]},
         Unsent(c)'
  PROVE  Unsent(c)
<1>1. ASSUME NEW i \in DOMAIN inst, Registered(i)' PROVE Registered(i)
  <2>1. table'[inst[i].id] = i  BY <1>1 DEF Registered
  <2> QED  BY <2>1 DEF Registered
<1> QED  BY <1>1, UnsentBefore

LEMMA DeliverWakes ==
  ASSUME Wakeful, Inv, NEW h \in Handlers, Deliver(h) PROVE Wakeful'
<1> DEFINE k == hnd[h].inst
<1>0. /\ UNCHANGED <<table, answers, chan, tokens>> /\ hnd[h].at = "deliver"
      /\ NextFrame(h) /\ hnd[h].at \in Routing
  BY DEF Deliver, wakes, Routing
<1>1. /\ 0 \notin DOMAIN inst /\ \A i \in DOMAIN inst : inst[i] \in Insts
  BY InstFacts DEF Inv
<1>2. k \in DOMAIN inst  BY <1>0 DEF Inv, References, Grounded
<1>3. hnd[h] # Idle  BY <1>0, Busy DEF Inv
<1>4. PICK to \in {"capture", "route"} : Advance(h, to)  BY <1>0, FrameAdvance
<1>5. \A c \in Clients : Unsent(c)' => Unsent(c)
  <2>1. inst' = inst \/ \E x \in {"stopped", "closed"} : inst' = [inst EXCEPT ![k].rx = x]
    BY DEF Deliver
  <2>2. CASE inst' = inst  BY <1>0, <2>2, SameUnsent
  <2>3. CASE \E x \in {"stopped", "closed"} : inst' = [inst EXCEPT ![k].rx = x]
    <3> PICK x \in {"stopped", "closed"} : inst' = [inst EXCEPT ![k].rx = x]  BY <2>3
    <3> DEFINE r == [inst[k] EXCEPT !.rx = x]
    <3>1. /\ r.id = inst[k].id /\ r.owner = inst[k].owner
          /\ r.tx = inst[k].tx /\ r.pump = inst[k].pump
      BY <1>1, <1>2 DEF Insts
    <3>2. inst' = [inst EXCEPT ![k] = r]  OBVIOUS
    <3> HIDE DEF r, k
    <3>3. /\ DOMAIN inst' = DOMAIN inst
          /\ \A i \in DOMAIN inst : inst'[i] = IF i = k THEN r ELSE inst[i]
      BY <1>2, <3>2
    <3> QED  BY <1>0, <1>1, <3>1, <3>3, UnsentShrinks
  <2> QED  BY <2>1, <2>2, <2>3
<1> QED  BY <1>0, <1>3, <1>4, <1>5, QuietStep DEF Advance, Captured

(* gcDoneSessions takes a channel only from a client without sessions. *)
LEMMA ReplyWakes ==
  ASSUME Wakeful, Inv, NEW h \in Handlers, Reply(h) PROVE Wakeful'
<1>1. PICK done \in SUBSET DOMAIN inst : Collect(done)  BY ReplyCollects
<1>2. /\ DOMAIN inst' = DOMAIN inst
      /\ \A i \in DOMAIN inst : /\ inst'[i].id = inst[i].id /\ inst'[i].owner = inst[i].owner
                                /\ inst'[i].tx = inst[i].tx /\ inst'[i].pump = inst[i].pump
      /\ \A s \in Ids : table'[s] = IF table[s] \in done THEN 0 ELSE table[s]
  BY <1>1, CollectFacts
<1>3. 0 \notin DOMAIN inst /\ \A i \in DOMAIN inst : inst[i].id \in Ids
  <2>1. 0 \notin DOMAIN inst /\ \A i \in DOMAIN inst : inst[i] \in Insts
    BY InstFacts DEF Inv
  <2> QED  BY <2>1 DEF Insts
<1>4. \A c \in Clients : Unsent(c)' => Unsent(c)
  <2>1. \A i \in DOMAIN inst : table'[inst[i].id] \in {0, table[inst[i].id]}  BY <1>2, <1>3
  <2> QED  BY <1>2, <1>3, <2>1, UnsentShrinks
<1>5. \A c \in Clients : chan'[c] \in {0, chan[c]}  BY <1>1 DEF Collect
<1>6. answers' = answers /\ tokens' = tokens /\ hnd[h].at = "reply"  BY DEF Reply
<1>7. Only(h) /\ hnd'[h] = Idle
  <2>1. hnd \in [Handlers -> Tunnels \cup {Idle}] /\ hnd' = [hnd EXCEPT ![h] = Idle]
    BY DEF Reply, Inv, Types
  <2> QED  BY <2>1 DEF Only
<1> QED  BY <1>4, <1>5, <1>6, <1>7, QuietStep

(* No handler, channel or answer changes. *)
LEMMA StillStep ==
  ASSUME Wakeful, UNCHANGED <<hnd, chan, tokens, answers>>,
         \A c \in Clients : Unsent(c)' => Unsent(c)
  PROVE  Wakeful'
<1>1. Channels'  BY DEF Wakeful, Channels
<1>2. ASSUME NEW c \in Clients, Owed(c)' PROVE Served(c)'
  <2>1. Unanswered(c)' => Unanswered(c)  BY DEF Unanswered
  <2>2. Served(c)  BY <1>2, <2>1 DEF Owed, Wakeful
  <2> QED  BY <2>2 DEF Served, Draining
<1> QED  BY <1>1, <1>2 DEF Wakeful

(* Only its kick takes a read pump to where its owner has been kicked. *)
LEMMA PumpKicks ==
  ASSUME Inv, NEW i \in DOMAIN inst, Pumps(i), ~KickOwner(i)
  PROVE  /\ UNCHANGED <<chan, tokens>>
         /\ inst'[i].pump \in Kicked => inst[i].pump \in Kicked
<1>1. inst[i] \in Insts  BY InstOf
<1>2. UNCHANGED <<chan, tokens>>
  BY DEF Pumps, ReadData, Enqueue, ReadEnd, Mark, ReadPumpEnds, WritePumpEnds, RxLoopEnds,
         IdleClose, wakes
<1> SUFFICES inst'[i].pump \in Kicked => inst[i].pump \in Kicked  BY <1>2
<1>3. CASE ReadData(i)  BY <1>3 DEF ReadData, Kicked
<1>4. CASE ReadPumpEnds(i)  BY <1>4 DEF ReadPumpEnds, Kicked
<1>5. CASE Enqueue(i) \/ ReadEnd(i)
  <2> PICK t \in {EnqueueTx(inst[i].tx, <<0>>), RequestClose(inst[i].tx)},
           p \in {"mark", "markFin"} :
        inst' = [inst EXCEPT ![i] = [@ EXCEPT !.tx = t, !.pump = p]]
    BY <1>5 DEF Enqueue, ReadEnd
  <2> DEFINE r == [inst[i] EXCEPT !.tx = t, !.pump = p]
  <2>1. r.pump = p  BY <1>1 DEF Insts
  <2>2. inst'[i] = r  OBVIOUS
  <2> HIDE DEF r
  <2> QED  BY <2>1, <2>2 DEF Kicked
<1>6. CASE Mark(i)
  <2> PICK p \in {"kick", "kickFin"} : inst' = [inst EXCEPT ![i].pump = p]  BY <1>6 DEF Mark
  <2> DEFINE r == [inst[i] EXCEPT !.pump = p]
  <2>1. r.pump = p  BY <1>1 DEF Insts
  <2>2. inst'[i] = r  OBVIOUS
  <2> HIDE DEF r
  <2> QED  BY <2>1, <2>2 DEF Kicked
<1>7. CASE WritePumpEnds(i) \/ RxLoopEnds(i) \/ IdleClose(i)
  <2> DEFINE a == [inst[i] EXCEPT !.up = "closed"]
             b == [inst[i] EXCEPT !.rx = "closed"]
             d == [inst[i] EXCEPT !.up = "closed", !.rx = "closed"]
  <2>1. a.pump = inst[i].pump /\ b.pump = inst[i].pump /\ d.pump = inst[i].pump
    BY <1>1 DEF Insts
  <2>2. inst'[i] \in {a, b, d}  BY <1>7 DEF WritePumpEnds, RxLoopEnds, IdleClose
  <2> HIDE DEF a, b, d
  <2> QED  BY <2>1, <2>2
<1> QED  BY <1>3, <1>4, <1>5, <1>6, <1>7 DEF Pumps

LEMMA PumpWakes ==
  ASSUME Wakeful, Inv, NEW i \in DOMAIN inst, Pumps(i) PROVE Wakeful'
<1>1. UNCHANGED <<table, answers, hnd>>  BY PumpTurn DEF Frames
<1>2. PICK r \in Insts : Turn(i, r)  BY PumpTurn
<1>3. /\ DOMAIN inst' = DOMAIN inst
      /\ \A j \in DOMAIN inst : inst'[j] = IF j = i THEN r ELSE inst[j]
      /\ r.id = inst[i].id /\ r.owner = inst[i].owner
      /\ r.tx = inst[i].tx \/ r.pump \notin Kicked
  BY <1>2 DEF Turn, Marking, Kicked
<1>4. \A j \in DOMAIN inst : Registered(j)' => Registered(j)  BY <1>1, <1>3 DEF Registered
<1>5. CASE KickOwner(i)
  <2> DEFINE k == inst[i].owner
  <2>1. Kick(k) /\ k \in Clients
    <3>1. inst[i] \in Insts  BY InstOf
    <3> QED  BY <1>5, <3>1 DEF KickOwner, Insts
  <2>2. ASSUME NEW c \in Clients, c # k, Unsent(c)' PROVE Unsent(c)
    <3>1. \A j \in DOMAIN inst' : inst'[j].owner = c => inst'[j] = inst[j]
      BY <1>3, <2>2
    <3> QED  BY <1>3, <1>4, <2>2, <3>1, UnsentBefore
  <2>3. \A c \in Clients \ {k} : Unsent(c)' => Unsent(c)  BY <2>2
  <2> HIDE DEF k
  <2> QED  BY <1>1, <2>1, <2>3, KickServes
<1>6. CASE ~KickOwner(i)
  <2>1. UNCHANGED <<chan, tokens>> /\ (inst'[i].pump \in Kicked => inst[i].pump \in Kicked)
    BY <1>6, PumpKicks
  <2>2. \A c \in Clients : Unsent(c)' => Unsent(c)
    BY <1>3, <1>4, <2>1, UnsentBefore
  <2> QED  BY <1>1, <2>1, <2>2, StillStep
<1> QED  BY <1>5, <1>6

LEMMA TimerWakes ==
  ASSUME Wakeful, Inv,
         (\E t \in failed : DialBackoffEnds(t)) \/ (\E s \in Ids : IdleGc(s)) \/ UNCHANGED vars
  PROVE  Wakeful'
<1>0. UNCHANGED <<hnd, chan, tokens, answers, inst>>
  BY DEF DialBackoffEnds, IdleGc, vars, wakes
<1>1. CASE table' = table  BY <1>0, <1>1, SameUnsent, StillStep
<1>2. CASE \E s \in Ids : IdleGc(s)
  <2> PICK s \in Ids : table' = [table EXCEPT ![s] = 0]  BY <1>2 DEF IdleGc
  <2>1. table \in [Ids -> 0..Len(inst)]  BY DEF Inv, Types
  <2>2. 0 \notin DOMAIN inst /\ \A i \in DOMAIN inst : inst[i] \in Insts
    BY InstFacts DEF Inv
  <2>3. \A i \in DOMAIN inst : table'[inst[i].id] \in {0, table[inst[i].id]}
    BY <2>1, <2>2 DEF Insts
  <2>4. \A c \in Clients : Unsent(c)' => Unsent(c)  BY <1>0, <2>2, <2>3, UnsentShrinks
  <2> QED  BY <1>0, <2>4, StillStep
<1> QED  BY <1>1, <1>2 DEF DialBackoffEnds, vars

LEMMA WakefulStep ==
  ASSUME Wakeful, Inv, NoStrandedTx, [Next]_vars, DrainsEmpty \/ UNCHANGED vars PROVE Wakeful'
<1>1. CASE UNCHANGED vars  BY <1>1, TimerWakes
<1>2. CASE Next /\ DrainsEmpty
  <2>1. CASE \E h \in Handlers, c \in Clients, s \in Ids, frames \in Requests :
               Arrive(h, c, s, frames)
    BY <2>1, ArriveWakes
  <2>2. CASE \E h \in Handlers : Handler(h)
    <3> PICK h \in Handlers : Handler(h)  BY <2>2
    <3>1. CASE Route(h) \/ Resolve(h) \/ Lookup(h) \/ DialFails(h)
               \/ Deadline(h) \/ Hangup(h) \/ EmptyReply(h)
      BY <3>1, HandlerWakes
    <3>2. CASE QueueRst(h) \/ RstKick(h)  BY <3>2, AnswerWakes
    <3>3. CASE Open(h)  BY <3>3, OpenWakes
    <3>4. CASE Deliver(h)  BY <3>4, DeliverWakes
    <3>5. CASE Capture(h) \/ Wake(h)  BY <3>5, WaitWakes
    <3>6. CASE Drain(h) \/ Coalesce(h)  BY <1>2, <3>6, DrainWakes
    <3>7. CASE Reply(h)  BY <3>7, ReplyWakes
    <3> QED  BY <3>1, <3>2, <3>3, <3>4, <3>5, <3>6, <3>7 DEF Handler
  <2>3. CASE \E i \in DOMAIN inst : Pumps(i)  BY <2>3, PumpWakes
  <2>4. CASE (\E t \in failed : DialBackoffEnds(t)) \/ (\E s \in Ids : IdleGc(s))
    BY <2>4, TimerWakes
  <2> QED  BY <1>2, <2>1, <2>2, <2>3, <2>4 DEF Next
<1> QED  BY <1>1, <1>2

LEMMA WakefulInit == Init => Wakeful
<1> SUFFICES ASSUME Init PROVE Wakeful  OBVIOUS
<1>1. inst = <<>> /\ (\A h \in Handlers : hnd[h] = Idle) /\ \A c \in Clients : chan[c] = 0
  BY DEF Init
<1> QED  BY <1>1 DEF Wakeful, Channels, Served

LEMMA WakefulSuffices == Inv /\ Wakeful => WaiterIsWoken
<1> SUFFICES ASSUME Inv, Wakeful, NEW h \in Handlers, hnd[h] # Idle, hnd[h].at = "wait",
                    hnd[h].ch = chan[hnd[h].client], Owed(hnd[h].client)
             PROVE  \/ chan[hnd[h].client] \in tokens
                    \/ Draining(hnd[h].client)
  BY DEF WaiterIsWoken, Owed, Unsent, Unanswered, Draining, Kicked
<1>1. hnd[h].client \in Clients
  <2>1. hnd[h] \in Tunnels  BY DEF Inv, Types
  <2> QED  BY <2>1 DEF Tunnels
<1>2. chan[hnd[h].client] # 0  BY DEF Wakeful, Channels, Captured
<1> QED  BY <1>1, <1>2 DEF Wakeful, Served

(* handleTunnel captures the wake channel before its first drain, so no    *)
(* kick is lost, whoever deletes or recreates channels and however many    *)
(* handlers compete for a token: as long as drains leave nothing behind,   *)
(* what was kicked for has a token or a handler on its way.  What a drain  *)
(* leaves, at a frame or byte budget, is the only thing nobody wakes for   *)
(* (exit.go, drainAll keeps such a session in txReady and does not kick).  *)
THEOREM OnlyALeftoverIsNotWokenFor ==
  Spec /\ [][DrainsEmpty]_vars => []WaiterIsWoken
<1>1. Init => Wakeful  BY WakefulInit
<1>2. Inv /\ NoStrandedTx /\ Wakeful /\ [Next]_vars /\ [DrainsEmpty]_vars => Wakeful'
  BY WakefulStep
<1> QED  BY <1>1, <1>2, Invariance, NothingStranded, WakefulSuffices, PTL DEF Spec
=============================================================================
