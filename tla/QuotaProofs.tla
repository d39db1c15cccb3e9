----------------------------- MODULE QuotaProofs -----------------------------
(* Proofs about module Quota, for any number of concurrent executions, any *)
(* length of the day and any bounds.                                       *)
EXTENDS Quota, FiniteSetTheorems, SequenceTheorems, TLAPS

Pcs == {"idle", "read", "list", "prune", "write", "forward", "report"}

Executions ==
  [pc : Pcs \ {"idle"}, today : Days, mine : BOOLEAN, cur : Nat, stale : SUBSET Days]

(* The shape of the state, as far as the count depends on it. *)
Types ==
  /\ now \in Days
  /\ cal.day \in 0..now
  /\ DOMAIN props \subseteq Days
  /\ \A d \in DOMAIN props : props[d] \in Nat
  /\ posts \in [Days -> Nat]
  /\ execs \in [Execs -> Executions \cup {Idle}]
  /\ ep = [count |-> ep.count, resetAt |-> ep.resetAt, script |-> ep.script]
  /\ ep.script \in Nat

(* Executions of day d that have not written their count yet. *)
Pending(d) == {e \in Execs : execs[e].pc \in Counting /\ execs[e].today = d}

Unwritten(d) == Cardinality(Pending(d))

(* Every execution still to write has been paid for in posts: whatever an  *)
(* execution has read, it may add its own one, and so may all the others.  *)
Paid ==
  /\ \A d \in Days : Unwritten(d) <= posts[d]
  /\ \A d \in DOMAIN props : props[d] + Unwritten(d) <= posts[d]
  /\ \A e \in Execs : execs[e].pc \in Counting =>
       execs[e].cur + Unwritten(execs[e].today) <= posts[execs[e].today]

Reported ==
  /\ \A e \in Execs : execs[e].pc = "report" => execs[e].cur <= posts[execs[e].today]
  /\ \E d \in Days : ep.script <= posts[d]

IInv == Types /\ Paid /\ Reported

---------------------------------------------------------------------------
(* The executions still to write are finitely many. *)
LEMMA PendingFinite ==
  \A d : IsFiniteSet(Pending(d)) /\ Unwritten(d) \in Nat
<1>1. IsFiniteSet(Execs)  BY QuotaAssumption
<1>2. \A d : Pending(d) \subseteq Execs  BY DEF Pending
<1> QED  BY <1>1, <1>2, FS_Subset, FS_CardinalityType DEF Unwritten

(* An initial state satisfies the invariant: nothing has been counted. *)
LEMMA InitIInv == Init => IInv
<1> SUFFICES ASSUME Init PROVE IInv  OBVIOUS
<1>0. MaxNow \in Nat  BY QuotaAssumption
<1>1. Types  BY <1>0 DEF Init, Types, Days, NewEndpoint
<1>2. \A e \in Execs : execs[e].pc = "idle"  BY DEF Init, Idle
<1>3. \A d : Unwritten(d) = 0
  <2>1. \A d : Pending(d) = {}  BY <1>2 DEF Pending, Counting
  <2> QED  BY <2>1, FS_EmptySet DEF Unwritten
<1>4. Paid  BY <1>2, <1>3 DEF Init, Paid, Counting
<1>5. Reported  BY <1>0, <1>2 DEF Init, Reported, NewEndpoint, Days
<1> QED  BY <1>1, <1>4, <1>5 DEF IInv

(* The shape of the state is kept by every step. *)
LEMMA TypesStep == Types /\ [Next]_vars => Types'
<1> SUFFICES ASSUME Types, [Next]_vars PROVE Types'  OBVIOUS
<1> USE DEF Types
<1>0. MaxNow \in Nat  BY QuotaAssumption
<1>1. CASE Tick  BY <1>0, <1>1 DEF Tick, SameDay, NextDay, Days
<1>2. CASE Look  BY <1>2 DEF Look, Touch
<1>3. CASE StartClient
  BY <1>3 DEF StartClient, NewEndpoint, Active, Executions, Idle
<1>4. ASSUME NEW e \in Execs, Script(e) PROVE Types'
  <2>0. execs[e] \in Executions \cup {Idle} /\ cal.day \in Days  BY <1>0 DEF Days
  <2> USE DEF Executions, Idle, Pcs
  <2>1. CASE DoPost(e)  BY <2>0, <2>1 DEF DoPost, MayAsk
  <2>2. CASE ReadCount(e)
    <3>1. execs[e] \in Executions  BY <2>0, <2>2 DEF ReadCount
    <3>2. execs' \in [Execs -> Executions \cup {Idle}]  BY <3>1, <2>2 DEF ReadCount
    <3> QED  BY <3>2, <2>2 DEF ReadCount
  <2>3. CASE ListKeys(e)  BY <2>0, <2>3 DEF ListKeys
  <2>4. CASE DeleteKey(e)
    <3>1. execs[e] \in Executions  BY <2>0, <2>4 DEF DeleteKey
    <3>2. execs' \in [Execs -> Executions \cup {Idle}]  BY <3>1, <2>4 DEF DeleteKey
    <3> QED  BY <3>2, <2>4 DEF DeleteKey
  <2>5. CASE WriteCount(e)
    <3>1. execs[e] \in Executions  BY <2>0, <2>5 DEF WriteCount
    <3>2. execs' \in [Execs -> Executions \cup {Idle}]
      BY <3>1, <2>5 DEF WriteCount, Forward
    <3>3. execs[e].today \in Days /\ execs[e].cur + 1 \in Nat  BY <3>1
    <3> QED  BY <3>2, <3>3, <2>5 DEF WriteCount
  <2>6. CASE PropertyError(e)
    <3>1. execs[e] \in Executions  BY <2>0, <2>6 DEF PropertyError, Counting
    <3>2. execs' \in [Execs -> Executions \cup {Idle}]
      BY <3>1, <2>6 DEF PropertyError, Forward
    <3> QED  BY <3>2, <2>6 DEF PropertyError
  <2>7. CASE DoGet(e)  BY <2>0, <2>7 DEF DoGet, MayAsk
  <2>8. CASE Answer(e)
    <3>1. execs[e].cur \in Nat  BY <2>0, <2>8 DEF Answer
    <3>2. /\ ep' = [count |-> ep'.count, resetAt |-> ep'.resetAt, script |-> ep'.script]
          /\ ep'.script \in {ep.script, execs[e].cur}
      BY <2>8 DEF Answer, BumpDailyCount, Touch
    <3> QED  BY <3>1, <3>2, <2>8 DEF Answer
  <2>9. CASE ProbeAnswer(e) \/ Discard(e)  BY <2>0, <2>9 DEF ProbeAnswer, Discard
  <2>10. CASE GiveUp(e)  BY <2>0, <2>10 DEF GiveUp, Active
  <2> QED  BY <1>4, <2>1, <2>2, <2>3, <2>4, <2>5, <2>6, <2>7, <2>8, <2>9, <2>10 DEF Script
<1>5. CASE UNCHANGED vars  BY <1>5 DEF vars
<1> QED  BY <1>1, <1>2, <1>3, <1>4, <1>5 DEF Next

---------------------------------------------------------------------------
(* A step that lets nobody join the executions still to write, and where   *)
(* an execution learns nothing but the count of its date, keeps Paid.      *)
LEMMA PaidShrinks ==
  ASSUME Types, Types', Paid,
         \A d \in Days : posts[d] <= posts'[d],
         DOMAIN props' \subseteq DOMAIN props,
         \A d \in DOMAIN props' : props'[d] = props[d],
         \A e \in Execs : execs'[e].pc \in Counting =>
           /\ execs[e].pc \in Counting
           /\ execs'[e].today = execs[e].today
           /\ \/ execs'[e].cur = execs[e].cur
              \/ execs[e].today \in DOMAIN props /\ execs'[e].cur = props[execs[e].today]
  PROVE  Paid'
<1>1. \A d : Pending(d)' \subseteq Pending(d)  BY DEF Pending
<1>2. \A d : Unwritten(d)' \in Nat /\ Unwritten(d) \in Nat /\ Unwritten(d)' <= Unwritten(d)
  BY <1>1, PendingFinite, FS_Subset, FS_CardinalityType DEF Unwritten
<1>3. \A d \in Days : posts[d] \in Nat /\ posts'[d] \in Nat  BY DEF Types
<1>4. \A d \in Days : Unwritten(d)' <= posts'[d]  BY <1>2, <1>3 DEF Paid
<1>5. \A d \in DOMAIN props' : props'[d] + Unwritten(d)' <= posts'[d]
  BY <1>2, <1>3 DEF Paid, Types
<1>6. ASSUME NEW e \in Execs, NEW d \in Days, execs'[e].pc \in Counting, execs'[e].today = d
      PROVE  execs'[e].cur + Unwritten(d)' <= posts'[d]
  <2>1. execs[e] \in Executions
    BY <1>6 DEF Types, Idle, Counting
  <2>2. execs[e].today = d /\ execs[e].cur \in Nat  BY <1>6, <2>1 DEF Executions
  <2>3. execs[e].cur + Unwritten(d) <= posts[d]  BY <1>6, <2>2 DEF Paid
  <2>4. d \in DOMAIN props => props[d] \in Nat /\ props[d] + Unwritten(d) <= posts[d]
    BY DEF Paid, Types
  <2>5. execs'[e].cur \in Nat /\ execs'[e].cur + Unwritten(d) <= posts[d]
    BY <1>6, <2>2, <2>3, <2>4
  <2> QED  BY <1>2, <1>3, <2>5
<1>7. \A e \in Execs : execs'[e].pc \in Counting => execs'[e].today \in Days
  BY DEF Types, Executions, Idle, Counting
<1>8. \A e \in Execs : execs'[e].pc \in Counting =>
        \A d \in Days : d = execs'[e].today => execs'[e].cur + Unwritten(d)' <= posts'[d]
  BY <1>6
<1> QED  BY <1>4, <1>5, <1>7, <1>8 DEF Paid

(* An execution that begins is paid for by the post that begins it. *)
LEMMA PaidDoPost ==
  ASSUME Types, Types', Paid, NEW e \in Execs, DoPost(e), execs'[e].pc = "read"
  PROVE  Paid'
<1> DEFINE t == cal.day
<1>0. t \in Days /\ MaxNow \in Nat  BY QuotaAssumption DEF Types, Days
<1>1. execs[e] = Idle /\ execs'[e].today = t /\ execs'[e].cur = 0
  BY DEF DoPost, MayAsk, Types
<1>2. \A f \in Execs \ {e} : execs'[f] = execs[f]  BY DEF DoPost, Types
<1>3. posts' = [posts EXCEPT ![t] = @ + 1] /\ props' = props  BY DEF DoPost
<1>4. \A d : d # t => Pending(d)' = Pending(d)
  BY <1>1, <1>2 DEF Pending, Idle, Counting
<1>5. \A d : d = t => e \notin Pending(d) /\ Pending(d)' = Pending(d) \cup {e}
  BY <1>1, <1>2 DEF Pending, Idle, Counting
<1>6. \A d : /\ Unwritten(d) \in Nat /\ Unwritten(d)' \in Nat
             /\ d # t => Unwritten(d)' = Unwritten(d)
             /\ d = t => Unwritten(d)' = Unwritten(d) + 1
  BY <1>4, <1>5, PendingFinite, FS_AddElement, FS_CardinalityType DEF Unwritten
<1>7. \A d \in Days : /\ posts[d] \in Nat
                      /\ posts'[d] = IF d = t THEN posts[d] + 1 ELSE posts[d]
  BY <1>0, <1>3 DEF Types
<1> HIDE DEF t
<1>8. \A d \in Days : Unwritten(d)' <= posts'[d]  BY <1>6, <1>7 DEF Paid
<1>9. \A d \in DOMAIN props' : props'[d] + Unwritten(d)' <= posts'[d]
  BY <1>3, <1>6, <1>7 DEF Paid, Types
<1>10. ASSUME NEW f \in Execs, NEW d \in Days, execs'[f].pc \in Counting, execs'[f].today = d
       PROVE  execs'[f].cur + Unwritten(d)' <= posts'[d]
  <2>1. CASE f = e  BY <1>1, <1>6, <1>8, <1>10, <2>1
  <2>2. CASE f # e
    <3>1. execs[f] = execs'[f] /\ execs[f] \in Executions
      BY <1>2, <1>10, <2>2 DEF Types, Idle, Counting
    <3>2. execs[f].cur \in Nat  BY <3>1 DEF Executions
    <3>3. execs[f].cur + Unwritten(d) <= posts[d]  BY <1>10, <3>1 DEF Paid
    <3> QED  BY <1>6, <1>7, <3>1, <3>2, <3>3
  <2> QED  BY <2>1, <2>2
<1>11. \A f \in Execs : execs'[f].pc \in Counting => execs'[f].today \in Days
  BY DEF Types, Executions, Idle, Counting
<1>12. \A f \in Execs : execs'[f].pc \in Counting =>
         \A d \in Days : d = execs'[f].today => execs'[f].cur + Unwritten(d)' <= posts'[d]
  BY <1>10
<1> QED  BY <1>8, <1>9, <1>11, <1>12 DEF Paid

(* An execution that writes spends what was reserved for it. *)
LEMMA PaidWriteCount ==
  ASSUME Types, Types', Paid, NEW e \in Execs, WriteCount(e)
  PROVE  Paid'
<1> DEFINE t == execs[e].today
           c == execs[e].cur
<1>1. execs[e] \in Executions /\ execs[e].pc \in Counting
  BY DEF WriteCount, Types, Idle, Counting
<1>2. t \in Days /\ c \in Nat  BY <1>1 DEF Executions
<1>3. execs'[e].pc = "forward" /\ \A f \in Execs \ {e} : execs'[f] = execs[f]
  BY <1>1 DEF WriteCount, Forward, Types, Executions
<1>4. posts' = posts /\ props' = [d \in DOMAIN props \cup {t} |-> IF d = t THEN c + 1 ELSE props[d]]
  BY DEF WriteCount
<1>5. \A d : d # t => Pending(d)' = Pending(d)
  BY <1>1, <1>3 DEF Pending, Counting
<1>6. \A d : d = t => e \in Pending(d) /\ Pending(d)' = Pending(d) \ {e}
  BY <1>1, <1>3 DEF Pending, Counting
<1>7. \A d : /\ Unwritten(d) \in Nat /\ Unwritten(d)' \in Nat
             /\ d # t => Unwritten(d)' = Unwritten(d)
             /\ d = t => Unwritten(d)' = Unwritten(d) - 1
  BY <1>5, <1>6, PendingFinite, FS_RemoveElement, FS_CardinalityType DEF Unwritten
<1>8. \A d \in Days : posts[d] \in Nat  BY DEF Types
<1>9. \A d : d = t => c + Unwritten(d) <= posts[d]  BY <1>1 DEF Paid
<1> HIDE DEF t, c
<1>10. \A d \in Days : Unwritten(d)' <= posts'[d]  BY <1>4, <1>7, <1>8 DEF Paid
<1>11. \A d \in DOMAIN props' : props'[d] + Unwritten(d)' <= posts'[d]
  <2> SUFFICES ASSUME NEW d \in DOMAIN props' PROVE props'[d] + Unwritten(d)' <= posts'[d]
    OBVIOUS
  <2>1. CASE d = t  BY <1>2, <1>4, <1>7, <1>8, <1>9, <2>1
  <2>2. CASE d # t  BY <1>4, <1>7, <1>8, <2>2 DEF Paid, Types
  <2> QED  BY <2>1, <2>2
<1>12. ASSUME NEW f \in Execs, NEW d \in Days, execs'[f].pc \in Counting, execs'[f].today = d
       PROVE  execs'[f].cur + Unwritten(d)' <= posts'[d]
  <2>1. f # e  BY <1>3, <1>12 DEF Counting
  <2>2. execs[f] = execs'[f] /\ execs[f] \in Executions
    BY <1>3, <1>12, <2>1 DEF Types, Idle, Counting
  <2>3. execs[f].cur \in Nat  BY <2>2 DEF Executions
  <2>4. execs[f].cur + Unwritten(d) <= posts[d]  BY <1>12, <2>2 DEF Paid
  <2> QED  BY <1>4, <1>7, <1>8, <2>2, <2>3, <2>4
<1>13. \A f \in Execs : execs'[f].pc \in Counting => execs'[f].today \in Days
  BY DEF Types, Executions, Idle, Counting
<1>14. \A f \in Execs : execs'[f].pc \in Counting =>
         \A d \in Days : d = execs'[f].today => execs'[f].cur + Unwritten(d)' <= posts'[d]
  BY <1>12
<1> QED  BY <1>10, <1>11, <1>13, <1>14 DEF Paid

(* Every step keeps Paid. *)
LEMMA PaidStep == Types /\ Types' /\ Paid /\ [Next]_vars => Paid'
<1> SUFFICES ASSUME Types, Types', Paid, [Next]_vars PROVE Paid'  OBVIOUS
<1>0. /\ \A d \in Days : posts[d] \in Nat /\ posts[d] <= posts[d]
      /\ \A e \in Execs : execs[e] \in Executions \cup {Idle}
  BY DEF Types
<1>1. CASE Tick  BY <1>0, <1>1, PaidShrinks DEF Tick, SameDay, NextDay
<1>2. CASE Look  BY <1>0, <1>2, PaidShrinks DEF Look
<1>3. CASE StartClient
  <2>1. \A e \in Execs : execs'[e].pc \in Counting =>
          /\ execs[e].pc \in Counting
          /\ execs'[e].today = execs[e].today /\ execs'[e].cur = execs[e].cur
    BY <1>0, <1>3 DEF StartClient, Active, Executions, Idle, Counting
  <2>2. posts' = posts /\ props' = props  BY <1>3 DEF StartClient
  <2> QED  BY <1>0, <2>1, <2>2, PaidShrinks
<1>4. ASSUME NEW e \in Execs, Script(e) PROVE Paid'
  <2>0. execs \in [Execs -> Executions \cup {Idle}] /\ execs[e] \in Executions \cup {Idle}
    BY DEF Types
  <2>1. CASE DoPost(e)
    <3>1. CASE execs'[e].pc = "read"  BY <2>1, <3>1, PaidDoPost
    <3>2. CASE execs'[e].pc # "read"
      <4>1. \A f \in Execs : execs'[f].pc \in Counting => execs'[f] = execs[f]
        BY <2>0, <2>1, <3>2 DEF DoPost, Counting
      <4>2. \A d \in Days : posts[d] <= posts'[d]  BY <1>0, <2>1 DEF DoPost, Types
      <4>3. props' = props  BY <2>1 DEF DoPost
      <4> QED  BY <4>1, <4>2, <4>3, PaidShrinks
    <3> QED  BY <3>1, <3>2
  <2>2. CASE ReadCount(e)
    <3>1. execs[e] \in Executions  BY <2>0, <2>2 DEF ReadCount, Idle
    <3>2. \A f \in Execs : execs'[f].pc \in Counting =>
            /\ execs[f].pc \in Counting
            /\ execs'[f].today = execs[f].today
            /\ \/ execs'[f].cur = execs[f].cur
               \/ execs[f].today \in DOMAIN props /\ execs'[f].cur = props[execs[f].today]
      BY <2>0, <2>2, <3>1 DEF ReadCount, Executions, Counting
    <3>3. posts' = posts /\ props' = props  BY <2>2 DEF ReadCount
    <3> QED  BY <1>0, <3>2, <3>3, PaidShrinks
  <2>3. CASE ListKeys(e)
    <3>1. execs[e] \in Executions  BY <2>0, <2>3 DEF ListKeys, Idle
    <3>2. \A f \in Execs : execs'[f].pc \in Counting =>
            /\ execs[f].pc \in Counting
            /\ execs'[f].today = execs[f].today /\ execs'[f].cur = execs[f].cur
      BY <2>0, <2>3, <3>1 DEF ListKeys, Executions, Counting
    <3>3. posts' = posts /\ props' = props  BY <2>3 DEF ListKeys
    <3> QED  BY <1>0, <3>2, <3>3, PaidShrinks
  <2>4. CASE DeleteKey(e)
    <3>1. execs[e] \in Executions  BY <2>0, <2>4 DEF DeleteKey, Idle
    <3>2. \A f \in Execs : execs'[f].pc \in Counting =>
            /\ execs[f].pc \in Counting
            /\ execs'[f].today = execs[f].today /\ execs'[f].cur = execs[f].cur
      BY <2>0, <2>4, <3>1 DEF DeleteKey, Executions, Counting
    <3>3. /\ posts' = posts /\ DOMAIN props' \subseteq DOMAIN props
          /\ \A d \in DOMAIN props' : props'[d] = props[d]
      BY <2>4 DEF DeleteKey
    <3> QED  BY <1>0, <3>2, <3>3, PaidShrinks
  <2>5. CASE WriteCount(e)  BY <2>5, PaidWriteCount
  <2>6. CASE PropertyError(e)
    <3>1. execs[e] \in Executions  BY <2>0, <2>6 DEF PropertyError, Idle, Counting
    <3>2. \A f \in Execs : execs'[f].pc \in Counting => execs'[f] = execs[f]
      BY <2>0, <2>6, <3>1 DEF PropertyError, Forward, Executions, Counting
    <3>3. posts' = posts /\ props' = props  BY <2>6 DEF PropertyError
    <3> QED  BY <1>0, <3>2, <3>3, PaidShrinks
  <2>7. CASE DoGet(e)
    <3>1. \A f \in Execs : execs'[f].pc \in Counting => execs'[f] = execs[f]
      BY <2>0, <2>7 DEF DoGet, Counting
    <3>2. posts' = posts /\ props' = props  BY <2>7 DEF DoGet
    <3> QED  BY <1>0, <3>1, <3>2, PaidShrinks
  <2>8. CASE Answer(e) \/ ProbeAnswer(e) \/ Discard(e)
    <3>1. \A f \in Execs : execs'[f].pc \in Counting => execs'[f] = execs[f]
      BY <2>0, <2>8 DEF Answer, ProbeAnswer, Discard, Counting, Idle
    <3>2. posts' = posts /\ props' = props  BY <2>8 DEF Answer, ProbeAnswer, Discard
    <3> QED  BY <1>0, <3>1, <3>2, PaidShrinks
  <2>9. CASE GiveUp(e)
    <3>1. execs[e] \in Executions  BY <2>0, <2>9 DEF GiveUp, Active
    <3>2. \A f \in Execs : execs'[f].pc \in Counting =>
            /\ execs[f].pc \in Counting
            /\ execs'[f].today = execs[f].today /\ execs'[f].cur = execs[f].cur
      BY <2>0, <2>9, <3>1 DEF GiveUp, Executions, Counting
    <3>3. posts' = posts /\ props' = props  BY <2>9 DEF GiveUp
    <3> QED  BY <1>0, <3>2, <3>3, PaidShrinks
  <2> QED  BY <1>4, <2>1, <2>2, <2>3, <2>4, <2>5, <2>6, <2>7, <2>8, <2>9 DEF Script
<1>5. CASE UNCHANGED vars  BY <1>0, <1>5, PaidShrinks DEF vars
<1> QED  BY <1>1, <1>2, <1>3, <1>4, <1>5 DEF Next

(* A report carries a count the store held, and posts never decrease. *)
LEMMA ReportedStep == Types /\ Paid /\ Reported /\ [Next]_vars => Reported'
<1> SUFFICES ASSUME Types, Paid, Reported, [Next]_vars PROVE Reported'  OBVIOUS
<1>0. /\ execs \in [Execs -> Executions \cup {Idle}]
      /\ \A d \in Days : posts[d] \in Nat
      /\ cal.day \in Days
  BY QuotaAssumption DEF Types, Days
<1>1. CASE Tick  BY <1>1 DEF Tick, SameDay, NextDay, Reported
<1>2. CASE Look  BY <1>2 DEF Look, Touch, Reported, Types
<1>3. CASE StartClient
  <2>1. \A e \in Execs : execs'[e].pc = "report" =>
          /\ execs[e].pc = "report"
          /\ execs'[e].today = execs[e].today /\ execs'[e].cur = execs[e].cur
    BY <1>0, <1>3 DEF StartClient, Active, Executions, Idle
  <2>2. posts' = posts /\ ep'.script = 0  BY <1>3 DEF StartClient, NewEndpoint
  <2> QED  BY <1>0, <2>1, <2>2 DEF Reported
<1>4. ASSUME NEW e \in Execs, Script(e) PROVE Reported'
  <2>0. execs[e] \in Executions \cup {Idle}  BY <1>0
  <2>1. CASE DoPost(e)
    <3>1. \A d \in Days : posts'[d] \in Nat /\ posts[d] <= posts'[d]
      BY <1>0, <2>1 DEF DoPost, Types
    <3>2. \A f \in Execs : execs'[f].pc = "report" =>
            execs'[f] = execs[f] /\ execs[f].today \in Days /\ execs[f].cur \in Nat
      BY <1>0, <2>1 DEF DoPost, Executions, Idle
    <3>3. ep' = ep /\ ep.script \in Nat  BY <2>1 DEF DoPost, Types
    <3> QED  BY <1>0, <3>1, <3>2, <3>3 DEF Reported
  <2>2. CASE DoGet(e)
    <3>1. \A d \in DOMAIN props : props[d] <= posts[d]
      BY <1>0, PendingFinite DEF Paid, Types
    <3>2. execs'[e].today = cal.day /\ execs'[e].cur <= posts[cal.day]
      BY <1>0, <2>2, <3>1 DEF DoGet
    <3>3. \A f \in Execs \ {e} : execs'[f] = execs[f]  BY <1>0, <2>2 DEF DoGet
    <3>4. posts' = posts /\ ep' = ep  BY <2>2 DEF DoGet
    <3> QED  BY <3>2, <3>3, <3>4 DEF Reported
  <2>3. CASE Answer(e)
    <3>1. \A f \in Execs : execs'[f].pc = "report" => execs'[f] = execs[f]
      BY <1>0, <2>3 DEF Answer, Idle
    <3>2. ep'.script = ep.script \/ (execs[e].pc = "report" /\ ep'.script = execs[e].cur)
      BY <2>3 DEF Answer, BumpDailyCount, Touch, Types
    <3>3. posts' = posts  BY <2>3 DEF Answer
    <3>4. execs[e].pc = "report" => execs[e].today \in Days  BY <2>0 DEF Executions, Idle
    <3> QED  BY <3>1, <3>2, <3>3, <3>4 DEF Reported
  <2>4. CASE ReadCount(e) \/ ListKeys(e) \/ DeleteKey(e) \/ WriteCount(e)
               \/ PropertyError(e) \/ ProbeAnswer(e) \/ Discard(e)
    <3>1. execs[e] \in Executions
      BY <2>0, <2>4 DEF ReadCount, ListKeys, DeleteKey, WriteCount, PropertyError,
                        ProbeAnswer, Discard, Counting, Idle
    <3>2. execs'[e].pc # "report" /\ \A f \in Execs \ {e} : execs'[f] = execs[f]
      <4>1. CASE ReadCount(e)  BY <1>0, <3>1, <4>1 DEF ReadCount, Executions
      <4>2. CASE ListKeys(e)  BY <1>0, <3>1, <4>2 DEF ListKeys, Executions
      <4>3. CASE DeleteKey(e)
        <5>1. PICK k : execs' = [execs EXCEPT ![e].stale = @ \ {k}]  BY <4>3 DEF DeleteKey
        <5>2. execs[e].pc = "prune"  BY <4>3 DEF DeleteKey
        <5> QED  BY <1>0, <3>1, <5>1, <5>2 DEF Executions
      <4>4. CASE WriteCount(e) \/ PropertyError(e)
        <5>1. execs'[e].pc = "forward"
          BY <1>0, <3>1, <4>4 DEF WriteCount, PropertyError, Forward, Executions
        <5> QED  BY <1>0, <4>4, <5>1 DEF WriteCount, PropertyError
      <4>5. CASE ProbeAnswer(e) \/ Discard(e)  BY <1>0, <4>5 DEF ProbeAnswer, Discard, Idle
      <4> QED  BY <2>4, <4>1, <4>2, <4>3, <4>4, <4>5
    <3>3. posts' = posts /\ ep' = ep
      BY <2>4 DEF ReadCount, ListKeys, DeleteKey, WriteCount, PropertyError,
                  ProbeAnswer, Discard
    <3> QED  BY <3>2, <3>3 DEF Reported
  <2>5. CASE GiveUp(e)
    <3>1. execs[e] \in Executions  BY <2>0, <2>5 DEF GiveUp, Active
    <3>2. \A f \in Execs : execs'[f].pc = execs[f].pc
                          /\ execs'[f].today = execs[f].today /\ execs'[f].cur = execs[f].cur
      BY <1>0, <2>5, <3>1 DEF GiveUp, Executions
    <3>3. posts' = posts /\ ep' = ep  BY <2>5 DEF GiveUp
    <3> QED  BY <3>2, <3>3 DEF Reported
  <2> QED  BY <1>4, <2>1, <2>2, <2>3, <2>4, <2>5 DEF Script
<1>5. CASE UNCHANGED vars  BY <1>5 DEF vars, Reported
<1> QED  BY <1>1, <1>2, <1>3, <1>4, <1>5 DEF Next

---------------------------------------------------------------------------
(* bumpInvocationCount_ reads and writes the property store without a lock *)
(* and swallows its errors; still no date's count ever exceeds the doPost  *)
(* executions begun on that date, nor does the count the client shows,     *)
(* however many executions overlap.                                        *)
THEOREM CountsAreEarned == Spec => []ScriptNeverOvercounts
<1>1. Init => IInv  BY InitIInv
<1>2. IInv /\ [Next]_vars => IInv'
  BY TypesStep, PaidStep, ReportedStep DEF IInv
<1>3. IInv => ScriptNeverOvercounts
  <2> SUFFICES ASSUME IInv PROVE ScriptNeverOvercounts  OBVIOUS
  <2>1. \A d \in DOMAIN props : props[d] \in Nat /\ posts[d] \in Nat  BY DEF IInv, Types
  <2>2. \A d \in DOMAIN props : props[d] <= posts[d]
    BY <2>1, PendingFinite DEF IInv, Paid
  <2> QED  BY <2>2 DEF IInv, Reported, ScriptNeverOvercounts
<1> QED  BY <1>1, <1>2, <1>3, PTL DEF Spec

---------------------------------------------------------------------------
(* The second invariant: which dates the store may hold.  An execution of  *)
(* today writes today's date only after it has deleted, one by one, every  *)
(* other date it found; meanwhile others write today or yesterday.         *)
Today     == cal.day
Yesterday == cal.day - 1

Dates ==
  /\ \A d \in DOMAIN props : d <= Today
  /\ Today \in DOMAIN props => DOMAIN props \subseteq {Yesterday, Today}
  /\ \E d \in Days : DOMAIN props \subseteq {d - 1, d}

(* What an execution that may write leaves in the store beside its list. *)
Cleared(e) ==
  DOMAIN props \subseteq {Yesterday, Today} \cup execs[e].stale
    \cup (IF execs[e].today = Today THEN {} ELSE {Yesterday - 1})

Clearing ==
  \A e \in Execs : execs[e].pc \in Counting =>
    /\ execs[e].today \in {Yesterday, Today}
    /\ execs[e].pc # "prune" => execs[e].stale = {}
    /\ execs[e].pc \in {"prune", "write"} => Cleared(e)

(* Steps of executions that are not counting leave the store alone. *)
LEMMA StoreUntouched ==
  ASSUME Dates, Clearing, cal'.day = cal.day, props' = props,
         \A e \in Execs : execs'[e].pc \in Counting =>
           /\ execs'[e].pc = execs[e].pc
           /\ execs'[e].today = execs[e].today
           /\ execs'[e].stale = execs[e].stale
  PROVE  Dates' /\ Clearing'
BY DEF Dates, Clearing, Cleared, Today, Yesterday

(* A new day begins with executions of the day before under way. *)
LEMMA StoreTick == Types /\ Dates /\ Clearing /\ Tick => Dates' /\ Clearing'
<1> SUFFICES ASSUME Types, Dates, Clearing, Tick PROVE Dates' /\ Clearing'  OBVIOUS
<1>0. props' = props /\ execs' = execs /\ cal.day \in Nat  BY DEF Tick, SameDay, NextDay, Types, Days
<1>1. CASE cal'.day = cal.day  BY <1>0, <1>1, StoreUntouched
<1>2. CASE /\ \A e \in Execs : execs[e] # Idle => execs[e].today = cal.day
           /\ cal'.day = cal.day + 1
  <2>1. \A d \in DOMAIN props : d \in Nat /\ d <= cal.day
    BY DEF Types, Dates, Days, Today
  <2>2. Dates'
    BY <1>0, <1>2, <2>1 DEF Dates, Today, Yesterday
  <2>3. Clearing'
    BY <1>0, <1>2 DEF Clearing, Cleared, Today, Yesterday, Idle, Counting
  <2> QED  BY <2>2, <2>3
<1> QED  BY <1>1, <1>2 DEF Tick, SameDay, NextDay

(* The steps of bumpInvocationCount_. *)
LEMMA StoreCounting ==
  ASSUME Types, Dates, Clearing, NEW e \in Execs,
         ReadCount(e) \/ ListKeys(e) \/ DeleteKey(e) \/ WriteCount(e)
  PROVE  Dates' /\ Clearing'
<1>0. /\ cal' = cal /\ cal.day \in Nat
      /\ execs \in [Execs -> Executions \cup {Idle}]
      /\ execs[e] \in Executions
      /\ execs[e].pc \in Counting
      /\ \A d \in DOMAIN props : d \in Int
  BY DEF ReadCount, ListKeys, DeleteKey, WriteCount, Types, Days, Idle, Counting
<1>1. CASE ReadCount(e)
  <2>1. props' = props  BY <1>1 DEF ReadCount
  <2>2. \A f \in Execs \ {e} : execs'[f] = execs[f]  BY <1>0, <1>1 DEF ReadCount
  <2>3. /\ execs'[e].today = execs[e].today /\ execs'[e].stale = execs[e].stale
        /\ execs[e].stale = {}
        /\ \/ execs'[e].pc = "list"
           \/ execs'[e].pc = "write" /\ execs[e].today \in DOMAIN props
    BY <1>0, <1>1 DEF ReadCount, Executions, Clearing
  <2>4. execs[e].today \in DOMAIN props =>
          DOMAIN props \subseteq {Yesterday, Today}
            \cup (IF execs[e].today = Today THEN {} ELSE {Yesterday - 1})
    <3>1. execs[e].today \in {Yesterday, Today}  BY <1>0 DEF Clearing
    <3>2. CASE execs[e].today = Today  BY <3>2 DEF Dates
    <3>3. CASE Today \in DOMAIN props  BY <3>3 DEF Dates
    <3>4. CASE execs[e].today # Today /\ Today \notin DOMAIN props /\ Yesterday \in DOMAIN props
      BY <1>0, <3>4 DEF Dates, Today, Yesterday, Days
    <3> QED  BY <3>1, <3>2, <3>3, <3>4
  <2>5. Dates'  BY <1>0, <2>1 DEF Dates, Today, Yesterday
  <2>6. Clearing'
    BY <1>0, <2>1, <2>2, <2>3, <2>4 DEF Clearing, Cleared, Today, Yesterday, Counting
  <2> QED  BY <2>5, <2>6
<1>2. CASE ListKeys(e)
  <2>1. props' = props  BY <1>2 DEF ListKeys
  <2>2. \A f \in Execs \ {e} : execs'[f] = execs[f]  BY <1>0, <1>2 DEF ListKeys
  <2>3. /\ execs'[e].today = execs[e].today /\ execs'[e].pc = "prune"
        /\ execs'[e].stale = DOMAIN props \ {execs[e].today}
    BY <1>0, <1>2 DEF ListKeys, Executions
  <2>4. Dates'  BY <1>0, <2>1 DEF Dates, Today, Yesterday
  <2>5. Clearing'
    BY <1>0, <2>1, <2>2, <2>3 DEF Clearing, Cleared, Today, Yesterday, Counting
  <2> QED  BY <2>4, <2>5
<1>3. CASE DeleteKey(e)
  <2>1. PICK k \in execs[e].stale :
          /\ props' = [d \in DOMAIN props \ {k} |-> props[d]]
          /\ execs' = [execs EXCEPT ![e].stale = @ \ {k}]
    BY <1>3 DEF DeleteKey
  <2>2. \A f \in Execs \ {e} : execs'[f] = execs[f]  BY <1>0, <2>1
  <2>3. /\ execs'[e].today = execs[e].today /\ execs'[e].pc = "prune"
        /\ execs'[e].stale = execs[e].stale \ {k}
    BY <1>0, <1>3, <2>1 DEF DeleteKey, Executions
  <2>4. DOMAIN props' = DOMAIN props \ {k}  BY <2>1
  <2>5. Dates'  BY <1>0, <2>4 DEF Dates, Today, Yesterday
  <2>6. Clearing'
    BY <1>0, <1>3, <2>2, <2>3, <2>4 DEF DeleteKey, Clearing, Cleared, Today, Yesterday, Counting
  <2> QED  BY <2>5, <2>6
<1>4. CASE WriteCount(e)
  <2>1. \A f \in Execs \ {e} : execs'[f] = execs[f]  BY <1>0, <1>4 DEF WriteCount
  <2>2. execs'[e].pc \notin Counting
    BY <1>0, <1>4 DEF WriteCount, Forward, Executions, Counting
  <2>3. DOMAIN props' = DOMAIN props \cup {execs[e].today}  BY <1>4 DEF WriteCount
  <2>4. /\ execs[e].today \in {Yesterday, Today}
        /\ DOMAIN props \subseteq {Yesterday, Today}
             \cup (IF execs[e].today = Today THEN {} ELSE {Yesterday - 1})
    BY <1>0, <1>4 DEF WriteCount, Clearing, Cleared
  <2>5. execs[e].today \in Days /\ cal.day \in Days
    BY <1>0, QuotaAssumption DEF Executions, Types, Days
  <2>6. Dates'
    <3>1. CASE execs[e].today = Today
      BY <1>0, <2>3, <2>4, <2>5, <3>1 DEF Dates, Today, Yesterday
    <3>2. CASE execs[e].today = Yesterday
      BY <1>0, <2>3, <2>4, <2>5, <3>2 DEF Dates, Today, Yesterday
    <3> QED  BY <2>4, <3>1, <3>2
  <2>7. Clearing'
    BY <1>0, <2>1, <2>2, <2>3, <2>4 DEF Clearing, Cleared, Today, Yesterday
  <2> QED  BY <2>6, <2>7
<1> QED  BY <1>1, <1>2, <1>3, <1>4

(* Every step keeps the dates of the store together. *)
LEMMA StoreStep == Types /\ Dates /\ Clearing /\ [Next]_vars => Dates' /\ Clearing'
<1> SUFFICES ASSUME Types, Dates, Clearing, [Next]_vars PROVE Dates' /\ Clearing'  OBVIOUS
<1>0. execs \in [Execs -> Executions \cup {Idle}]  BY DEF Types
<1>1. CASE Tick  BY <1>1, StoreTick
<1>2. CASE Look  BY <1>2, StoreUntouched DEF Look
<1>3. CASE StartClient
  <2>1. \A e \in Execs : execs'[e].pc \in Counting =>
          /\ execs'[e].pc = execs[e].pc /\ execs'[e].today = execs[e].today
          /\ execs'[e].stale = execs[e].stale
    BY <1>0, <1>3 DEF StartClient, Active, Executions, Idle, Counting
  <2> QED  BY <1>3, <2>1, StoreUntouched DEF StartClient
<1>4. ASSUME NEW e \in Execs, Script(e) PROVE Dates' /\ Clearing'
  <2>0. execs[e] \in Executions \cup {Idle}  BY <1>0
  <2>1. CASE DoPost(e)
    <3>1. cal' = cal /\ props' = props  BY <2>1 DEF DoPost
    <3>2. \A f \in Execs \ {e} : execs'[f] = execs[f]  BY <1>0, <2>1 DEF DoPost
    <3>3. execs'[e].today = Today /\ execs'[e].stale = {} /\ execs'[e].pc \in {"read", "forward"}
      BY <1>0, <2>1 DEF DoPost, Today
    <3>4. Dates'  BY <3>1 DEF Dates, Today, Yesterday
    <3>5. Clearing'
      BY <3>1, <3>2, <3>3 DEF Clearing, Cleared, Today, Yesterday, Counting
    <3> QED  BY <3>4, <3>5
  <2>2. CASE ReadCount(e) \/ ListKeys(e) \/ DeleteKey(e) \/ WriteCount(e)
    BY <2>2, StoreCounting
  <2>3. CASE PropertyError(e)
    <3>1. execs[e] \in Executions  BY <2>0, <2>3 DEF PropertyError, Idle, Counting
    <3>2. \A f \in Execs : execs'[f].pc \in Counting => execs'[f] = execs[f]
      BY <1>0, <2>3, <3>1 DEF PropertyError, Forward, Executions, Counting
    <3> QED  BY <2>3, <3>2, StoreUntouched DEF PropertyError
  <2>4. CASE DoGet(e) \/ Answer(e) \/ ProbeAnswer(e) \/ Discard(e)
    <3>1. \A f \in Execs : execs'[f].pc \in Counting => execs'[f] = execs[f]
      BY <1>0, <2>4 DEF DoGet, Answer, ProbeAnswer, Discard, Idle, Counting
    <3>2. cal' = cal /\ props' = props  BY <2>4 DEF DoGet, Answer, ProbeAnswer, Discard
    <3> QED  BY <3>1, <3>2, StoreUntouched
  <2>5. CASE GiveUp(e)
    <3>1. execs[e] \in Executions  BY <2>0, <2>5 DEF GiveUp, Active
    <3>2. \A f \in Execs : /\ execs'[f].pc = execs[f].pc /\ execs'[f].today = execs[f].today
                           /\ execs'[f].stale = execs[f].stale
      BY <1>0, <2>5, <3>1 DEF GiveUp, Executions
    <3> QED  BY <2>5, <3>2, StoreUntouched DEF GiveUp
  <2> QED  BY <1>4, <2>1, <2>2, <2>3, <2>4, <2>5 DEF Script
<1>5. CASE UNCHANGED vars  BY <1>5, StoreUntouched DEF vars
<1> QED  BY <1>1, <1>2, <1>3, <1>4, <1>5 DEF Next

(* The first request of a day prunes before it writes, so the property     *)
(* store never holds more than the dates of two successive days, although  *)
(* calls fail, executions overlap and some cross midnight.                 *)
THEOREM StoreIsBounded == Spec => []StoreStaysSmall
<1>1. Init => Types /\ Dates /\ Clearing
  <2> SUFFICES ASSUME Init PROVE Types /\ Dates /\ Clearing  OBVIOUS
  <2>1. Types  BY InitIInv DEF IInv
  <2>2. DOMAIN props = {} /\ now \in Days  BY <2>1 DEF Init, Types
  <2>3. Dates  BY <2>2 DEF Dates
  <2>4. Clearing  BY DEF Init, Clearing, Idle, Counting
  <2> QED  BY <2>1, <2>3, <2>4
<1>2. Types /\ Dates /\ Clearing /\ [Next]_vars => (Types /\ Dates /\ Clearing)'
  BY TypesStep, StoreStep
<1>3. Dates => StoreStaysSmall  BY DEF Dates, StoreStaysSmall
<1> QED  BY <1>1, <1>2, <1>3, PTL DEF Spec
---------------------------------------------------------------------------
(* The client's window.                                                    *)

(* Today has begun and has not ended, in the Pacific calendar and in the   *)
(* client's; a Pacific day is at most one unit off.                        *)
Clock ==
  /\ now \in Nat /\ cal.midnight \in Nat /\ cal.local \in Int /\ cal.local + Day \in Nat
  /\ cal.length \in {Day - 1, Day, Day + 1} /\ cal.before \in {Day - 1, Day, Day + 1}
  /\ cal.midnight <= now /\ now < cal.midnight + cal.length
  /\ cal.local <= now
  /\ IF cal.fixed THEN now < cal.local + Day ELSE cal.local = cal.midnight

Past == hits \in Seq(Nat) /\ \A i \in DOMAIN hits : hits[i] <= now

Since(h, t) == Cardinality({i \in DOMAIN h : h[i] >= t})

(* The window p at time n of the day that began at m, l units of which     *)
(* belong to the window before: while it lasts it has counted exactly the  *)
(* answers since some time w of it, and once it has elapsed nothing was    *)
(* answered, except in the 25th hour of a long day.                        *)
Counts(p, h, n, m, l, w) ==
  /\ p.resetAt - Day <= w /\ w <= n
  /\ p.resetAt = m + Day => w <= m + l
  /\ p.count = Since(h, w)

Window(p, h, n, m, l) ==
  /\ p.count \in Nat
  /\ p.resetAt = Never => p.count = 0 /\ h = <<>>
  /\ p.resetAt # Never =>
       /\ p.resetAt \in Nat
       /\ p.resetAt <= m + l \/ p.resetAt = m + Day
       /\ \A i \in DOMAIN h : h[i] < m \/ h[i] < p.resetAt \/ n >= m + Day
       /\ n < p.resetAt => \E w \in Int : Counts(p, h, n, m, l, w)

EndpointShape == ep = [count |-> ep.count, resetAt |-> ep.resetAt, script |-> ep.script]

WindowInv ==
  /\ Clock /\ Past /\ EndpointShape
  /\ Window(ep, hits, now, cal.local, Late)

LEMMA SinceFacts ==
  ASSUME NEW h \in Seq(Nat)
  PROVE  /\ \A t : IsFiniteSet({i \in DOMAIN h : h[i] >= t}) /\ Since(h, t) \in Nat
         /\ \A t \in Int, u \in Int : u <= t => Since(h, t) <= Since(h, u)
         /\ \A t : (\A i \in DOMAIN h : ~(h[i] >= t)) => Since(h, t) = 0
<1>1. Len(h) \in Nat /\ DOMAIN h = 1..Len(h) /\ \A i \in DOMAIN h : h[i] \in Nat
  BY LenProperties, ElementOfSeq
<1>2. IsFiniteSet(DOMAIN h)  BY <1>1, FS_Interval
<1>3. \A t : {i \in DOMAIN h : h[i] >= t} \in SUBSET DOMAIN h  OBVIOUS
<1>4. \A t : IsFiniteSet({i \in DOMAIN h : h[i] >= t}) /\ Since(h, t) \in Nat
  BY <1>2, <1>3, FS_Subset, FS_CardinalityType DEF Since
<1>5. ASSUME NEW t \in Int, NEW u \in Int, u <= t PROVE Since(h, t) <= Since(h, u)
  <2>1. {i \in DOMAIN h : h[i] >= t} \in SUBSET {i \in DOMAIN h : h[i] >= u}
    BY <1>1, <1>5
  <2> QED  BY <1>4, <2>1, FS_Subset DEF Since
<1>6. ASSUME NEW t, \A i \in DOMAIN h : ~(h[i] >= t) PROVE Since(h, t) = 0
  <2>1. {i \in DOMAIN h : h[i] >= t} = {}  BY <1>6
  <2> QED  BY <2>1, FS_EmptySet DEF Since
<1> QED  BY <1>4, <1>5, <1>6

(* One more answer is one more. *)
LEMMA SinceAppend ==
  ASSUME NEW h \in Seq(Nat), NEW n \in Nat, NEW w \in Int, w <= n
  PROVE  Since(Append(h, n), w) = Since(h, w) + 1
<1> DEFINE A == {i \in DOMAIN h : h[i] >= w}
           k == Len(h) + 1
           g == Append(h, n)
<1>1. Len(h) \in Nat /\ DOMAIN h = 1..Len(h)  BY LenProperties
<1>2. g \in Seq(Nat) /\ Len(g) = k /\ g[k] = n /\ \A i \in 1..Len(h) : g[i] = h[i]
  BY AppendProperties
<1>3. DOMAIN g = 1..k  BY <1>2, LenProperties
<1>4. {i \in DOMAIN g : g[i] >= w} = A \cup {k} /\ k \notin A
  BY <1>1, <1>2, <1>3
<1>5. IsFiniteSet(A)  BY SinceFacts
<1> HIDE DEF A, k, g
<1>6. Cardinality(A \cup {k}) = Cardinality(A) + 1  BY <1>4, <1>5, FS_AddElement
<1> QED  BY <1>4, <1>6 DEF Since, A, g

(* What is forgotten was not counted. *)
LEMMA SinceForget ==
  ASSUME NEW h \in Seq(Nat), NEW k \in 0..Len(h), NEW t \in Int, NEW w \in Int, t <= w,
         \A i \in DOMAIN h : h[i] < t <=> i <= k
  PROVE  /\ SubSeq(h, k + 1, Len(h)) \in Seq(Nat)
         /\ Len(SubSeq(h, k + 1, Len(h))) = Len(h) - k
         /\ \A i \in DOMAIN SubSeq(h, k + 1, Len(h)) :
              i + k \in DOMAIN h /\ SubSeq(h, k + 1, Len(h))[i] = h[i + k]
         /\ Since(SubSeq(h, k + 1, Len(h)), w) = Since(h, w)
<1> DEFINE g == SubSeq(h, k + 1, Len(h))
           A == {i \in DOMAIN h : h[i] >= w}
           B == {i \in DOMAIN g : g[i] >= w}
<1>1. /\ Len(h) \in Nat /\ DOMAIN h = 1..Len(h) /\ k \in Nat /\ k <= Len(h)
      /\ \A i \in DOMAIN h : h[i] \in Nat
  BY LenProperties, ElementOfSeq
<1>2. \A i \in (k + 1)..Len(h) : h[i] \in Nat  BY <1>1
<1>3. /\ g \in Seq(Nat)
      /\ Len(g) = IF k + 1 <= Len(h) THEN Len(h) - (k + 1) + 1 ELSE 0
      /\ \A i \in 1..(Len(h) - (k + 1) + 1) : g[i] = h[k + 1 + i - 1]
  BY <1>1, <1>2, SubSeqProperties
<1> HIDE DEF g
<1>4. Len(g) = Len(h) - k
  <2>1. CASE k = Len(h)
    <3>1. ~(k + 1 <= Len(h)) /\ Len(h) - k = 0  BY <1>1, <2>1
    <3> QED  BY <1>3, <3>1
  <2>2. CASE k # Len(h)
    <3>0. \A a, b \in Nat : b <= a /\ b # a => b + 1 <= a /\ a - (b + 1) + 1 = a - b
      OBVIOUS
    <3> HIDE DEF A, B
    <3>1. k + 1 <= Len(h) /\ Len(h) - (k + 1) + 1 = Len(h) - k  BY <1>1, <2>2, <3>0
    <3> QED  BY <1>3, <3>1
  <2> QED  BY <2>1, <2>2
<1>5. DOMAIN g = 1..(Len(h) - k)  BY <1>3, <1>4, LenProperties
<1>6. \A i \in DOMAIN g : i + k \in DOMAIN h /\ g[i] = h[i + k]
  <2> SUFFICES ASSUME NEW i \in DOMAIN g PROVE i + k \in DOMAIN h /\ g[i] = h[i + k]
    OBVIOUS
  <2>1. i \in 1..(Len(h) - (k + 1) + 1) /\ k + 1 + i - 1 = i + k  BY <1>1, <1>5
  <2>2. i + k \in DOMAIN h  BY <1>1, <1>5
  <2> QED  BY <1>3, <2>1, <2>2
<1>7. Cardinality(A) = Cardinality(B)
  <2> DEFINE f == [i \in B |-> i + k]
  <2>1. f \in [B -> A]  BY <1>6
  <2>2. \A i, j \in B : f[i] = f[j] => i = j  BY <1>1, <1>5
  <2>3. ASSUME NEW a \in A PROVE \E i \in B : f[i] = a
    <3>1. ~(h[a] < t)  BY <1>1, <2>3
    <3>2. ~(a <= k)  BY <3>1
    <3>3. a - k \in 1..(Len(h) - k) /\ (a - k) + k = a  BY <1>1, <3>2
    <3>4. a - k \in B  BY <1>5, <1>6, <3>3
    <3> QED  BY <3>3, <3>4
  <2> HIDE DEF f, A, B
  <2>4. f \in Bijection(B, A)
    BY <2>1, <2>2, <2>3 DEF Bijection, Injection, Surjection, IsInjective
  <2>5. ExistsBijection(B, A)  BY <2>4 DEF ExistsBijection
  <2>6. IsFiniteSet(B)  BY <1>3, SinceFacts DEF B
  <2> QED  BY <2>5, <2>6, FS_Bijection
<1> QED  BY <1>3, <1>4, <1>6, <1>7 DEF Since, g

LEMMA LateFacts ==
  ASSUME Clock PROVE Late \in {0, 1} /\ Day \in Nat /\ Day >= 2
<1>1. Day \in Nat /\ Day >= 2  BY QuotaAssumption
<1> QED  BY <1>1 DEF Clock, Late

(* touchDailyWindow: the new window starts where the old one or yesterday  *)
(* ended, whichever was later.                                             *)
LEMMA TouchKeeps ==
  ASSUME WindowInv
  PROVE  /\ Window(Touch(ep), hits, now, cal.local, Late)
         /\ Touch(ep).resetAt \in Nat /\ Touch(ep).resetAt # Never
         /\ now < Touch(ep).resetAt \/ now >= cal.local + Day
         /\ ~(now < Touch(ep).resetAt) => Touch(ep).count = 0
         /\ Touch(ep) = [count |-> Touch(ep).count, resetAt |-> Touch(ep).resetAt,
                         script |-> Touch(ep).script]
<1> DEFINE m == cal.local
           p == Touch(ep)
<1>0. /\ Late \in {0, 1} /\ Day \in Nat /\ Day >= 2 /\ m \in Int /\ m + Day \in Nat
      /\ now \in Nat /\ m <= now
      /\ hits \in Seq(Nat) /\ \A i \in DOMAIN hits : hits[i] \in Nat /\ hits[i] <= now
  BY LateFacts, ElementOfSeq, LenProperties DEF WindowInv, Clock, Past
<1>1. Window(ep, hits, now, m, Late) /\ EndpointShape  BY DEF WindowInv
<1>2. CASE ep.resetAt = Never
  <2>1. p = [ep EXCEPT !.resetAt = m + Day]  BY <1>2 DEF Touch, NextQuotaReset
  <2>2. /\ p.resetAt = m + Day /\ p.count = ep.count /\ ep.count = 0 /\ hits = <<>>
        /\ p = [count |-> p.count, resetAt |-> p.resetAt, script |-> p.script]
    BY <1>1, <1>2, <2>1 DEF Window, EndpointShape
  <2> HIDE DEF p, m
  <2>3. Since(hits, m) = 0
    <3>1. \A i \in DOMAIN hits : ~(hits[i] >= m)  BY <2>2
    <3> QED  BY <1>0, <3>1, SinceFacts
  <2>4. Counts(p, hits, now, m, Late, m)  BY <1>0, <2>2, <2>3 DEF Counts
  <2>5. m + Day \in Nat /\ m + Day # Never  BY <1>0 DEF Never
  <2>6. Window(p, hits, now, m, Late)  BY <1>0, <2>2, <2>4, <2>5 DEF Window
  <2>7. now < m + Day \/ now >= m + Day  BY <1>0
  <2> QED  BY <2>2, <2>5, <2>6, <2>7 DEF p, m
<1>3. CASE ep.resetAt # Never /\ now < ep.resetAt
  <2>1. p = ep  BY <1>3 DEF Touch
  <2> QED  BY <1>1, <1>3, <2>1 DEF Window, EndpointShape
<1>4. CASE ep.resetAt # Never /\ ~(now < ep.resetAt)
  <2>1. p = [ep EXCEPT !.count = 0, !.resetAt = m + Day]
    BY <1>4 DEF Touch, NextQuotaReset
  <2>2. /\ p.resetAt = m + Day /\ p.count = 0
        /\ p = [count |-> p.count, resetAt |-> p.resetAt, script |-> p.script]
    BY <1>1, <2>1 DEF EndpointShape
  <2>3. /\ ep.resetAt \in Nat /\ ep.resetAt <= now
        /\ ep.resetAt <= m + Late \/ ep.resetAt = m + Day
        /\ \A i \in DOMAIN hits : hits[i] < m \/ hits[i] < ep.resetAt \/ now >= m + Day
    BY <1>0, <1>1, <1>4 DEF Window
  <2> HIDE DEF p, m
  <2>4. ASSUME now < m + Day PROVE \E w \in Int : Counts(p, hits, now, m, Late, w)
    <3> DEFINE w == IF ep.resetAt <= m THEN m ELSE ep.resetAt
    <3>1. w \in Int /\ m <= w /\ w <= now /\ w <= m + Late  BY <1>0, <2>3, <2>4
    <3>2. \A i \in DOMAIN hits : ~(hits[i] >= w)  BY <1>0, <2>3, <2>4
    <3> HIDE DEF w
    <3>3. Since(hits, w) = 0  BY <1>0, <3>2, SinceFacts
    <3>4. p.resetAt - Day = m  BY <1>0, <2>2
    <3>5. Counts(p, hits, now, m, Late, w)  BY <2>2, <3>1, <3>3, <3>4 DEF Counts
    <3> QED  BY <3>1, <3>5
  <2>5. m + Day \in Nat /\ m + Day # Never  BY <1>0 DEF Never
  <2>6. \A i \in DOMAIN hits : hits[i] < m + Day \/ now >= m + Day  BY <1>0
  <2>7. Window(p, hits, now, m, Late)  BY <2>2, <2>4, <2>5, <2>6 DEF Window
  <2>8. now < m + Day \/ now >= m + Day  BY <1>0
  <2> QED  BY <2>2, <2>5, <2>7, <2>8 DEF p, m
<1> QED  BY <1>2, <1>3, <1>4

(* bumpDailyCount, when an answer arrives. *)
LEMMA AnswerKeeps ==
  ASSUME WindowInv, NEW e \in Execs, Answer(e) PROVE WindowInv'
<1> DEFINE m == cal.local
           q == Touch(ep)
           c == q.count + 1
           p == [q EXCEPT !.count = c]
           h == Append(hits, now)
<1>0. /\ Late \in {0, 1} /\ Day \in Nat /\ Day >= 2 /\ m \in Int /\ m + Day \in Nat
      /\ now \in Nat /\ m <= now
      /\ hits \in Seq(Nat) /\ \A i \in DOMAIN hits : hits[i] \in Nat /\ hits[i] <= now
  BY LateFacts, ElementOfSeq, LenProperties DEF WindowInv, Clock, Past
<1>1. /\ Window(q, hits, now, m, Late) /\ q.resetAt \in Nat /\ q.resetAt # Never
      /\ now < q.resetAt \/ now >= m + Day
      /\ q = [count |-> q.count, resetAt |-> q.resetAt, script |-> q.script]
  BY TouchKeeps
<1>2. /\ UNCHANGED <<now, cal>> /\ hits' = h
      /\ ep' = p \/ ep' = [p EXCEPT !.script = execs[e].cur]
  BY DEF Answer, BumpDailyCount
<1> HIDE DEF q
<1>3. q.count \in Nat /\ c \in Nat  BY <1>1 DEF Window
<1> HIDE DEF c
<1>4. /\ ep'.resetAt = q.resetAt /\ ep'.count = c
      /\ ep' = [count |-> ep'.count, resetAt |-> ep'.resetAt, script |-> ep'.script]
  BY <1>1, <1>2
<1> HIDE DEF p
<1>5. /\ h \in Seq(Nat) /\ Len(h) = Len(hits) + 1 /\ h[Len(hits) + 1] = now
      /\ \A i \in 1..Len(hits) : h[i] = hits[i]
  BY <1>0, AppendProperties
<1>6. /\ DOMAIN hits = 1..Len(hits) /\ Len(hits) \in Nat /\ DOMAIN h = 1..(Len(hits) + 1)
  BY <1>0, <1>5, LenProperties
<1>7. \A i \in DOMAIN h : h[i] = now \/ (i \in DOMAIN hits /\ h[i] = hits[i])
  BY <1>5, <1>6
<1>8. \A i \in DOMAIN h : h[i] <= now  BY <1>0, <1>7
<1>9. \A i \in DOMAIN h : h[i] < m \/ h[i] < q.resetAt \/ now >= m + Day
  BY <1>1, <1>7 DEF Window
<1>10. ASSUME now < q.resetAt PROVE \E w \in Int : Counts(ep', h, now, m, Late, w)
  <2>1. PICK w \in Int : Counts(q, hits, now, m, Late, w)  BY <1>1, <1>10 DEF Window
  <2>2. Since(h, w) = Since(hits, w) + 1  BY <1>0, <2>1, SinceAppend DEF Counts
  <2>3. Counts(ep', h, now, m, Late, w)  BY <1>4, <2>1, <2>2 DEF Counts, c
  <2> QED  BY <2>3
<1> HIDE DEF h
<1>11. Window(ep', h, now, m, Late)
  <2>1. q.resetAt <= m + Late \/ q.resetAt = m + Day  BY <1>1 DEF Window
  <2> QED  BY <1>1, <1>3, <1>4, <1>9, <1>10, <2>1 DEF Window
<1>12. Late' = Late /\ cal'.local = m  BY <1>2 DEF Late
<1>13. Clock' /\ Past'  BY <1>2, <1>5, <1>8 DEF WindowInv, Clock, Past
<1> QED  BY <1>2, <1>4, <1>11, <1>12, <1>13 DEF WindowInv, EndpointShape

(* Time passes: the client's date stays, or a new one begins when the last *)
(* has had 24 hours or, with a window that is Late by as much, one less.   *)
LEMMA TickClock ==
  ASSUME Clock, Tick
  PROVE  /\ Clock' /\ Late' \in {0, 1}
         /\ \/ cal'.local = cal.local /\ Late' = Late
            \/ /\ cal'.local = now + 1
               /\ cal.local + Day <= cal'.local + Late'
               /\ cal.local + Late <= cal'.local + Late'
<1>0. Late \in {0, 1} /\ Day \in Nat /\ Day >= 2 /\ now' = now + 1
  BY LateFacts DEF Tick
<1> USE DEF Clock, Late, LocalMidnight
<1>1. CASE SameDay
  <2>1. /\ cal'.fixed = cal.fixed /\ cal'.before = cal.before /\ cal'.length = cal.length
        /\ cal'.midnight = cal.midnight
        /\ cal'.local = LocalMidnight(now + 1, cal.midnight)
        /\ now + 1 < cal.midnight + cal.length
    BY <1>1 DEF SameDay
  <2>2. CASE cal.fixed  BY <1>0, <2>1, <2>2
  <2>3. CASE ~cal.fixed  BY <1>0, <2>1, <2>3
  <2> QED  BY <2>2, <2>3
<1>2. CASE NextDay
  <2>1. /\ cal'.fixed = cal.fixed /\ cal'.before = cal.length
        /\ cal'.length \in {Day - 1, Day, Day + 1}
        /\ cal'.midnight = now + 1
        /\ cal'.local = LocalMidnight(now + 1, now + 1)
        /\ now + 1 = cal.midnight + cal.length
    BY <1>2 DEF NextDay, Lengths
  <2>2. CASE cal.fixed  BY <1>0, <2>1, <2>2
  <2>3. CASE ~cal.fixed  BY <1>0, <2>1, <2>3
  <2> QED  BY <2>2, <2>3
<1> QED  BY <1>1, <1>2 DEF Tick

(* Time passes: yesterday's window reaches into today by no more than Late. *)
LEMMA TickKeeps ==
  ASSUME WindowInv, Tick PROVE WindowInv'
<1> DEFINE m == cal.local
           n == now + 1
<1>0. /\ Late \in {0, 1} /\ Day \in Nat /\ Day >= 2 /\ m \in Int /\ m + Day \in Nat
      /\ now \in Nat /\ m <= now
      /\ hits \in Seq(Nat) /\ \A i \in DOMAIN hits : hits[i] \in Nat /\ hits[i] <= now
  BY LateFacts, ElementOfSeq, LenProperties DEF WindowInv, Clock, Past
<1>1. now' = n /\ ep' = ep /\ Forget(now + 1 - Day)  BY DEF Tick
<1>2. /\ Clock' /\ Late' \in {0, 1}
      /\ \/ cal'.local = m /\ Late' = Late
         \/ /\ cal'.local = n
            /\ m + Day <= cal'.local + Late' /\ m + Late <= cal'.local + Late'
  BY <1>1, TickClock DEF WindowInv
<1>3. PICK k \in 0..Len(hits) : /\ \A i \in DOMAIN hits : hits[i] < now + 1 - Day <=> i <= k
                                /\ hits' = SubSeq(hits, k + 1, Len(hits))
  BY <1>1 DEF Forget
<1>4. /\ hits' \in Seq(Nat) /\ Len(hits') = Len(hits) - k
      /\ \A i \in DOMAIN hits' : i + k \in DOMAIN hits /\ hits'[i] = hits[i + k]
      /\ \A w \in Int : now + 1 - Day <= w => Since(hits', w) = Since(hits, w)
  <2>1. now + 1 - Day \in Int  BY <1>0
  <2>2. ASSUME NEW w \in Int, now + 1 - Day <= w
        PROVE  /\ hits' \in Seq(Nat) /\ Len(hits') = Len(hits) - k
               /\ \A i \in DOMAIN hits' : i + k \in DOMAIN hits /\ hits'[i] = hits[i + k]
               /\ Since(hits', w) = Since(hits, w)
    <3> DEFINE t == now + 1 - Day
    <3>1. t \in Int /\ t <= w /\ \A i \in DOMAIN hits : hits[i] < t <=> i <= k
      BY <1>3, <2>1, <2>2
    <3> HIDE DEF t
    <3> QED  BY <1>0, <1>3, <3>1, SinceForget
  <2>3. now + 1 - Day <= now + 1 - Day  BY <2>1
  <2> QED  BY <2>1, <2>2, <2>3
<1>5. \A i \in DOMAIN hits' : hits'[i] \in Nat /\ hits'[i] <= now /\ hits'[i] < n
  BY <1>0, <1>4
<1>6. Past'  BY <1>0, <1>1, <1>4, <1>5 DEF Past
<1>7. Window(ep, hits, now, m, Late) /\ EndpointShape  BY DEF WindowInv
<1> HIDE DEF m, n
<1>8. Window(ep', hits', n, cal'.local, Late')
  <2>1. CASE ep.resetAt = Never
    <3>1. hits = <<>>  BY <1>7, <2>1 DEF Window
    <3>2. hits' = <<>>
      <4>1. Len(hits) = 0 /\ k = 0  BY <3>1
      <4>2. Len(hits') = 0  BY <1>4, <4>1
      <4> QED  BY <1>4, <4>2, EmptySeq
    <3> QED  BY <1>1, <1>7, <2>1, <3>2 DEF Window
  <2>2. CASE ep.resetAt # Never
    <3>1. /\ ep.count \in Nat /\ ep.resetAt \in Nat
          /\ ep.resetAt <= m + Late \/ ep.resetAt = m + Day
          /\ \A i \in DOMAIN hits : hits[i] < m \/ hits[i] < ep.resetAt \/ now >= m + Day
          /\ now < ep.resetAt => \E w \in Int : Counts(ep, hits, now, m, Late, w)
      BY <1>7, <2>2 DEF Window
    <3>2. n \in Nat /\ n = now + 1  BY <1>0 DEF n
    <3>3. /\ cal'.local \in Int
          /\ ep.resetAt <= cal'.local + Late' \/ ep.resetAt = cal'.local + Day
      <4>1. cal'.local \in Int  BY <1>2 DEF Clock
      <4>2. CASE cal'.local = m /\ Late' = Late  BY <3>1, <4>1, <4>2
      <4>3. CASE m + Day <= cal'.local + Late' /\ m + Late <= cal'.local + Late'
        <5> DEFINE x == cal'.local + Late'
        <5>1. x \in Int /\ m + Day <= x /\ m + Late <= x  BY <1>2, <4>1, <4>3
        <5>2. m \in Int  BY <1>0
        <5> HIDE DEF x
        <5>3. ep.resetAt <= x  BY <1>0, <3>1, <5>1, <5>2
        <5> QED  BY <4>1, <5>3 DEF x
      <4> QED  BY <1>2, <4>2, <4>3
    <3>4. \A i \in DOMAIN hits' : \/ hits'[i] < cal'.local \/ hits'[i] < ep.resetAt
                                  \/ n >= cal'.local + Day
      <4>1. CASE cal'.local = n  BY <1>5, <4>1
      <4>2. CASE cal'.local = m
        <5>1. now >= m + Day => n >= m + Day  BY <1>0, <3>2
        <5> QED  BY <1>4, <3>1, <4>2, <5>1
      <4> QED  BY <1>2, <4>1, <4>2
    <3>5. ASSUME n < ep.resetAt
          PROVE  \E w \in Int : Counts(ep, hits', n, cal'.local, Late', w)
      <4>1. now < ep.resetAt  BY <1>0, <3>1, <3>2, <3>5
      <4>2. PICK w \in Int : Counts(ep, hits, now, m, Late, w)  BY <3>1, <4>1
      <4>3. ep.resetAt - Day <= w /\ w <= now /\ ep.count = Since(hits, w)
        BY <4>2 DEF Counts
      <4>4. now + 1 - Day <= w /\ w <= n  BY <1>0, <3>1, <3>2, <3>5, <4>3
      <4>5. Since(hits', w) = Since(hits, w)  BY <1>4, <4>4
      <4>6. ep.resetAt = cal'.local + Day => w <= cal'.local + Late'
        <5>1. CASE cal'.local = m /\ Late' = Late  BY <4>2, <5>1 DEF Counts
        <5>2. CASE cal'.local = n
          <6>1. n <= n + Late'  BY <1>2, <3>2
          <6>2. n + Late' \in Nat  BY <1>2, <3>2
          <6>3. w <= n + Late'  BY <3>2, <4>4, <6>1, <6>2
          <6> QED  BY <5>2, <6>3
        <5> QED  BY <1>2, <5>1, <5>2
      <4>7. Counts(ep, hits', n, cal'.local, Late', w)
        BY <4>3, <4>4, <4>5, <4>6 DEF Counts
      <4> QED  BY <4>7
    <3> QED  BY <1>1, <2>2, <3>1, <3>3, <3>4, <3>5 DEF Window
  <2> QED  BY <2>1, <2>2
<1> QED  BY <1>1, <1>2, <1>6, <1>7, <1>8 DEF WindowInv, EndpointShape

LEMMA WindowStep == WindowInv /\ [Next]_vars => WindowInv'
<1> SUFFICES ASSUME WindowInv, [Next]_vars PROVE WindowInv'  OBVIOUS
<1>1. CASE Tick  BY <1>1, TickKeeps
<1>2. CASE Look
  <2>1. UNCHANGED <<now, cal, hits>> /\ ep' = Touch(ep)  BY <1>2 DEF Look
  <2>2. Clock' /\ Past' /\ Late' = Late  BY <2>1 DEF WindowInv, Clock, Past, Late
  <2> QED  BY <2>1, <2>2, TouchKeeps DEF WindowInv, EndpointShape
<1>3. CASE StartClient
  <2>1. UNCHANGED <<now, cal>> /\ hits' = <<>> /\ ep' = NewEndpoint  BY <1>3 DEF StartClient
  <2>2. Clock' /\ Past' /\ Late' = Late  BY <2>1 DEF WindowInv, Clock, Past, Late
  <2>3. EndpointShape' /\ ep'.count = 0 /\ ep'.resetAt = Never
    BY <2>1 DEF NewEndpoint, EndpointShape
  <2> QED  BY <2>1, <2>2, <2>3 DEF WindowInv, Window
<1>4. ASSUME NEW e \in Execs, Script(e) PROVE WindowInv'
  <2>1. CASE Answer(e)  BY <2>1, AnswerKeeps
  <2>2. CASE ~Answer(e)
    <3>1. UNCHANGED <<now, cal, hits, ep>>
      BY <1>4, <2>2 DEF Script, DoPost, ReadCount, ListKeys, DeleteKey, WriteCount,
        PropertyError, DoGet, ProbeAnswer, Discard, GiveUp
    <3> QED  BY <3>1 DEF WindowInv, Clock, Past, EndpointShape, Late
  <2> QED  BY <2>1, <2>2
<1>5. CASE UNCHANGED vars
  <2>1. UNCHANGED <<now, cal, hits, ep>>  BY <1>5 DEF vars
  <2> QED  BY <2>1 DEF WindowInv, Clock, Past, EndpointShape, Late
<1> QED  BY <1>1, <1>2, <1>3, <1>4, <1>5 DEF Next

(* The daily count of quota.go, for every length of the day, wherever the  *)
(* clock change falls and with or without tzdata: it is the number of the  *)
(* answers to polls and to pollScriptStats since midnight when today and   *)
(* yesterday have 24 hours in quotaResetTZ, it is off by no more than one  *)
(* hour after a short day, and shows nothing in the 25th hour.             *)
THEOREM WindowFollowsTheDay == Spec => []WindowIsTheDay
<1>1. Init => WindowInv
  <2> SUFFICES ASSUME Init PROVE WindowInv  OBVIOUS
  <2>0. Day \in Nat /\ Day >= 2  BY QuotaAssumption
  <2>2. /\ cal.midnight = 0 /\ cal.before = Day /\ cal.length \in {Day - 1, Day, Day + 1}
        /\ cal.local = 0 \/ (cal.fixed /\ cal.local = 1 - Day)
    BY DEF Init, Lengths
  <2>3. now = 0 /\ hits = <<>> /\ ep = NewEndpoint  BY DEF Init
  <2>4. Clock  BY <2>0, <2>2, <2>3 DEF Clock
  <2>5. Past /\ EndpointShape  BY <2>3 DEF Past, EndpointShape, NewEndpoint
  <2>6. ep.count = 0 /\ ep.resetAt = Never  BY <2>3 DEF NewEndpoint
  <2> QED  BY <2>3, <2>4, <2>5, <2>6 DEF WindowInv, Window
<1>2. WindowInv => WindowIsTheDay
  <2> SUFFICES ASSUME WindowInv PROVE WindowIsTheDay  OBVIOUS
  <2> DEFINE m == cal.local
             p == Touch(ep)
  <2>0. /\ Late \in {0, 1} /\ Day \in Nat /\ Day >= 2 /\ m \in Int /\ m + Day \in Nat
      /\ now \in Nat /\ m <= now
        /\ hits \in Seq(Nat)
    BY LateFacts DEF WindowInv, Clock, Past
  <2>1. /\ Window(p, hits, now, m, Late) /\ p.resetAt \in Nat /\ p.resetAt # Never
        /\ now < p.resetAt \/ now >= m + Day
    BY TouchKeeps
  <2>2. \A t : HitsSince(t) = Since(hits, t)  BY DEF HitsSince, Since
  <2>3. Shown = p.count  BY DEF Shown
  <2>4. \A t : Since(hits, t) \in Nat  BY <2>0, SinceFacts
  <2>5. p.count \in Nat /\ (~(now < p.resetAt) => p.count = 0)
    BY TouchKeeps DEF Window
  <2>6. \A i \in DOMAIN hits : hits[i] \in Nat /\ hits[i] <= now
    BY <2>0, ElementOfSeq, LenProperties DEF WindowInv, Past
  <2> HIDE DEF p, m
  <2>7. ASSUME now < p.resetAt
        PROVE  /\ p.count <= Since(hits, now - Day + 1)
               /\ now < m + Day => /\ Since(hits, m + Late) <= p.count
                                   /\ Late = 0 => p.count = Since(hits, m)
               /\ ~(now >= m + Day)
    <3>1. PICK w \in Int : Counts(p, hits, now, m, Late, w)  BY <2>1, <2>7 DEF Window
    <3>2. /\ p.resetAt - Day <= w /\ w <= now /\ p.count = Since(hits, w)
          /\ p.resetAt = m + Day => w <= m + Late
      BY <3>1 DEF Counts
    <3>3. p.resetAt <= m + Late \/ p.resetAt = m + Day  BY <2>1 DEF Window
    <3>4. now - Day + 1 \in Int /\ now - Day + 1 <= w /\ m + Late \in Int
      BY <2>0, <2>1, <2>7, <3>2
    <3>5. p.count <= Since(hits, now - Day + 1)  BY <2>0, <3>2, <3>4, SinceFacts
    <3>6. CASE p.resetAt = m + Day
      <4>1. m <= w /\ w <= m + Late  BY <2>0, <3>2, <3>6
      <4>2. Since(hits, m + Late) <= p.count  BY <2>0, <3>2, <3>4, <4>1, SinceFacts
      <4>3. Late = 0 => w = m  BY <2>0, <4>1
      <4>4. ~(now >= m + Day)  BY <2>0, <2>7, <3>6
      <4> QED  BY <3>2, <3>5, <4>2, <4>3, <4>4
    <3>7. CASE p.resetAt <= m + Late
      <4>1. now < m + Late /\ Late # 0  BY <2>0, <2>1, <2>7, <3>7
      <4>2. \A i \in DOMAIN hits : ~(hits[i] >= m + Late)  BY <2>0, <2>6, <4>1
      <4>3. Since(hits, m + Late) = 0  BY <2>0, <4>2, SinceFacts
      <4>4. ~(now >= m + Day)  BY <2>0, <4>1
      <4> QED  BY <2>5, <3>5, <4>1, <4>3, <4>4
    <3> QED  BY <3>3, <3>6, <3>7
  <2>8. CASE now < p.resetAt  BY <2>2, <2>3, <2>7, <2>8 DEF WindowIsTheDay, m
  <2>9. CASE ~(now < p.resetAt)
    <3>1. Shown = 0 /\ ~(now < m + Day)  BY <2>0, <2>1, <2>3, <2>5, <2>9
    <3>2. Shown <= HitsSince(now - Day + 1)  BY <2>2, <2>4, <3>1
    <3> QED  BY <3>1, <3>2 DEF WindowIsTheDay, m
  <2> QED  BY <2>8, <2>9
<1> QED  BY <1>1, <1>2, WindowStep, PTL DEF Spec
=============================================================================
