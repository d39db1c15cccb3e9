---------------------------- MODULE PollWorkers ------------------------------
(***************************************************************************)
(* When the client's poll workers run: Client.runWorker with its waits and *)
(* idle back-off, the waker, and kick with its adaptive coalescing         *)
(* (core/internal/carrier/client.go), whose timer is module CoalesceTimer. *)
(* What a poll does to the sessions is abstracted to taking the sessions   *)
(* that are ready and giving them back when the POST fails; module Carrier *)
(* has the details.                                                        *)
(***************************************************************************)
EXTENDS CoalesceTimer, FiniteSets

CONSTANTS
  Sessions,          \* session IDs
  Workers,           \* poll workers
  Coalescing,        \* the values of "Config.CoalesceStep > 0" considered
  DisableIdleSleep,  \* Client.disableIdleSleep
  HaltAfter,         \* empty polls after which idleBackoff returns 24 hours
  MaxIdle            \* bound: empty polls that are counted

ASSUME PollWorkersAssumption ==
  /\ Coalescing \subseteq BOOLEAN /\ DisableIdleSleep \in BOOLEAN
  /\ {HaltAfter, MaxIdle, MaxTimers} \subseteq Nat \ {0}
  /\ MaxIdle <= HaltAfter

VARIABLES
  coalesce,  \* CoalesceStep > 0, fixed when the client is made
  open,      \* sessions in the table
  ready,     \* sessions marked in txReady
  due,       \* <<goroutine, session>>: an OnTx callback that has still to kick
  pc,        \* where each worker is
  carrying,  \* sessions in the worker's batch
  work,      \* what pollOnce returns
  idle,      \* consecutiveIdle
  missed     \* history: sessions a worker was not woken for, see Broadcast

(* Goroutines that give a session something to send: applications, and a *)
(* worker that rolls its batch back.                                     *)
Callers == Workers \cup {"app"}

vars ==
  <<coalesce, open, ready, due, timers, owed, pc, carrying, work, idle, missed>>

Init ==
  /\ coalesce \in Coalescing
  /\ open = {} /\ ready = {} /\ due = {}
  /\ NoTimer
  /\ pc = [w \in Workers |-> "top"]
  /\ carrying = [w \in Workers |-> {}]
  /\ work = [w \in Workers |-> FALSE]
  /\ idle = [w \in Workers |-> 0]
  /\ missed = [w \in Workers |-> {}]

---------------------------------------------------------------------------
(* Wake-ups.                                                               *)

(* Places between a worker's look at the sessions (drainAll, or hasSessions *)
(* when it is false) and its capture of the wake channel.                   *)
PastItsLook == {"post", "release", "gc", "capture", "captureNoTimer"}

(* Mutation of Broadcast: the channel is replaced and never closed. *)
Broadcast_WakesNobody == UNCHANGED <<pc, idle, missed>>

(* waker.Broadcast: workers that captured the channel leave their select;  *)
(* one that has looked and not yet captured will wait on the next channel. *)
Broadcast ==
  /\ pc' = [w \in Workers |-> IF pc[w] = "sleep" THEN "top" ELSE pc[w]]
  /\ idle' = [w \in Workers |-> IF pc[w] = "sleep" THEN 0 ELSE idle[w]]
  /\ missed' = [w \in Workers |->
                  IF pc[w] \in PastItsLook THEN missed[w] \cup ready ELSE {}]

(* NewSession, or a session that is given something to send: it is marked  *)
(* ready (also while it is in flight), then the caller kicks.              *)
Enqueue(s) ==
  /\ open' = open \cup {s}
  /\ ready' = ready \cup {s}
  /\ due' = due \cup {<<"app", s>>}
  /\ UNCHANGED <<coalesce, timers, owed, pc, carrying, work, idle, missed>>

(* kick without coalescing *)
KickNow(c, s) ==
  /\ ~coalesce
  /\ <<c, s>> \in due
  /\ due' = due \ {<<c, s>>}
  /\ Broadcast /\ owed' = FALSE
  /\ UNCHANGED <<coalesce, open, ready, timers, carrying, work>>

(* kick with coalescing *)
KickLater(c, s) ==
  /\ coalesce
  /\ <<c, s>> \in due
  /\ ArmTimer \/ ResetTimer
  /\ due' = due \ {<<c, s>>}
  /\ UNCHANGED <<coalesce, open, ready, pc, carrying, work, idle, missed>>

(* The timer's goroutine: AfterFunc starts it ... *)
Expire ==
  /\ StartGoroutine
  /\ UNCHANGED <<coalesce, open, ready, due, pc, carrying, work, idle, missed>>

(* ... and fireCoalesceWake forgets the timer, then broadcasts. *)
FireClear ==
  /\ ForgetTimer
  /\ UNCHANGED <<coalesce, open, ready, due, pc, carrying, work, idle, missed>>

FireBroadcast ==
  /\ EndGoroutine
  /\ Broadcast
  /\ UNCHANGED <<coalesce, open, ready, due, carrying, work>>

(* runEndpointRecoveryLoop has cleared local-offline back-offs. *)
RecoveryBroadcast ==
  /\ Broadcast /\ owed' = FALSE
  /\ UNCHANGED <<coalesce, open, ready, due, timers, carrying, work>>

---------------------------------------------------------------------------
(* runWorker.                                                              *)

Goto(w, from, to) == pc[w] = from /\ pc' = [pc EXCEPT ![w] = to]

(* hasSessions under the lock *)
Top(w) ==
  /\ Goto(w, "top", IF open # {} \/ DisableIdleSleep THEN "poll" ELSE "captureNoTimer")
  /\ missed' = [missed EXCEPT ![w] = {}]
  /\ UNCHANGED <<coalesce, open, ready, due, timers, owed, carrying, work, idle>>

(* drainAll; sessions in flight stay marked. *)
Drain(w) ==
  LET batch == ready \ UNION {carrying[v] : v \in Workers}
  IN  /\ Goto(w, "poll", "post")
      /\ carrying' = [carrying EXCEPT ![w] = batch]
      /\ ready' = ready \ batch
      /\ missed' = [missed EXCEPT ![w] = {}]
      /\ UNCHANGED <<coalesce, open, due, timers, owed, work, idle>>

(* The POST succeeds; the response may carry frames. *)
PollOk(w) ==
  /\ Goto(w, "post", "gc")
  /\ \E rx \in BOOLEAN : work' = [work EXCEPT ![w] = rx \/ carrying[w] # {}]
  /\ carrying' = [carrying EXCEPT ![w] = {}]
  /\ UNCHANGED <<coalesce, open, ready, due, timers, owed, idle, missed>>

(* The POST fails: rollbackDrained, whose OnTx kicks ... *)
PollFail(w) ==
  /\ Goto(w, "post", "release")
  /\ ready' = ready \cup carrying[w]
  /\ due' = due \cup {<<w, s>> : s \in carrying[w]}
  /\ \E page \in BOOLEAN : work' = [work EXCEPT ![w] = page /\ carrying[w] # {}]
  /\ UNCHANGED <<coalesce, open, timers, owed, carrying, idle, missed>>

(* ... and only then, kicks done, releaseInFlight ends the flight. *)
Release(w) ==
  /\ \A s \in carrying[w] : <<w, s>> \notin due
  /\ Goto(w, "release", "gc")
  /\ ready' = ready \cup carrying[w]
  /\ carrying' = [carrying EXCEPT ![w] = {}]
  /\ UNCHANGED <<coalesce, open, due, timers, owed, work, idle, missed>>

(* gcDoneSessions removes any sessions that have nothing left to send. *)
Gc(w) ==
  /\ Goto(w, "gc", IF work[w] THEN "top" ELSE "capture")
  /\ \E done \in SUBSET (open \ (ready \cup UNION {carrying[v] : v \in Workers})) :
       open' = open \ done
  /\ idle' = [idle EXCEPT ![w] = IF work[w] THEN 0
                                 ELSE IF @ < MaxIdle THEN @ + 1 ELSE @]
  /\ work' = [work EXCEPT ![w] = FALSE]
  /\ UNCHANGED <<coalesce, ready, due, timers, owed, carrying, missed>>

(* wake.C() and the select. *)
Capture(w) ==
  /\ \/ Goto(w, "capture", "sleep") /\ UNCHANGED idle
     \/ Goto(w, "captureNoTimer", "sleep")
        /\ idle' = [idle EXCEPT ![w] = HaltAfter]
  /\ UNCHANGED <<coalesce, open, ready, due, timers, owed, carrying, work, missed>>

(* time.After(idleBackoff(n)); the last tier, a day, does not end here. *)
TimerFires(w) ==
  /\ idle[w] < HaltAfter
  /\ Goto(w, "sleep", "top")
  /\ missed' = [missed EXCEPT ![w] = {}]
  /\ UNCHANGED <<coalesce, open, ready, due, timers, owed, carrying, work, idle>>

---------------------------------------------------------------------------
Kick(c, s) == KickNow(c, s) \/ KickLater(c, s)

Timer == Expire \/ FireClear \/ FireBroadcast

Worker(w) ==
  \/ Top(w) \/ Drain(w) \/ PollOk(w) \/ PollFail(w) \/ Release(w)
  \/ Gc(w) \/ Capture(w) \/ TimerFires(w)

Next ==
  \/ \E s \in Sessions : Enqueue(s)
  \/ \E c \in Callers, s \in Sessions : Kick(c, s)
  \/ Timer
  \/ RecoveryBroadcast
  \/ \E w \in Workers : Worker(w)

Spec == Init /\ [][Next]_vars

(* Goroutines are scheduled and armed timers expire.  In the code a kick   *)
(* only waits for its lock; here the bound MaxTimers disables it now and   *)
(* then, hence the strong fairness.                                        *)
FairSpec ==
  /\ Spec
  /\ \A c \in Callers, s \in Sessions : SF_vars(Kick(c, s))
  /\ WF_vars(Expire) /\ WF_vars(FireClear) /\ WF_vars(FireBroadcast)
  /\ \A w \in Workers : WF_vars(Worker(w))

---------------------------------------------------------------------------
(* A worker waits without a timer that matters: it saw no session, or it   *)
(* is in the 24-hour tier of idleBackoff.                                  *)
Halted(w) == pc[w] = "sleep" /\ idle[w] = HaltAfter

(* A session with something to send is taken into a batch before long.     *)
(* There is one way to be left behind: every worker is halted, and one of  *)
(* them was between its look and its capture when the wake-up for this     *)
(* very session was broadcast (runWorker, kick).                           *)
ReadyIsPolled ==
  \A s \in Sessions :
    (s \in ready) ~>
      \/ s \notin ready
      \/ (\A w \in Workers : Halted(w)) /\ \E w \in Workers : s \in missed[w]

(* What runWorker's comment promises (client.go:603: a worker cannot miss  *)
(* a Broadcast, so back-off never delays new traffic): whatever is ready   *)
(* is polled, with no exception.  The code misses the wake-up.             *)
TrafficWakesWorkers ==
  \A s \in Sessions : (s \in ready) ~> (s \notin ready)
=============================================================================
