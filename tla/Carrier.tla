------------------------------- MODULE Carrier -------------------------------
(***************************************************************************)
(* The client's session table and its poll workers                         *)
(* (core/internal/carrier/client.go): NewSession, the OnTx callbacks,      *)
(* drainAll, the rollback and release of a batch, routing of FIN and RST,  *)
(* and the collection of finished sessions.                                *)
(*                                                                         *)
(* Client.mu is the variable mu: drainAll holds it over several steps, the *)
(* other critical sections are single actions that need it free.  Session  *)
(* state has a lock of its own, so applications write while drainAll runs. *)
(* What happens to a POST is abstracted to its outcome; module Endpoints   *)
(* has the choice of the endpoint, module Uplink the fate of the frames,   *)
(* module PollWorkers when workers poll.                                   *)
(* The age order of drainAll (FirstQueuedAt) is an arbitrary order here.   *)
(***************************************************************************)
EXTENDS Session, FiniteSets

CONSTANTS
  Sessions,          \* session IDs
  Workers,           \* poll workers
  FramesPerSession,  \* maxDrainFramesPerSession
  BatchCap,          \* maxDrainFramesPerBatch
  BatchCapBusy,      \* maxDrainFramesPerBatchBusy
  BusyThreshold,     \* busySessionThreshold
  MaxSeq,            \* bound: frames an application asks a session to send
  MaxBuf,            \* bound: bytes in a session's buffer
  Free               \* Client.mu is not held

ASSUME CarrierAssumption ==
  /\ {FramesPerSession, BatchCap, BatchCapBusy} \subseteq Nat \ {0}
  /\ {BusyThreshold, MaxSeq, MaxBuf} \subseteq Nat
  /\ Free \notin Workers

VARIABLES
  mu,         \* holder of Client.mu across steps
  created,    \* sessions NewSession has made
  sessions,   \* Client.sessions
  txReady,    \* Client.txReady
  inFlight,   \* Client.inFlight
  tx,         \* transmit half of each session
  rxClosed,   \* sessions whose receive side is closed
  cb,         \* application calls between their session lock and OnTx
  pc,         \* where each worker is
  got,        \* drainedIDs of each worker
  snap,       \* snapshots of each worker
  left,       \* sessions a worker's loop has still to visit
  room,       \* remaining frames of the batch under construction
  cur,        \* session whose callback or reset a worker is in the middle of
  acked       \* history: sequence numbers of committed batches

table == <<created, sessions, txReady, inFlight>>
batch == <<got, snap, left, room, cur>>
vars == <<mu, table, tx, rxClosed, cb, pc, batch, acked>>

(* The goroutines of an application that call into its session: the one    *)
(* that writes (and called NewSession) and the one that closes.            *)
Callers == {"writer", "closer"}

NoSnaps == [s \in Sessions |-> NewTx(TRUE)]

Init ==
  /\ mu = Free
  /\ created = {}
  /\ sessions = {}
  /\ txReady = {}
  /\ inFlight = {}
  /\ tx = [s \in Sessions |-> NewTx(TRUE)]
  /\ rxClosed = {}
  /\ cb = {}
  /\ pc = [w \in Workers |-> "idle"]
  /\ got = [w \in Workers |-> {}]
  /\ snap = [w \in Workers |-> NoSnaps]
  /\ left = [w \in Workers |-> {}]
  /\ room = 0
  /\ cur = [w \in Workers |-> {}]
  /\ acked = [s \in Sessions |-> 0]

Goto(w, from, to) == pc[w] = from /\ pc' = [pc EXCEPT ![w] = to]

---------------------------------------------------------------------------
(* The application: NewSession, EnqueueInitialData and RequestClose.  The  *)
(* last two leave the session's lock before OnTx marks the session ready.  *)

NewSession(s) ==
  /\ s \notin created
  /\ mu = Free
  /\ created' = created \cup {s}
  /\ sessions' = sessions \cup {s}
  /\ txReady' = txReady \cup {s}
  /\ UNCHANGED <<mu, inFlight, tx, rxClosed, cb, pc, batch, acked>>

Write(s) ==
  /\ s \in created
  /\ <<"writer", s>> \notin cb
  /\ tx[s].txSeq + Len(tx[s].txBuf) < MaxSeq
  /\ Len(tx[s].txBuf) < MaxBuf
  /\ LET t == EnqueueInitialData(tx[s], <<0>>)
     IN  /\ t # tx[s]
         /\ tx' = [tx EXCEPT ![s] = t]
         /\ cb' = cb \cup {<<"writer", s>>}
  /\ UNCHANGED <<mu, table, rxClosed, pc, batch, acked>>

Close(s) ==
  /\ s \in created
  /\ ~tx[s].closeReq
  /\ tx' = [tx EXCEPT ![s] = RequestClose(@)]
  /\ cb' = cb \cup {<<"closer", s>>}
  /\ UNCHANGED <<mu, table, rxClosed, pc, batch, acked>>

(* The OnTx callback, which then kicks the workers. *)
OnTx(c, s) ==
  /\ <<c, s>> \in cb
  /\ mu = Free
  /\ txReady' = txReady \cup {s}
  /\ cb' = cb \ {<<c, s>>}
  /\ UNCHANGED <<mu, created, sessions, inFlight, tx, rxClosed, pc, batch, acked>>

---------------------------------------------------------------------------
(* pollOnce: drainAll.                                                     *)

DrainStart(w) ==
  /\ mu = Free
  /\ Goto(w, "idle", "drain")
  /\ mu' = w
  /\ left' = [left EXCEPT ![w] = txReady \cap sessions]
  /\ txReady' = txReady \cap sessions
  /\ room' = IF Cardinality(sessions) >= BusyThreshold THEN BatchCapBusy ELSE BatchCap
  /\ UNCHANGED <<created, sessions, inFlight, tx, rxClosed, cb, got, snap, cur, acked>>

(* Sessions still to be visited that would contribute a SYN. *)
SynLeft(w) == {s \in left[w] \ inFlight : tx[s].synNeeded}

(* Mutation of DrainOne: the inFlight check is missing. *)
DrainOne_Reentrant(w, s) ==
  /\ pc[w] = "drain"
  /\ s \in left[w]
  /\ left' = [left EXCEPT ![w] = @ \ {s}]
  /\ LET d == DrainTx(tx[s], 1, Least(FramesPerSession, room))
     IN  IF room = 0
         THEN UNCHANGED <<txReady, tx, room, inFlight, got, snap>>
         ELSE /\ txReady' = txReady \ {s}
              /\ tx' = [tx EXCEPT ![s] = d.sess]
              /\ room' = room - Len(d.frames)
              /\ inFlight' = IF d.frames = <<>> THEN inFlight ELSE inFlight \cup {s}
              /\ got' = IF d.frames = <<>> THEN got ELSE [got EXCEPT ![w] = @ \cup {s}]
              /\ snap' = [snap EXCEPT ![w][s] = d.snap]
  /\ UNCHANGED <<mu, created, sessions, rxClosed, cb, pc, cur, acked>>

(* Mutation of DrainOne: the per-session cap ignores what is left of the   *)
(* batch.                                                                  *)
DrainOne_Uncapped(w, s) ==
  /\ pc[w] = "drain"
  /\ s \in left[w]
  /\ left' = [left EXCEPT ![w] = @ \ {s}]
  /\ LET d == DrainTx(tx[s], 1, FramesPerSession + 1)
     IN  IF room = 0 \/ s \in inFlight
         THEN UNCHANGED <<txReady, tx, room, inFlight, got, snap>>
         ELSE /\ txReady' = txReady \ {s}
              /\ tx' = [tx EXCEPT ![s] = d.sess]
              /\ room' = room - Len(d.frames)
              /\ inFlight' = IF d.frames = <<>> THEN inFlight ELSE inFlight \cup {s}
              /\ got' = IF d.frames = <<>> THEN got ELSE [got EXCEPT ![w] = @ \cup {s}]
              /\ snap' = [snap EXCEPT ![w][s] = d.snap]
  /\ UNCHANGED <<mu, created, sessions, rxClosed, cb, pc, cur, acked>>

(* The closure drain: skipped when the batch is full or the session is in  *)
(* flight; SYN-bearing sessions go first.                                  *)
DrainOne(w, s) ==
  /\ pc[w] = "drain"
  /\ s \in left[w]
  /\ SynLeft(w) # {} => s \in SynLeft(w)
  /\ left' = [left EXCEPT ![w] = @ \ {s}]
  /\ LET d == DrainTx(tx[s], 1, Least(FramesPerSession, room))
     IN  IF room = 0 \/ s \in inFlight
         THEN UNCHANGED <<txReady, tx, room, inFlight, got, snap>>
         ELSE /\ txReady' = txReady \ {s}
              /\ tx' = [tx EXCEPT ![s] = d.sess]
              /\ room' = room - Len(d.frames)
              /\ inFlight' = IF d.frames = <<>> THEN inFlight ELSE inFlight \cup {s}
              /\ got' = IF d.frames = <<>> THEN got ELSE [got EXCEPT ![w] = @ \cup {s}]
              /\ snap' = [snap EXCEPT ![w][s] = d.snap]
  /\ UNCHANGED <<mu, created, sessions, rxClosed, cb, pc, cur, acked>>

DrainEnd(w) ==
  /\ left[w] = {}
  /\ Goto(w, "drain", "post")
  /\ mu' = Free
  /\ room' = 0
  /\ UNCHANGED <<table, tx, rxClosed, cb, got, snap, left, cur, acked>>

---------------------------------------------------------------------------
(* pollOnce: the outcome of the POST.                                      *)

(* A batch or an empty body came back, or a body that cannot be ingested:  *)
(* rollbackPending is cleared.                                             *)
PollOk(w) ==
  /\ Goto(w, "post", "route")
  /\ acked' = [s \in Sessions |-> IF s \in got[w] THEN tx[s].txSeq ELSE acked[s]]
  /\ UNCHANGED <<mu, table, tx, rxClosed, cb, batch>>

(* routeRx of a FIN: ProcessRx closes the receive side. *)
RouteFin(w, s) ==
  /\ pc[w] = "route"
  /\ mu = Free
  /\ s \in sessions
  /\ rxClosed' = rxClosed \cup {s}
  /\ UNCHANGED <<mu, table, tx, cb, pc, batch, acked>>

(* routeRx of an RST: CloseRx and RequestClose, whose OnTx kicks ...       *)
RouteRst(w, s) ==
  /\ mu = Free
  /\ s \in sessions
  /\ Goto(w, "route", "reset")
  /\ rxClosed' = rxClosed \cup {s}
  /\ tx' = [tx EXCEPT ![s] = RequestClose(@)]
  /\ cur' = [cur EXCEPT ![w] = {s}]
  /\ UNCHANGED <<mu, table, cb, got, snap, left, room, acked>>

ResetOnTx(w) ==
  /\ mu = Free
  /\ Goto(w, "reset", "remove")
  /\ txReady' = txReady \cup cur[w]
  /\ UNCHANGED <<mu, created, sessions, inFlight, tx, rxClosed, cb, batch, acked>>

(* ... then the session leaves the tables. *)
ResetRemove(w) ==
  /\ mu = Free
  /\ Goto(w, "remove", "route")
  /\ sessions' = sessions \ cur[w]
  /\ txReady' = txReady \ cur[w]
  /\ cur' = [cur EXCEPT ![w] = {}]
  /\ UNCHANGED <<mu, created, inFlight, tx, rxClosed, cb, got, snap, left, room, acked>>

RouteEnd(w) ==
  /\ Goto(w, "route", "release")
  /\ UNCHANGED <<mu, table, tx, rxClosed, cb, batch, acked>>

(* No endpoint, a transport error, an HTTP error or an error page: the     *)
(* deferred rollbackDrained picks the sessions still in the table.         *)
PollFail(w) ==
  /\ mu = Free
  /\ \A s \in got[w] : Len(snap[w][s].txBuf) + Len(tx[s].txBuf) <= MaxBuf
  /\ Goto(w, "post", "rollback")
  /\ left' = [left EXCEPT ![w] = got[w] \cap sessions]
  /\ UNCHANGED <<mu, table, tx, rxClosed, cb, got, snap, room, cur, acked>>

RollbackOne(w, s) ==
  /\ s \in left[w]
  /\ Goto(w, "rollback", "onTx")
  /\ tx' = [tx EXCEPT ![s] = RollbackDrain(@, snap[w][s])]
  /\ left' = [left EXCEPT ![w] = @ \ {s}]
  /\ cur' = [cur EXCEPT ![w] = {s}]
  /\ UNCHANGED <<mu, table, rxClosed, cb, got, snap, room, acked>>

RollbackOnTx(w) ==
  /\ mu = Free
  /\ Goto(w, "onTx", "rollback")
  /\ txReady' = txReady \cup cur[w]
  /\ cur' = [cur EXCEPT ![w] = {}]
  /\ UNCHANGED <<mu, created, sessions, inFlight, tx, rxClosed, cb, got, snap, left,
                 room, acked>>

(* Mutation of RollbackEnd: the slot is given back with sessions left. *)
RollbackEnd_Early(w) ==
  /\ Goto(w, "rollback", "release")
  /\ left' = [left EXCEPT ![w] = {}]
  /\ UNCHANGED <<mu, table, tx, rxClosed, cb, got, snap, room, cur, acked>>

RollbackEnd(w) ==
  /\ left[w] = {}
  /\ Goto(w, "rollback", "release")
  /\ UNCHANGED <<mu, table, tx, rxClosed, cb, batch, acked>>

(* Mutation of Release: sessions with data left are not put back. *)
Release_Forget(w) ==
  /\ mu = Free
  /\ Goto(w, "release", "gc")
  /\ inFlight' = inFlight \ got[w]
  /\ got' = [got EXCEPT ![w] = {}]
  /\ UNCHANGED <<mu, created, sessions, txReady, tx, rxClosed, cb, snap, left, room, cur, acked>>

(* releaseInFlight *)
Release(w) ==
  /\ mu = Free
  /\ Goto(w, "release", "gc")
  /\ inFlight' = inFlight \ got[w]
  /\ txReady' = txReady \cup {s \in got[w] \cap sessions : HasPendingTx(tx[s])}
  /\ got' = [got EXCEPT ![w] = {}]
  /\ snap' = [snap EXCEPT ![w] = NoSnaps]
  /\ UNCHANGED <<mu, created, sessions, tx, rxClosed, cb, left, room, cur, acked>>

(* IsDone: both FINs have gone by, or ours did sessionFinalTimeout ago. *)
IsDone(s, expired) == tx[s].finSent /\ (s \in rxClosed \/ s \in expired)

(* gcDoneSessions, which runWorker calls after every poll. *)
Gc(w) ==
  /\ mu = Free
  /\ Goto(w, "gc", "idle")
  /\ \E expired \in SUBSET {s \in sessions : tx[s].finSent} :
       LET done == {s \in sessions : IsDone(s, expired)}
       IN  /\ sessions' = sessions \ done
           /\ txReady' = txReady \ done
  /\ UNCHANGED <<mu, created, inFlight, tx, rxClosed, cb, batch, acked>>

---------------------------------------------------------------------------
App(s) ==
  \/ NewSession(s)
  \/ Write(s)
  \/ Close(s)

Callback(s) == \E c \in Callers : OnTx(c, s)

Worker(w) ==
  \/ DrainStart(w) \/ (\E s \in Sessions : DrainOne(w, s)) \/ DrainEnd(w)
  \/ PollOk(w) \/ RouteEnd(w)
  \/ ResetOnTx(w) \/ ResetRemove(w)
  \/ PollFail(w) \/ (\E s \in Sessions : RollbackOne(w, s))
  \/ RollbackOnTx(w) \/ RollbackEnd(w)
  \/ Release(w) \/ Gc(w)

Peer(w) == \E s \in Sessions : RouteFin(w, s) \/ RouteRst(w, s)

Next ==
  \/ \E s \in Sessions : App(s) \/ Callback(s)
  \/ \E w \in Workers : Worker(w) \/ Peer(w)

Spec == Init /\ [][Next]_vars

---------------------------------------------------------------------------
(* Tables and batches stay well formed and a batch stays within its cap. *)
TypeOK ==
  /\ mu \in Workers \cup {Free}
  /\ created \subseteq Sessions
  /\ sessions \subseteq created
  /\ txReady \subseteq created
  /\ inFlight \subseteq created
  /\ tx \in [Sessions -> [txBuf : Seq({0}), txSeq : Nat, synNeeded : BOOLEAN,
                          closeReq : BOOLEAN, finSent : BOOLEAN]]
  /\ rxClosed \subseteq created
  /\ cb \subseteq Callers \X created
  /\ pc \in [Workers -> {"idle", "drain", "post", "route", "reset", "remove",
                         "rollback", "onTx", "release", "gc"}]
  /\ got \in [Workers -> SUBSET created]
  /\ snap \in [Workers -> [Sessions -> [txBuf : Seq({0}), txSeq : Nat,
                 synNeeded : BOOLEAN, closeReq : BOOLEAN, finSent : BOOLEAN]]]
  /\ left \in [Workers -> SUBSET created]
  /\ room \in Nat
  /\ cur \in [Workers -> SUBSET created]
  /\ acked \in [Sessions -> Nat]

(* A session's frames are carried by one batch at a time, so two workers   *)
(* never send the same session concurrently: inFlight is exactly what the  *)
(* workers hold, and their holdings are disjoint.                          *)
ExclusiveFlight ==
  /\ inFlight = UNION {got[w] : w \in Workers}
  /\ \A v, w \in Workers : v # w => got[v] \cap got[w] = {}

CallbackDue(s) ==
  \/ \E c \in Callers : <<c, s>> \in cb
  \/ \E w \in Workers : pc[w] \in {"reset", "remove", "onTx"} /\ s \in cur[w]

(* A session with something to send is never forgotten: it is marked in    *)
(* txReady, or in flight (releaseInFlight will mark it), or the goroutine  *)
(* that gave it something to send is about to mark it.                     *)
NoStrandedTx ==
  \A s \in sessions : HasPendingTx(tx[s]) =>
    s \in txReady \/ s \in inFlight \/ CallbackDue(s)

(* Outside a flight a session's next sequence number follows the last one  *)
(* of a committed batch: a failed batch is rolled back before its session  *)
(* can be drained again (the order of pollOnce's deferred calls).          *)
SeqContinuity ==
  \A s \in sessions \ inFlight : tx[s].txSeq = acked[s]
=============================================================================
