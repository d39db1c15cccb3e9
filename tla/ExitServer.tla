----------------------------- MODULE ExitServer ------------------------------
(***************************************************************************)
(* The exit server's tables and the goroutines that share them             *)
(* (core/internal/exit/exit.go): tunnel handlers with routeIncoming, the   *)
(* long-poll wait and drainAll; the two pumps of every upstream            *)
(* connection; gcDoneSessions and the idle collection.                     *)
(*                                                                         *)
(* A step is one critical section of Server.mu, or one operation on a      *)
(* channel or a connection.  A request carries the frames of one session,  *)
(* which are named by what they do; reassembly is module SessionRx.  The   *)
(* maps sessions, sessionOwners, upstreams and lastActivity are written    *)
(* together and are the one function table, from a session ID to the       *)
(* instance openSession made for it.  Times (idle, final, dial back-off,   *)
(* long-poll deadline) may elapse at any moment, and the frame and byte    *)
(* budgets of a batch may end it after any session.                        *)
(***************************************************************************)
EXTENDS Session, FiniteSets

CONSTANTS
  Clients,     \* client IDs
  Ids,         \* session IDs
  Handlers,    \* handleTunnel goroutines
  PerSession,  \* maxDrainFramesPerSession
  MaxSyn,      \* bound: SYNs that arrive for one session ID
  MaxData,     \* bound: reads from one upstream connection
  HighWater,   \* TxBufHighWater
  Target,      \* the target of each session ID
  Requests     \* the frame kinds a request may carry, as sequences

Kinds == {"syn", "data", "fin", "rst", "probe"}

ASSUME ExitServerAssumption ==
  /\ IsFiniteSet(Clients) /\ IsFiniteSet(Handlers)
  /\ {PerSession, MaxSyn} \subseteq Nat \ {0}
  /\ {MaxData, HighWater} \subseteq Nat
  /\ Requests \subseteq Seq(Kinds)
  /\ 0 \notin Ids    \* 0 stands for no session

VARIABLES
  inst,      \* sessions openSession has made, with connection and read pump
  table,     \* the instance registered for each ID, 0 if there is none
  txReady,   \* Server.txReady
  answers,   \* pendingRSTs and pendingCtrl of each client
  failed,    \* targets in dialFail
  dns,       \* targets whose address dnsCache holds
  chan,      \* the wake channel of each client, 0 if there is none
  tokens,    \* wake channels that hold a token
  victims,   \* instances gcIdleSessions has unregistered and not yet closed
  hnd,       \* the handlers
  syns       \* SYNs that have arrived for each ID

wakes == <<chan, tokens>>
dials == <<failed, dns>>
vars == <<inst, table, txReady, answers, dials, wakes, victims, hnd, syns>>

Idle == [at |-> "idle"]

(* No session is open; the cache may know targets of sessions that were.   *)
Init ==
  /\ inst = <<>>
  /\ table = [s \in Ids |-> 0]
  /\ txReady = {}
  /\ answers = [c \in Clients |-> {}]
  /\ failed = {}
  /\ dns \in SUBSET {Target[s] : s \in Ids}
  /\ chan = [c \in Clients |-> 0]
  /\ tokens = {}
  /\ victims = {}
  /\ hnd = [h \in Handlers |-> Idle]
  /\ syns = [s \in Ids |-> 0]

Registered(i) == table[inst[i].id] = i

(* A channel no goroutine and no table entry refers to. *)
FreshChannel ==
  CHOOSE n \in 1..(Cardinality(Clients) + Cardinality(Handlers) + 1) :
    /\ \A c \in Clients : chan[c] # n
    /\ \A h \in Handlers : hnd[h] # Idle => hnd[h].ch # n

(* activityFor(c): c's channel, a new and empty one when there is none. *)
ActivityFor(c) == IF chan[c] = 0 THEN FreshChannel ELSE chan[c]

(* kick(c): a token, unless the channel has one. *)
Kick(c) ==
  /\ chan' = [chan EXCEPT ![c] = ActivityFor(c)]
  /\ tokens' = tokens \cup {ActivityFor(c)}

---------------------------------------------------------------------------
(* handleTunnel: routing the frames of a request.                          *)

Goto(h, to) == hnd' = [hnd EXCEPT ![h].at = to]

(* The next frame is routed, after the last one the handler captures its   *)
(* wake channel.                                                           *)
NextFrame(h) ==
  LET rest == Tail(hnd[h].frames)
  IN  hnd' = [hnd EXCEPT ![h] = [@ EXCEPT !.frames = rest, !.inst = 0,
                                 !.at = IF rest = <<>> THEN "capture" ELSE "route"]]

Opens(frames) == frames # <<>> /\ Head(frames) = "syn"

Arrive(h, c, s, frames) ==
  /\ hnd[h] = Idle
  /\ Opens(frames) => syns[s] < MaxSyn
  /\ syns' = [syns EXCEPT ![s] = IF Opens(frames) THEN @ + 1 ELSE @]
  /\ hnd' = [hnd EXCEPT ![h] = [at |-> IF frames = <<>> THEN "capture" ELSE "route",
               client |-> c, id |-> s, frames |-> frames, inst |-> 0, ch |-> 0,
               late |-> FALSE, out |-> {}]]
  /\ UNCHANGED <<inst, table, txReady, answers, dials, wakes, victims>>

(* routeIncoming: the lookup, and what follows from it. *)
Route(h) ==
  LET r == hnd[h]
      i == table[r.id]
  IN  /\ r.at = "route"
      /\ \/ /\ i # 0 /\ inst[i].owner = r.client
            /\ hnd' = [hnd EXCEPT ![h] = [@ EXCEPT !.at = "deliver", !.inst = i]]
         \/ /\ i = 0 /\ Head(r.frames) = "syn" /\ Target[r.id] \notin failed
            /\ Goto(h, "resolve")
         \/ /\ i = 0 /\ Head(r.frames) = "probe"
            /\ Goto(h, "version")
         \/ /\ \/ i # 0 /\ inst[i].owner # r.client
               \/ i = 0 /\ Head(r.frames) \notin {"syn", "probe"}
               \/ i = 0 /\ Head(r.frames) = "syn" /\ Target[r.id] \in failed
            /\ Goto(h, "rst")
      /\ UNCHANGED <<inst, table, txReady, answers, dials, wakes, victims, syns>>

(* queueRST and queueVersionResponse: the answer is queued, then the       *)
(* client's handlers are kicked.                                           *)
QueueRst(h) ==
  /\ hnd[h].at \in {"rst", "version"}
  /\ answers' = [answers EXCEPT ![hnd[h].client] = @ \cup {<<hnd[h].id, hnd[h].at>>}]
  /\ Goto(h, "rstKick")
  /\ UNCHANGED <<inst, table, txReady, dials, wakes, victims, syns>>

RstKick(h) ==
  /\ hnd[h].at = "rstKick"
  /\ Kick(hnd[h].client)
  /\ NextFrame(h)
  /\ UNCHANGED <<inst, table, txReady, answers, dials, victims, syns>>

(* dialWithDNSCache.  An address that is cached and not expired is used as *)
(* it is; an expired one is evicted.                                       *)
Resolve(h) ==
  /\ hnd[h].at = "resolve"
  /\ \/ Target[hnd[h].id] \in dns /\ Goto(h, "dialCached") /\ UNCHANGED dns
     \/ Goto(h, "lookup") /\ dns' = dns \ {Target[hnd[h].id]}
  /\ UNCHANGED <<inst, table, txReady, answers, failed, wakes, victims, syns>>

(* The resolver's answer is cached before the dial; when there is none, or *)
(* nothing to resolve, the target is dialed by its name.                   *)
Lookup(h) ==
  /\ hnd[h].at = "lookup"
  /\ dns' \in {dns, dns \cup {Target[hnd[h].id]}}
  /\ Goto(h, "dial")
  /\ UNCHANGED <<inst, table, txReady, answers, failed, wakes, victims, syns>>

(* openSession's dial fails: a cached address is forgotten, and whether    *)
(* dialFail remembers the target depends on the error.  No RST is queued.  *)
DialFails(h) ==
  /\ hnd[h].at \in {"dial", "dialCached"}
  /\ dns' = IF hnd[h].at = "dialCached" THEN dns \ {Target[hnd[h].id]} ELSE dns
  /\ failed' \in {failed, failed \cup {Target[hnd[h].id]}}
  /\ NextFrame(h)
  /\ UNCHANGED <<inst, table, txReady, answers, wakes, victims, syns>>

(* The dial succeeds: openSession registers the session and starts the     *)
(* pumps, clearDialFailure.                                                *)
Open(h) ==
  LET i == Len(inst) + 1
  IN  /\ hnd[h].at \in {"dial", "dialCached"}
      /\ inst' = Append(inst, [id |-> hnd[h].id, owner |-> hnd[h].client,
                   tx |-> NewTx(FALSE), reads |-> 0, rx |-> "open",
                   up |-> "open", pump |-> "read"])
      /\ table' = [table EXCEPT ![hnd[h].id] = i]
      /\ failed' = failed \ {Target[hnd[h].id]}
      /\ hnd' = [hnd EXCEPT ![h] = [@ EXCEPT !.at = "deliver", !.inst = i]]
      /\ UNCHANGED <<txReady, answers, dns, wakes, victims, syns>>

(* ProcessRx and rxLoop: a FIN closes RxChan, unless it waits behind a gap *)
(* or comes after a stop; a frame that finds rxInbox full for too long     *)
(* stops the session.  No frame is special because of an RST flag.         *)
(* lastActivity is touched.                                                *)
Deliver(h) ==
  LET i == hnd[h].inst
  IN  /\ hnd[h].at = "deliver"
      /\ \/ inst' = inst
         \/ /\ Head(hnd[h].frames) = "fin" /\ inst[i].rx # "closed"
            /\ inst' = [inst EXCEPT ![i].rx = "closed"]
         \/ inst[i].rx = "open" /\ inst' = [inst EXCEPT ![i].rx = "stopped"]
      /\ NextFrame(h)
      /\ UNCHANGED <<table, txReady, answers, dials, wakes, victims, syns>>

(* rxLoop after Stop: its deferred close of RxChan. *)
RxLoopEnds(i) ==
  /\ inst[i].rx = "stopped"
  /\ inst' = [inst EXCEPT ![i].rx = "closed"]
  /\ UNCHANGED <<table, txReady, answers, dials, wakes, victims, hnd, syns>>

---------------------------------------------------------------------------
(* handleTunnel: the reply.                                                *)

Capture(h) ==
  LET ch == ActivityFor(hnd[h].client)
  IN  /\ hnd[h].at = "capture"
      /\ chan' = [chan EXCEPT ![hnd[h].client] = ch]
      /\ tokens' = IF chan[hnd[h].client] = 0 THEN tokens \ {ch} ELSE tokens
      /\ hnd' = [hnd EXCEPT ![h] = [@ EXCEPT !.at = "drain", !.ch = ch]]
      /\ UNCHANGED <<inst, table, txReady, answers, dials, victims, syns>>

(* Mutation of Drainable: whatever is ready, whoever owns it. *)
Drainable_Everyone(c) == {s \in txReady : table[s] # 0}

(* Sessions drainAll visits for a client. *)
Drainable(c) == {s \in txReady : table[s] # 0 /\ inst[table[s]].owner = c}

(* Mutation of StillReady: a session leaves txReady once it was visited. *)
StillReady_VisitedLeaves(visited, insts) ==
  {s \in txReady : table[s] # 0 /\ s \notin visited}

(* A visited session stays in txReady when the drain was partial. *)
StillReady(visited, insts) ==
  {s \in txReady : table[s] # 0 /\ (s \in visited => HasPendingTx(insts[table[s]].tx))}

(* drainAll: the answers, then the frames of the sessions it has room for; *)
(* the last of several may be cut short.                                   *)
DrainAll(h) ==
  LET c == hnd[h].client
  IN  \E visited \in SUBSET Drainable(c), last \in Drainable(c) \cup {0}, cap \in 1..PerSession :
        LET own(i)   == Registered(i) /\ inst[i].id \in visited
            limit(i) == IF inst[i].id = last THEN cap ELSE PerSession
            carried  == {i \in DOMAIN inst : own(i) /\ HasPendingTx(inst[i].tx)}
            drained  == [i \in DOMAIN inst |->
                           IF own(i)
                           THEN [inst[i] EXCEPT !.tx = DrainTx(@, 1, limit(i)).sess]
                           ELSE inst[i]]
            empty    == carried = {} /\ answers[c] = {}
        IN  /\ visited = {} => Drainable(c) = {}
            /\ IF Cardinality(visited) > 1 THEN last \in visited ELSE last = 0 /\ cap = 1
            /\ inst' = drained
            /\ txReady' = StillReady(visited, drained)
            /\ answers' = [answers EXCEPT ![c] = {}]
            /\ hnd' = [hnd EXCEPT ![h] =
                         [@ EXCEPT !.out = hnd[h].out \cup carried,
                                   !.at = IF ~empty \/ hnd[h].at = "reply" THEN "reply"
                                          ELSE IF hnd[h].late THEN "end" ELSE "wait"]]

Drain(h) ==
  /\ hnd[h].at = "drain"
  /\ DrainAll(h)
  /\ UNCHANGED <<table, dials, wakes, victims, syns>>

Wake(h) ==
  /\ hnd[h].at = "wait"
  /\ hnd[h].ch \in tokens
  /\ tokens' = tokens \ {hnd[h].ch}
  /\ Goto(h, "drain")
  /\ UNCHANGED <<inst, table, txReady, answers, dials, chan, victims, syns>>

(* Any batch may coalesce: its size and urgency are not modelled. *)
Coalesce(h) ==
  /\ hnd[h].at = "reply"
  /\ hnd[h].ch \in tokens
  /\ tokens' = tokens \ {hnd[h].ch}
  /\ DrainAll(h)
  /\ UNCHANGED <<table, dials, chan, victims, syns>>

Deadline(h) ==
  /\ hnd[h].at = "wait"
  /\ hnd' = [hnd EXCEPT ![h] = [@ EXCEPT !.at = "drain", !.late = TRUE]]
  /\ UNCHANGED <<inst, table, txReady, answers, dials, wakes, victims, syns>>

(* The request's context is done, or the reply cannot be encoded; what was *)
(* drained is dropped.                                                     *)
Hangup(h) ==
  /\ hnd[h].at \in {"wait", "reply"}
  /\ hnd' = [hnd EXCEPT ![h] = Idle]
  /\ UNCHANGED <<inst, table, txReady, answers, dials, wakes, victims, syns>>

EmptyReply(h) ==
  /\ hnd[h].at = "end"
  /\ hnd' = [hnd EXCEPT ![h] = Idle]
  /\ UNCHANGED <<inst, table, txReady, answers, dials, wakes, victims, syns>>

(* IsDone, for the sessions whose FIN has been sent too long ago. *)
IsDone(i, expired) == inst[i].tx.finSent /\ (inst[i].rx = "closed" \/ i \in expired)

Stop(i) == [inst[i] EXCEPT !.rx = IF @ = "open" THEN "stopped" ELSE @]

(* gcDoneSessions: done sessions are stopped and leave the tables, and     *)
(* clients without sessions lose their wake channel.                       *)
Collect(done) ==
  /\ inst' = [i \in DOMAIN inst |-> IF i \in done THEN Stop(i) ELSE inst[i]]
  /\ table' = [s \in Ids |-> IF table[s] \in done THEN 0 ELSE table[s]]
  /\ txReady' = {s \in txReady : table[s] \notin done}
  /\ chan' = [c \in Clients |->
                IF \E s \in Ids : table'[s] # 0 /\ inst[table'[s]].owner = c THEN chan[c] ELSE 0]

Reply(h) ==
  /\ hnd[h].at = "reply"
  /\ \E expired \in SUBSET {i \in DOMAIN inst : inst[i].tx.finSent /\ inst[i].rx # "closed"} :
       Collect({i \in DOMAIN inst : Registered(i) /\ IsDone(i, expired)})
  /\ hnd' = [hnd EXCEPT ![h] = Idle]
  /\ UNCHANGED <<answers, dials, tokens, victims, syns>>

---------------------------------------------------------------------------
(* The pumps of an upstream connection.                                    *)

(* upstream.Read returns data ... *)
ReadData(i) ==
  /\ inst[i].pump = "read"
  /\ inst[i].up = "open"
  /\ inst[i].reads < MaxData
  /\ inst' = [inst EXCEPT ![i] = [@ EXCEPT !.reads = inst[i].reads + 1, !.pump = "enqueue"]]
  /\ UNCHANGED <<table, txReady, answers, dials, wakes, victims, hnd, syns>>

(* Mutation of Enqueue: the high-water mark is ignored. *)
Enqueue_NoWait(i) ==
  /\ inst[i].pump = "enqueue"
  /\ inst' = [inst EXCEPT ![i] = [@ EXCEPT !.tx = EnqueueTx(inst[i].tx, <<0>>), !.pump = "mark"]]
  /\ UNCHANGED <<table, txReady, answers, dials, wakes, victims, hnd, syns>>

(* ... and EnqueueTx appends it once the buffer is not above the mark. *)
Enqueue(i) ==
  /\ inst[i].pump = "enqueue"
  /\ ~TxBlocked(inst[i].tx, HighWater)
  /\ inst' = [inst EXCEPT ![i] = [@ EXCEPT !.tx = EnqueueTx(inst[i].tx, <<0>>), !.pump = "mark"]]
  /\ UNCHANGED <<table, txReady, answers, dials, wakes, victims, hnd, syns>>

(* upstream.Read fails: end of file, or the connection is closed.          *)
ReadEnd(i) ==
  /\ inst[i].pump = "read"
  /\ inst' = [inst EXCEPT ![i] = [@ EXCEPT !.tx = RequestClose(inst[i].tx), !.pump = "markFin"]]
  /\ UNCHANGED <<table, txReady, answers, dials, wakes, victims, hnd, syns>>

(* OnTx marks the session ID ... *)
Mark(i) ==
  /\ inst[i].pump \in {"mark", "markFin"}
  /\ txReady' = txReady \cup {inst[i].id}
  /\ inst' = [inst EXCEPT ![i].pump = IF @ = "mark" THEN "kick" ELSE "kickFin"]
  /\ UNCHANGED <<table, answers, dials, wakes, victims, hnd, syns>>

(* Mutation of KickOwner: the FIN is queued without a kick. *)
KickOwner_DataOnly(i) ==
  /\ inst[i].pump \in {"kick", "kickFin"}
  /\ IF inst[i].pump = "kick" THEN Kick(inst[i].owner) ELSE UNCHANGED <<chan, tokens>>
  /\ inst' = [inst EXCEPT ![i].pump = IF @ = "kick" THEN "read" ELSE "stop"]
  /\ UNCHANGED <<table, txReady, answers, dials, victims, hnd, syns>>

(* ... and kicks the owner's handlers. *)
KickOwner(i) ==
  /\ inst[i].pump \in {"kick", "kickFin"}
  /\ Kick(inst[i].owner)
  /\ inst' = [inst EXCEPT ![i].pump = IF @ = "kick" THEN "read" ELSE "stop"]
  /\ UNCHANGED <<table, txReady, answers, dials, victims, hnd, syns>>

(* Mutation of ReadPumpEnds: the connection is left to the write pump. *)
ReadPumpEnds_LeaveOpen(i) ==
  /\ inst[i].pump = "stop"
  /\ inst' = [inst EXCEPT ![i] = [Stop(i) EXCEPT !.pump = "done"]]
  /\ UNCHANGED <<table, txReady, answers, dials, wakes, victims, hnd, syns>>

(* Stop, and the deferred upstream.Close. *)
ReadPumpEnds(i) ==
  /\ inst[i].pump = "stop"
  /\ inst' = [inst EXCEPT ![i] = [Stop(i) EXCEPT !.up = "closed", !.pump = "done"]]
  /\ UNCHANGED <<table, txReady, answers, dials, wakes, victims, hnd, syns>>

(* The write pump closes the connection when RxChan is closed or a write   *)
(* fails.                                                                  *)
WritePumpEnds(i) ==
  /\ inst[i].up = "open"
  /\ inst' = [inst EXCEPT ![i].up = "closed"]
  /\ UNCHANGED <<table, txReady, answers, dials, wakes, victims, hnd, syns>>

---------------------------------------------------------------------------
(* Timers.                                                                 *)

DialBackoffEnds(t) ==
  /\ t \in failed
  /\ failed' = failed \ {t}
  /\ UNCHANGED <<inst, table, txReady, answers, dns, wakes, victims, hnd, syns>>

(* Mutation of IdleGc: the session is only forgotten. *)
IdleGc_Forget(s) ==
  /\ table[s] # 0
  /\ victims' = victims
  /\ table' = [table EXCEPT ![s] = 0]
  /\ txReady' = txReady \ {s}
  /\ UNCHANGED <<inst, answers, dials, wakes, hnd, syns>>

(* gcIdleSessions: under the lock the session leaves the tables ...        *)
IdleGc(s) ==
  /\ table[s] # 0
  /\ victims' = victims \cup {table[s]}
  /\ table' = [table EXCEPT ![s] = 0]
  /\ txReady' = txReady \ {s}
  /\ UNCHANGED <<inst, answers, dials, wakes, hnd, syns>>

(* ... and is closed after it. *)
IdleClose(i) ==
  /\ i \in victims
  /\ victims' = victims \ {i}
  /\ inst' = [inst EXCEPT ![i] = [@ EXCEPT !.up = "closed", !.rx = "closed"]]
  /\ UNCHANGED <<table, txReady, answers, dials, wakes, hnd, syns>>

---------------------------------------------------------------------------
Handler(h) ==
  \/ Route(h) \/ QueueRst(h) \/ RstKick(h) \/ Resolve(h) \/ Lookup(h)
  \/ DialFails(h) \/ Open(h) \/ Deliver(h)
  \/ Capture(h) \/ Drain(h) \/ Wake(h) \/ Coalesce(h) \/ Deadline(h) \/ Hangup(h)
  \/ EmptyReply(h) \/ Reply(h)

Pumps(i) ==
  \/ ReadData(i) \/ Enqueue(i) \/ ReadEnd(i) \/ Mark(i) \/ KickOwner(i) \/ ReadPumpEnds(i)
  \/ WritePumpEnds(i) \/ RxLoopEnds(i) \/ IdleClose(i)

Next ==
  \/ \E h \in Handlers, c \in Clients, s \in Ids, frames \in Requests :
       Arrive(h, c, s, frames)
  \/ \E h \in Handlers : Handler(h)
  \/ \E i \in DOMAIN inst : Pumps(i)
  \/ \E t \in failed : DialBackoffEnds(t)
  \/ \E s \in Ids : IdleGc(s)

Spec == Init /\ [][Next]_vars

(* The instances a bounded run can make. *)
Instances == 1..(MaxSyn * Cardinality(Ids))

(* Goroutines that have work do it; a read from an open connection and a   *)
(* write may block for ever, and so may a wait at the high-water mark.     *)
Fairness ==
  \A i \in Instances :
    /\ WF_vars(i \in DOMAIN inst /\ Enqueue(i))
    /\ WF_vars(i \in DOMAIN inst /\ inst[i].up = "closed" /\ ReadEnd(i))
    /\ WF_vars(i \in DOMAIN inst /\ Mark(i))
    /\ WF_vars(i \in DOMAIN inst /\ KickOwner(i))
    /\ WF_vars(i \in DOMAIN inst /\ ReadPumpEnds(i))
    /\ WF_vars(i \in DOMAIN inst /\ IdleClose(i))

FairSpec == Spec /\ Fairness

---------------------------------------------------------------------------
(* Handlers, sessions and tables stay well formed, and no read pump gets   *)
(* past the high-water mark.                                               *)
TypeOK ==
  /\ \A i \in DOMAIN inst :
       /\ inst[i].id \in Ids /\ inst[i].owner \in Clients
       /\ inst[i].rx \in {"open", "stopped", "closed"}
       /\ inst[i].up \in {"open", "closed"}
       /\ inst[i].pump \in {"read", "enqueue", "mark", "kick", "markFin", "kickFin",
                            "stop", "done"}
       /\ Len(inst[i].tx.txBuf) <= HighWater + 1
  /\ table \in [Ids -> 0..Len(inst)]
  /\ txReady \subseteq Ids
  /\ answers \in [Clients -> SUBSET (Ids \X {"rst", "version"})]
  /\ victims \subseteq DOMAIN inst
  /\ failed \cup dns \subseteq {Target[s] : s \in Ids}

(* drainAll filters by owner: a reply to one client never carries frames   *)
(* of a session another client owns, whoever else shares the session ID.   *)
Isolation ==
  \A h \in Handlers : hnd[h] # Idle =>
    \A i \in hnd[h].out : inst[i].owner = hnd[h].client

(* A session that has something to send is in txReady, or its read pump is *)
(* about to put it there: partial drains, the two collectors and a reopen  *)
(* of the same ID never strand bytes or a FIN.                             *)
NoStrandedTx ==
  \A i \in DOMAIN inst :
    Registered(i) /\ HasPendingTx(inst[i].tx) =>
      inst[i].id \in txReady \/ inst[i].pump \in {"mark", "markFin"}

(* handleTunnel captures the wake channel before it drains, so that a kick *)
(* between an empty drain and the wait is not lost: while a handler waits  *)
(* on its client's channel, an answer or a session that is ready and was   *)
(* kicked has left a token there, or another handler is on its way to it.  *)
(* It is stated for runs in which one drain empties a session: nothing     *)
(* kicks for what a partial drain leaves.                                  *)
WaiterIsWoken ==
  \A h \in Handlers :
    LET c == hnd[h].client
        kicked(i) == inst[i].owner = c /\ inst[i].pump \in {"read", "enqueue", "stop", "done"}
    IN  hnd[h] # Idle /\ hnd[h].at = "wait" /\ hnd[h].ch = chan[c]
        /\ (\/ \E i \in DOMAIN inst : Registered(i) /\ kicked(i) /\ HasPendingTx(inst[i].tx)
            \/ answers[c] # {} /\ \A g \in Handlers :
                  hnd[g] # Idle => ~(hnd[g].client = c /\ hnd[g].at = "rstKick"))
        => \/ chan[c] \in tokens
           \/ \E g \in Handlers : hnd[g] # Idle /\ hnd[g].client = c /\ hnd[g].at = "drain"

(* The server can still close the connection: its session is registered,   *)
(* being stopped, or a victim of the idle collection.                      *)
Tracked(i) == Registered(i) \/ inst[i].rx # "open" \/ i \in victims

(* upstreams (exit.go:178) is "kept so GC can force-close": no open        *)
(* connection is out of reach.  Two copies of a SYN, of which the second   *)
(* arrives during the first one's dial, leave one that is.                 *)
UpstreamTracked == \A i \in DOMAIN inst : inst[i].up = "open" => Tracked(i)

Reopened(i) == \E j \in DOMAIN inst : j > i /\ inst[j].id = inst[i].id

(* That is the only way: whatever handlers, pumps and the two collections  *)
(* do, an open connection that is out of reach is one that openSession     *)
(* replaced by a later one of the same session ID.                         *)
LostOnlyByReopen ==
  \A i \in DOMAIN inst : inst[i].up = "open" => Tracked(i) \/ Reopened(i)

(* EnqueueTx waits for a drain; once the session is out of the tables      *)
(* there is none.                                                          *)
BlockedForGood(i) ==
  inst[i].pump = "enqueue" /\ TxBlocked(inst[i].tx, HighWater) /\ ~Registered(i)

(* A session whose FIN is sent, which gcDoneSessions may forget, and one   *)
(* that gcIdleSessions has taken from the tables give up their connection, *)
(* and their read pump ends unless it waits at the high-water mark.        *)
CollectedIsReleased ==
  \A i \in Instances :
    (i \in DOMAIN inst /\ (inst[i].tx.finSent \/ i \in victims)) ~>
      (/\ i \in DOMAIN inst
       /\ inst[i].up = "closed"
       /\ inst[i].pump = "done" \/ BlockedForGood(i))

(* gcIdleSessions' comment (exit.go:858): "Closing upstream causes the     *)
(* read goroutine in openSession to error and exit".  One that waits in    *)
(* EnqueueTx is not in Read, and nobody drains its session any more.       *)
IdleCollectionEndsPump ==
  \A i \in Instances : i \in victims ~> (i \in DOMAIN inst /\ inst[i].pump = "done")
=============================================================================
