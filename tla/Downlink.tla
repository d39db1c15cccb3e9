------------------------------ MODULE Downlink -------------------------------
(***************************************************************************)
(* The downstream direction of one session, end to end, and the end of the *)
(* session on both sides: the read pump of the upstream connection, the    *)
(* exit server's handlers that drain the session into their replies        *)
(* without a way back, replies that are lost, overtake one another or      *)
(* cannot be decoded, carrier.Client's pollOnce, routeRx and               *)
(* gcDoneSessions, and socks.VirtualConn.Read with its idle timeout.  The  *)
(* exit server may restart and forget the session.                         *)
(*                                                                         *)
(* The session is open at the start: its SYN has arrived.  What the client *)
(* sends upstream matters here only as the kind of a batch: nothing, data, *)
(* or the FIN (module Uplink has the bytes).  The limits of rxInbox and    *)
(* RxChan are in module SessionRx, the wake-ups of handlers and workers in *)
(* ExitServer and PollWorkers, several sessions in Carrier.  Times (30 s   *)
(* idle timeout, 30 s final timeout, 10 min idle collection, long-poll     *)
(* deadline) may elapse at any moment.                                     *)
(***************************************************************************)
EXTENDS Session, SequencesExt

CONSTANTS
  Workers,      \* poll workers of the client
  MaxPayload,   \* bytes per frame (MaxFramePayload)
  MaxFrames,    \* frames one session may put in a reply
  ReadSize,     \* bytes a Read asks for
  HighWater,    \* TxBufHighWater
  MaxBytes,     \* bound: bytes the upstream sends
  MaxFaults     \* bound: failed polls and restarts of the exit server

ASSUME DownlinkAssumption ==
  /\ {MaxPayload, MaxFrames, ReadSize} \subseteq Nat \ {0}
  /\ {HighWater, MaxBytes, MaxFaults} \subseteq Nat

VARIABLES
  srv,       \* the exit server's side: session, transmit half, pending RST
  supplied,  \* history: bytes the read pump has put in the session
  ended,     \* history: the read pump has asked for the FIN
  orphans,   \* handlers whose client has given the poll up
  polls,     \* the poll of each worker
  cl,        \* the client's session: table entry, closing, receive half
  conn,      \* RxChan and VirtualConn.readBuf
  got,       \* bytes Read has returned
  reader,    \* how the reading side of the SOCKS connection stands
  lost,      \* history: a reply or a buffer with frames was lost
  faults     \* failed polls and restarts so far

vars == <<srv, supplied, ended, orphans, polls, cl, conn, got, reader, lost,
          faults>>

NoPoll == [st |-> "idle"]
Rst    == [rst |-> TRUE]

NewServer == [known |-> TRUE, tx |-> NewTx(FALSE), peerFin |-> FALSE, rst |-> FALSE]

Init ==
  /\ srv = NewServer
  /\ supplied = <<>>
  /\ ended = FALSE
  /\ orphans = 0
  /\ polls = [w \in Workers |-> NoPoll]
  /\ cl = [registered |-> TRUE, closeReq |-> FALSE, finSent |-> FALSE, finOld |-> FALSE,
           stopped |-> FALSE, rx |-> NewRx, inbox |-> <<>>]
  /\ conn = [chan |-> <<>>, end |-> "open", readBuf |-> <<>>]
  /\ got = <<>>
  /\ reader = "reading"
  /\ lost = FALSE
  /\ faults = 0

server  == <<srv, supplied, ended, orphans>>
client  == <<cl, conn, got, reader>>
history == <<lost, faults>>

---------------------------------------------------------------------------
(* The exit server: the pumps of the upstream connection.                  *)

(* The read pump of openSession: bytes are numbered as they come.          *)
ReadData ==
  LET byte == Len(supplied) + 1
  IN  /\ srv.known
      /\ ~ended
      /\ byte <= MaxBytes
      /\ ~TxBlocked(srv.tx, HighWater)
      /\ srv' = [srv EXCEPT !.tx = EnqueueTx(@, <<byte>>)]
      /\ supplied' = Append(supplied, byte)
      /\ UNCHANGED <<ended, orphans, polls, client, history>>

(* Read fails, because the upstream has ended or the write pump has closed *)
(* the connection: RequestClose.  The Stop that follows lets gcDoneSessions *)
(* collect the session as soon as rxLoop has ended.                        *)
ReadEnd ==
  /\ srv.known
  /\ ~ended
  /\ ended' = TRUE
  /\ srv' = [srv EXCEPT !.tx = RequestClose(@)]
  /\ UNCHANGED <<supplied, orphans, polls, client, history>>

(* The session leaves the tables; what it still had to send goes with it.  *)
Forget(s) == [s EXCEPT !.known = FALSE, !.tx = NewTx(FALSE), !.peerFin = FALSE]

(* gcIdleSessions: ten minutes without a frame in either direction. *)
IdleGc ==
  /\ srv.known
  /\ srv' = Forget(srv)
  /\ lost' = TRUE
  /\ UNCHANGED <<supplied, ended, orphans, polls, client, faults>>

---------------------------------------------------------------------------
(* The exit server: handleTunnel.                                          *)

(* routeIncoming: any frame of a session the server does not know is       *)
(* answered with RST.  The FIN ends the receiving half, unless data before *)
(* it was lost: then it waits in the receive queue for good.               *)
RouteIncoming(s, up) ==
  {[s EXCEPT !.rst = @ \/ (up # "none" /\ ~s.known), !.peerFin = @ \/ fin] :
     fin \in {FALSE, up = "fin" /\ s.known}}

Pending(s) == s.rst \/ (s.known /\ HasPendingTx(s.tx))

(* drainAll: the RST, then at most n frames of the session. *)
Drained(s, n) ==
  LET d == DrainTx(s.tx, MaxPayload, n)
  IN  [frames |-> (IF s.rst THEN <<Rst>> ELSE <<>>)
                    \o (IF s.known THEN d.frames ELSE <<>>),
       srv    |-> [s EXCEPT !.rst = FALSE, !.tx = IF s.known THEN d.sess ELSE @]]

(* gcDoneSessions after a reply with frames: once its FIN is sent, a       *)
(* session is done when rxLoop has ended, after the peer's FIN or the Stop *)
(* of the read pump, or when the FIN is old.                               *)
AfterReply(s) == IF s.known /\ s.tx.finSent THEN {s, Forget(s)} ELSE {s}

(* The handler drains, writes its reply and collects. *)
Answer(w) ==
  /\ polls[w].st = "held"
  /\ Pending(srv)
  /\ \E n \in 1..MaxFrames :
       LET d == Drained(srv, n)
       IN  /\ srv' \in AfterReply(d.srv)
           /\ polls' = [polls EXCEPT ![w] = [@ EXCEPT !.st = "reply", !.frames = d.frames]]
  /\ UNCHANGED <<supplied, ended, orphans, client, history>>

(* A handler drains although nobody will read its reply ... *)
OrphanAnswer ==
  /\ orphans > 0
  /\ Pending(srv)
  /\ \E n \in 1..MaxFrames : srv' \in AfterReply(Drained(srv, n).srv)
  /\ orphans' = orphans - 1
  /\ lost' = TRUE
  /\ UNCHANGED <<supplied, ended, polls, client, faults>>

(* ... or ends with its request's context, or empty at its deadline. *)
OrphanEnds ==
  /\ orphans > 0
  /\ orphans' = orphans - 1
  /\ UNCHANGED <<srv, supplied, ended, polls, client, history>>

---------------------------------------------------------------------------
(* The client: pollOnce.                                                   *)

(* The session's frames are in one batch at a time (inFlight).  A batch of *)
(* data is not followed any further.                                       *)
InFlight == \E w \in Workers : polls[w] # NoPoll /\ polls[w].fin

FinWaiting == cl.closeReq /\ ~cl.finSent

(* What drainAll finds of the session: the FIN, or what the application    *)
(* has written, and nothing once it has left the table.                    *)
Batches ==
  IF InFlight \/ ~cl.registered THEN {"none"}
  ELSE IF FinWaiting THEN {"fin"}
  ELSE IF cl.closeReq THEN {"none"} ELSE {"none", "data"}

(* A worker polls, for this session or, when it has left the table, for    *)
(* others of the client (which matters while the server has it), and its   *)
(* request arrives.  (One that does not, and that the client knows has     *)
(* not, is rolled back and leaves nothing behind.)                         *)
Poll(w) ==
  /\ polls[w] = NoPoll
  /\ cl.registered \/ srv.known
  /\ \E up \in Batches :
       /\ srv' \in RouteIncoming(srv, up)
       /\ polls' = [polls EXCEPT ![w] = [st |-> "held", fin |-> up = "fin", frames |-> <<>>]]
       /\ cl' = [cl EXCEPT !.finSent = @ \/ up = "fin"]
  /\ UNCHANGED <<supplied, ended, orphans, conn, got, reader, history>>

(* Mutation of IsDone: the peer's FIN is waited for without a limit. *)
IsDone_NeedsPeer(c) == c.finSent /\ c.rx.rxClosed

IsDone(c) == c.finSent /\ (c.rx.rxClosed \/ c.finOld)

(* gcDoneSessions after every poll: the session is stopped and leaves. *)
Gc(c) ==
  IF c.registered /\ IsDone(c)
  THEN [c EXCEPT !.stopped = TRUE, !.registered = FALSE] ELSE c

RollbackFin(c) == [c EXCEPT !.finSent = FALSE, !.finOld = FALSE]

(* rollbackDrained gives the FIN of a failed poll back, unless the session *)
(* has left the table.                                                     *)
Rollback(c, fin) == IF fin /\ c.registered THEN RollbackFin(c) ELSE c

Failed(w) ==
  /\ faults < MaxFaults
  /\ faults' = faults + 1
  /\ polls' = [polls EXCEPT ![w] = NoPoll]

(* Timeout, broken answer, error page: the batch is rolled back although   *)
(* the server has had it.  A handler that is still waiting goes on.        *)
GiveUp(w) ==
  /\ polls[w].st \in {"held", "reply"}
  /\ Failed(w)
  /\ orphans' = orphans + (IF polls[w].st = "held" THEN 1 ELSE 0)
  /\ lost' = (lost \/ polls[w].frames # <<>>)
  /\ cl' = Gc(Rollback(cl, polls[w].fin))
  /\ UNCHANGED <<srv, supplied, ended, conn, got, reader>>

(* A 200 that does not decode commits the batch.                           *)
Undecodable(w) ==
  /\ polls[w].st = "reply"
  /\ Failed(w)
  /\ lost' = (lost \/ polls[w].frames # <<>>)
  /\ cl' = Gc(cl)
  /\ UNCHANGED <<server, conn, got, reader>>

(* The forwarder answers in plain text, with a 200, when it could not      *)
(* reach the server: that commits a batch that never arrived.              *)
CommitUnsent(w) ==
  /\ polls[w] = NoPoll
  /\ "fin" \in Batches
  /\ Failed(w)
  /\ cl' = Gc([cl EXCEPT !.finSent = TRUE])
  /\ UNCHANGED <<server, conn, got, reader, lost>>

(* CloseRx, unless the FIN or an earlier call has closed RxChan: nobody    *)
(* looks at parked or waiting frames after that.                           *)
CloseRx(c) == [c EXCEPT !.rx = [NewRx EXCEPT !.rxClosed = TRUE], !.inbox = <<>>]

Torn(k) == [k EXCEPT !.end = IF @ = "open" THEN "torn" ELSE @]

(* routeRx for one frame of a reply: unknown session, RST, ProcessRx. *)
RouteRx(w) ==
  LET f == Head(polls[w].frames)
  IN  /\ polls[w].st = "reply"
      /\ polls[w].frames # <<>>
      /\ polls' = [polls EXCEPT ![w].frames = Tail(@)]
      /\ \/ /\ ~cl.registered
            /\ UNCHANGED <<cl, conn>>
         \/ /\ cl.registered /\ f = Rst
            /\ cl' = [CloseRx(cl) EXCEPT !.closeReq = TRUE, !.registered = FALSE,
                                         !.stopped = TRUE]
            /\ conn' = Torn(conn)
         \/ /\ cl.registered /\ f # Rst
            /\ cl' = IF cl.rx.rxClosed THEN cl ELSE [cl EXCEPT !.inbox = Append(@, f)]
            /\ UNCHANGED conn
      /\ UNCHANGED <<server, got, reader, history>>

(* The reply is routed: the batch is committed. *)
PollDone(w) ==
  /\ polls[w].st = "reply"
  /\ polls[w].frames = <<>>
  /\ polls' = [polls EXCEPT ![w] = NoPoll]
  /\ cl' = Gc(cl)
  /\ UNCHANGED <<server, conn, got, reader, history>>

(* The long-poll deadline: an empty batch, or no body at all, commits too. *)
EmptyAnswer(w) ==
  /\ polls[w].st = "held"
  /\ ~Pending(srv)
  /\ polls' = [polls EXCEPT ![w] = NoPoll]
  /\ cl' = Gc(cl)
  /\ UNCHANGED <<server, conn, got, reader, history>>

(* sessionFinalTimeout after the FIN was sent. *)
FinAges ==
  /\ cl.finSent
  /\ ~cl.finOld
  /\ cl' = [cl EXCEPT !.finOld = TRUE]
  /\ UNCHANGED <<server, polls, conn, got, reader, history>>

---------------------------------------------------------------------------
(* The client's session and the SOCKS connection.                          *)

(* One turn of rxLoop. *)
RxLoop ==
  /\ cl.inbox # <<>>
  /\ LET d == DeliverRx(cl.rx, Head(cl.inbox))
     IN  /\ cl' = IF d.closing THEN [CloseRx(cl) EXCEPT !.stopped = TRUE]
                 ELSE [cl EXCEPT !.rx = d.rx, !.inbox = Tail(@)]
         /\ conn' = [conn EXCEPT !.chan = @ \o d.out,
                                 !.end = IF d.closing THEN "fin" ELSE @]
  /\ UNCHANGED <<server, polls, got, reader, history>>

(* rxLoop sees rxDone. *)
RxLoopEnds ==
  /\ cl.stopped
  /\ ~cl.rx.rxClosed
  /\ cl' = CloseRx(cl)
  /\ conn' = Torn(conn)
  /\ UNCHANGED <<server, polls, got, reader, history>>

(* Mutation of Take: what does not fit is dropped. *)
Take_DropRest(data) ==
  /\ got' = got \o SubSeq(data, 1, Least(ReadSize, Len(data)))
  /\ conn' = [conn EXCEPT !.readBuf = <<>>, !.chan = Tail(@)]

(* VirtualConn.Read with data: what does not fit stays in readBuf. *)
Take(data) ==
  /\ got' = got \o SubSeq(data, 1, Least(ReadSize, Len(data)))
  /\ conn' = [conn EXCEPT !.readBuf = SubSeq(data, ReadSize + 1, Len(data)),
                          !.chan = IF conn.readBuf = <<>> THEN Tail(@) ELSE @]

Read ==
  /\ reader = "reading"
  /\ \/ conn.readBuf # <<>> /\ Take(conn.readBuf)
     \/ conn.readBuf = <<>> /\ conn.chan # <<>> /\ Take(Head(conn.chan))
  /\ UNCHANGED <<server, polls, cl, reader, history>>

(* Read on the closed channel returns io.EOF; the SOCKS server then closes *)
(* the connection.                                                         *)
ReadEof ==
  /\ reader = "reading"
  /\ conn.readBuf = <<>> /\ conn.chan = <<>> /\ conn.end # "open"
  /\ reader' = "eof"
  /\ cl' = [cl EXCEPT !.closeReq = TRUE]
  /\ UNCHANGED <<server, polls, conn, got, history>>

(* Mutation of IdleTimeout: the error is returned without Close. *)
IdleTimeout_NoClose ==
  /\ reader = "reading"
  /\ conn.readBuf = <<>>
  /\ reader' = "timeout"
  /\ UNCHANGED <<server, polls, cl, conn, got, history>>

(* The idle timeout, checked before RxChan is looked at and again while    *)
(* Read waits on it: Close, and an error.                                  *)
IdleTimeout ==
  /\ reader = "reading"
  /\ conn.readBuf = <<>>
  /\ reader' = "timeout"
  /\ cl' = [cl EXCEPT !.closeReq = TRUE]
  /\ UNCHANGED <<server, polls, conn, got, history>>

(* VirtualConn.Close while Read waits: the application has gone. *)
Abort ==
  /\ ~cl.closeReq
  /\ cl' = [cl EXCEPT !.closeReq = TRUE]
  /\ UNCHANGED <<server, polls, conn, got, reader, history>>

---------------------------------------------------------------------------
(* The exit server's process is replaced: sessions, queued answers and     *)
(* handlers are gone, and the polls they held fail.                        *)
Restart ==
  /\ faults < MaxFaults
  /\ faults' = faults + 1
  /\ srv' = [Forget(srv) EXCEPT !.rst = FALSE]
  /\ orphans' = 0
  /\ lost' = TRUE
  /\ LET held == {w \in Workers : polls[w].st = "held"}
         fin  == \E w \in held : polls[w].fin
     IN  /\ polls' = [w \in Workers |-> IF w \in held THEN NoPoll ELSE polls[w]]
         /\ cl' = IF held = {} THEN cl ELSE Gc(Rollback(cl, fin))
  /\ UNCHANGED <<supplied, ended, conn, got, reader>>

---------------------------------------------------------------------------
(* One round of a worker and of the handler that serves it. *)
Round(w) ==
  Poll(w) \/ Answer(w) \/ EmptyAnswer(w) \/ RouteRx(w) \/ PollDone(w)

Fault(w) == GiveUp(w) \/ Undecodable(w) \/ CommitUnsent(w)

Next ==
  \/ \E w \in Workers : Round(w) \/ Fault(w)
  \/ ReadData \/ ReadEnd \/ IdleGc
  \/ OrphanAnswer \/ OrphanEnds
  \/ FinAges \/ RxLoop \/ RxLoopEnds \/ Read \/ ReadEof \/ IdleTimeout \/ Abort
  \/ Restart

Spec == Init /\ [][Next]_vars

(* The server has nothing of the session left to send. *)
AllSent == srv.tx.txBuf = <<>> /\ ~FinPending(srv.tx)

(* Nothing the reader waits for is on its way: the 30 s of the idle        *)
(* timeout are long against a poll.                                        *)
Quiet ==
  /\ AllSent
  /\ \A w \in Workers : polls[w] # NoPoll => polls[w].frames = <<>>
  /\ cl.inbox = <<>>
  /\ conn.chan = <<>>

(* Workers poll while the session is in the table, handlers answer and     *)
(* goroutines with work do it; timers run out when nothing happens.  The   *)
(* upstream may be silent for ever, and the client may keep an idle        *)
(* connection open for as long as it likes; nobody promises polls for a    *)
(* session that has left the table, and nobody excludes them.              *)
(*                                                                         *)
(* Every drain that finds frames sets lastActivity: the idle time runs     *)
(* while it has nothing to send, or no handler whose client waits.         *)
NoHandler == \A w \in Workers : polls[w].st # "held"

FairRound(w) ==
  \/ cl.registered /\ Poll(w)
  \/ Answer(w) \/ EmptyAnswer(w) \/ RouteRx(w) \/ PollDone(w)

Fairness ==
  /\ \A w \in Workers : WF_vars(FairRound(w))
  /\ WF_vars(srv.peerFin /\ ReadEnd)
  /\ WF_vars(RxLoop \/ RxLoopEnds)
  /\ WF_vars(Read \/ ReadEof)
  /\ WF_vars(FinAges)
  /\ WF_vars(Quiet /\ IdleTimeout)
  /\ WF_vars(cl.closeReq /\ (AllSent \/ NoHandler) /\ IdleGc)

FairSpec == Spec /\ Fairness

---------------------------------------------------------------------------
(* Sessions, polls and the connection stay well formed; a session that has *)
(* left the client's table is stopped, and a reader that has gone closed.  *)
TypeOK ==
  /\ srv.known \in BOOLEAN /\ srv.rst \in BOOLEAN /\ srv.peerFin \in BOOLEAN
  /\ supplied \in Seq(1..MaxBytes) /\ got \in Seq(1..MaxBytes)
  /\ Len(srv.tx.txBuf) <= HighWater + 1
  /\ orphans \in 0..MaxFaults
  /\ \A w \in Workers : polls[w] # NoPoll =>
       polls[w].st \in {"held", "reply"} /\ polls[w].fin \in BOOLEAN
  /\ cl.registered \/ cl.stopped
  /\ reader # "reading" => cl.closeReq
  /\ conn.end \in {"open", "fin", "torn"}
  /\ reader \in {"reading", "eof", "timeout"}

(* Whatever replies are lost or overtake one another, what Read returns is *)
(* what the upstream sent, in order and without a gap, and an end of file  *)
(* that a FIN caused comes after the last byte.  (An end of file after a   *)
(* reset or a local close promises nothing: Read cannot tell them apart.)  *)
Stream == INSTANCE ByteStream WITH
  sent <- supplied, closed <- ended, rcvd <- got, eof <- reader = "eof" /\ conn.end = "fin"

ImplementsByteStream == Stream!Spec

(* Every byte the upstream sends and its end reach the reader, unless a    *)
(* reply was lost, the server forgot the session or the reader has gone:   *)
(* partial drains and two handlers draining in turn lose nothing.          *)
Gone == lost \/ reader # "reading"

EverythingArrives == []<>(Gone \/ (got = supplied /\ ~ended))

(* Once the upstream has ended, the application has left or the server has *)
(* forgotten the session, both ends come to let go of it: the reader is    *)
(* released and neither table keeps the session, whichever FIN or RST was  *)
(* lost and even if the server restarts in between.  (The upstream of the  *)
(* model sends MaxBytes bytes.  One that never stops keeps the session of  *)
(* a client that has forgotten it, as long as that client polls for        *)
(* others: each drain sets lastActivity, and routeRx drops the frames.)    *)
BothEndsRelease ==
  (ended \/ cl.closeReq \/ ~srv.known) ~>
    (reader # "reading" /\ ~cl.registered /\ ~srv.known)
=============================================================================
