------------------------------- MODULE Uplink --------------------------------
(***************************************************************************)
(* The upstream direction of one session, end to end: the application's    *)
(* writes (socks.VirtualConn), the client session's transactional drain,   *)
(* carrier.Client.pollOnce with its failover attempt and its rollback, the *)
(* requests in transit, and the exit server's routing and reassembly.      *)
(*                                                                         *)
(* One session has at most one batch in flight (Client.inFlight, see       *)
(* module Carrier), so one batch suffices.  The transport is external: a   *)
(* request may be dropped, be given up by the client while it is still     *)
(* under way or already processed, or be taken for delivered although only *)
(* the relay has answered (Faults).  What the client does with an RST is   *)
(* left to module Downlink.                                                *)
(*                                                                         *)
(* Two handlers may dial for the same SYN, so the session may have several *)
(* upstream connections.  The module follows one of them, whichever the    *)
(* behaviour chooses; known, inbox, rx, upstream and eof belong to it.     *)
(***************************************************************************)
EXTENDS Session, SequencesExt, FiniteSets

CONSTANTS
  MaxPayload,    \* bytes per frame (MaxFramePayload)
  MaxFrames,     \* frames one session may put in a batch
  MaxAttempts,   \* POSTs per poll: 2 when several endpoints are configured
  Premise,       \* rollbackDrained's: the batch of a failed poll never arrives
  HighWater,     \* TxBufHighWater
  Faults,        \* what the transport may do: a subset of
                 \*   {"drop", "late", "blind"}
  MaxBytes,      \* bound: bytes the application writes
  MaxWrite,      \* bound: bytes per write
  MaxFaults      \* bound: faults of the transport

ASSUME UplinkAssumption ==
  /\ {MaxPayload, MaxFrames, MaxAttempts, MaxWrite} \subseteq Nat \ {0}
  /\ {HighWater, MaxBytes, MaxFaults} \subseteq Nat
  /\ Faults \subseteq {"drop", "late", "blind"}
  /\ Premise \in BOOLEAN

VARIABLES
  tx,        \* transmit half of the client's session
  written,   \* history: bytes taken into txBuf by the application's writes
  poll,      \* the worker that carries this session's batch
  late,      \* requests the client has given up that may still arrive
  dials,     \* such requests whose handler is dialing the target
  known,     \* the connection that is followed has been opened
  elsewhere, \* the server's table holds another connection instead
  inbox,     \* rxInbox of the exit server's session
  rx,        \* receive half of the exit server's session
  upstream,  \* bytes written to the upstream connection
  eof,       \* the upstream connection has been closed after them
  reset,     \* the server answered a frame with RST
  mishap,    \* what may have cost the stream its bytes: a blind commit, a
             \*   refused dial, another connection of the same session
  faults     \* transport faults so far

clientVars == <<tx, written>>
astrayVars == <<late, dials>>
serverVars == <<known, elsewhere, inbox, rx, upstream, eof, reset>>

vars == <<clientVars, poll, astrayVars, serverVars, mishap, faults>>

Idle == [st |-> "idle"]

(* What pollOnce holds: frames, snapshot, attempt; whether the current     *)
(* request has been processed by the server, and whether the server may    *)
(* see the batch through an attempt that was given up.                     *)
Frames == [seq : Nat, syn : BOOLEAN, fin : BOOLEAN, payload : Seq(Nat)]

Polls == [st : {"ready", "posted", "dialing", "failed"}, attempt : 1..MaxAttempts,
          handled : BOOLEAN, leaked : BOOLEAN, frames : Seq(Frames),
          snap : [txBuf : Seq(Nat), txSeq : Nat, synNeeded : BOOLEAN,
                  closeReq : BOOLEAN, finSent : BOOLEAN]]

Init ==
  /\ tx = NewTx(TRUE)
  /\ written = <<>>
  /\ poll = Idle
  /\ late = {}
  /\ dials = {}
  /\ known = FALSE
  /\ elsewhere = FALSE
  /\ inbox = <<>>
  /\ rx = NewRx
  /\ upstream = <<>>
  /\ eof = FALSE
  /\ reset = FALSE
  /\ mishap = {}
  /\ faults = 0

---------------------------------------------------------------------------
(* The application side.                                                   *)

(* VirtualConn.Write: bytes are numbered in the order they are written.    *)
Write(n) ==
  LET data == [i \in 1..n |-> Len(written) + i]
      s    == EnqueueInitialData(tx, data)
  IN  /\ Len(written) + n <= MaxBytes
      /\ tx.synNeeded \/ ~TxBlocked(tx, HighWater)
      /\ tx' = s
      /\ written' = IF s = tx THEN written ELSE written \o data
      /\ UNCHANGED <<poll, astrayVars, serverVars, mishap, faults>>

(* VirtualConn.Close *)
CloseWrite ==
  /\ ~tx.closeReq
  /\ tx' = RequestClose(tx)
  /\ UNCHANGED <<written, poll, astrayVars, serverVars, mishap, faults>>

---------------------------------------------------------------------------
(* pollOnce.                                                               *)

(* drainAll and EncodeBatch: the frames leave the session.                 *)
Drain ==
  /\ poll = Idle
  /\ HasPendingTx(tx)
  /\ LET d == DrainTx(tx, MaxPayload, MaxFrames)
     IN  /\ tx' = d.sess
         /\ poll' = [st |-> "ready", attempt |-> 1, handled |-> FALSE,
                     leaked |-> FALSE, frames |-> d.frames, snap |-> d.snap]
  /\ UNCHANGED <<written, astrayVars, serverVars, mishap, faults>>

(* The same body is POSTed on every attempt. *)
Post ==
  /\ poll.st = "ready"
  /\ poll' = [poll EXCEPT !.st = "posted", !.handled = FALSE]
  /\ UNCHANGED <<clientVars, astrayVars, serverVars, mishap, faults>>

(* The server's answer, a batch or an empty body: the snapshots are        *)
(* discarded.                                                              *)
Commit ==
  /\ poll.st = "posted"
  /\ poll.handled
  /\ poll' = Idle
  /\ UNCHANGED <<clientVars, astrayVars, serverVars, mishap, faults>>

(* The attempt failed for the client: retry through another endpoint, or   *)
(* leave the loop with rollbackPending still set.                          *)
FailedPoll(leaked) ==
  IF poll.attempt < MaxAttempts
  THEN [poll EXCEPT !.st = "ready", !.attempt = @ + 1, !.leaked = leaked]
  ELSE [poll EXCEPT !.st = "failed", !.leaked = leaked]

(* Under Premise the last attempt fails only if no attempt leaks. *)
MayFail(fault, leaked) ==
  /\ fault \in Faults
  /\ faults < MaxFaults
  /\ Premise /\ poll.attempt = MaxAttempts => ~leaked

(* The request never reaches the server: transport error, HTTP error of    *)
(* the relay, or its HTML/JSON error page.                                 *)
DropRequest ==
  /\ poll.st = "posted"
  /\ ~poll.handled
  /\ MayFail("drop", poll.leaked)
  /\ poll' = FailedPoll(poll.leaked)
  /\ faults' = faults + 1
  /\ UNCHANGED <<clientVars, astrayVars, serverVars, mishap>>

(* A request nobody waits for: its handler goes on with what it was doing, *)
(* and one still on its way may arrive.                                    *)
Abandon ==
  /\ late'  = IF poll.st = "posted" /\ ~poll.handled THEN late \cup {poll.frames} ELSE late
  /\ dials' = IF poll.st = "dialing" THEN dials \cup {poll.frames} ELSE dials

(* The client gives the request up (timeout, broken response) although the *)
(* server has processed it or still will.                                  *)
GiveUp ==
  /\ poll.st \in {"posted", "dialing"}
  /\ MayFail("late", TRUE)
  /\ Abandon
  /\ poll' = FailedPoll(TRUE)
  /\ faults' = faults + 1
  /\ UNCHANGED <<clientVars, serverVars, mishap>>

(* The snapshots are discarded although the server has not answered: the   *)
(* relay's answer has an empty body, or on the last attempt is too large   *)
(* or a text that is no batch (the forwarder returns its own error text    *)
(* with status 200).  The request is lost, or is still under way.          *)
CommitBlind ==
  /\ poll.st \in {"posted", "dialing"}
  /\ ~poll.handled
  /\ "blind" \in Faults
  /\ faults < MaxFaults
  /\ Abandon \/ (poll.st = "posted" /\ UNCHANGED astrayVars)
  /\ poll' = Idle
  /\ mishap' = mishap \cup {"blind"}
  /\ faults' = faults + 1
  /\ UNCHANGED <<clientVars, serverVars>>

(* The deferred rollbackDrained and releaseInFlight of a failed poll. *)
Rollback ==
  /\ poll.st = "failed"
  /\ tx' = RollbackDrain(tx, poll.snap)
  /\ poll' = Idle
  /\ UNCHANGED <<written, astrayVars, serverVars, mishap, faults>>

---------------------------------------------------------------------------
(* The exit server.                                                        *)

(* The table's entry for the session, and whether it still takes frames    *)
(* for the connection that is followed.                                    *)
HasEntry  == known \/ elsewhere
Listening == known /\ ~elsewhere /\ ~rx.rxClosed

(* routeIncoming of frames that open nothing: they go to the rxInbox of    *)
(* the session, or are answered with RST when it is unknown.               *)
Route(frames) ==
  /\ inbox' = IF Listening THEN inbox \o frames ELSE inbox
  /\ reset' = (reset \/ (~HasEntry /\ frames # <<>>))

(* A request arrives whose SYN, if it has one, finds the session open, or  *)
(* is refused after a recent failure of its target (isDialSuppressed).     *)
Arrive(frames) ==
  /\ Route(frames)
  /\ IF HasEntry \/ ~frames[1].syn THEN UNCHANGED mishap
     ELSE mishap' = mishap \cup {"refused"}
  /\ UNCHANGED <<known, elsewhere>>

(* openSession dials, without a lock, for a SYN of an unknown session.     *)
Dials(frames) == ~HasEntry /\ frames[1].syn

(* The dial ends.  Its connection takes the table's entry, whatever the    *)
(* table holds by now, and the rest of the batch; it is the one followed,  *)
(* or another.                                                             *)
DialedHere(frames) ==
  /\ ~known
  /\ known' = TRUE
  /\ elsewhere' = FALSE
  /\ inbox' = frames
  /\ UNCHANGED <<reset, mishap>>

DialedElsewhere ==
  /\ elsewhere' = TRUE
  /\ mishap' = mishap \cup {"other"}
  /\ UNCHANGED <<known, inbox, reset>>

(* The dial fails: the SYN is dropped and the rest of the batch is routed. *)
DialFailed(frames) ==
  /\ Route(Tail(frames))
  /\ mishap' = mishap \cup {"refused"}
  /\ UNCHANGED <<known, elsewhere>>

EndDial(frames) == DialedHere(frames) \/ DialedElsewhere \/ DialFailed(frames)

HandleRequest ==
  /\ poll.st = "posted"
  /\ ~poll.handled
  /\ Arrive(poll.frames)
  /\ poll' = [poll EXCEPT !.handled = TRUE]
  /\ UNCHANGED <<clientVars, astrayVars, rx, upstream, eof, faults>>

DialForRequest ==
  /\ poll.st = "posted"
  /\ ~poll.handled
  /\ Dials(poll.frames)
  /\ poll' = [poll EXCEPT !.st = "dialing"]
  /\ UNCHANGED <<clientVars, astrayVars, serverVars, mishap, faults>>

EndDialForRequest ==
  /\ poll.st = "dialing"
  /\ EndDial(poll.frames)
  /\ poll' = [poll EXCEPT !.st = "posted", !.handled = TRUE]
  /\ UNCHANGED <<clientVars, astrayVars, rx, upstream, eof, faults>>

HandleLateRequest ==
  \E frames \in late :
    /\ Arrive(frames)
    /\ late' = late \ {frames}
    /\ UNCHANGED <<clientVars, poll, dials, rx, upstream, eof, faults>>

DialForLateRequest ==
  \E frames \in late :
    /\ Dials(frames)
    /\ late' = late \ {frames}
    /\ dials' = dials \cup {frames}
    /\ UNCHANGED <<clientVars, poll, serverVars, mishap, faults>>

EndDialForLateRequest ==
  \E frames \in dials :
    /\ EndDial(frames)
    /\ dials' = dials \ {frames}
    /\ UNCHANGED <<clientVars, poll, late, rx, upstream, eof, faults>>

(* One turn of the session's rxLoop: reassembly, and the write pump of     *)
(* openSession that writes the payloads upstream and closes the connection *)
(* when RxChan is closed.                                                  *)
RxLoop ==
  /\ inbox # <<>>
  /\ ~rx.rxClosed
  /\ LET d == DeliverRx(rx, Head(inbox))
     IN  /\ rx' = d.rx
         /\ upstream' = upstream \o FlattenSeq(d.out)
         /\ eof' = d.closing
  /\ inbox' = Tail(inbox)
  /\ UNCHANGED <<clientVars, poll, astrayVars, known, elsewhere, reset, mishap, faults>>

---------------------------------------------------------------------------
Next ==
  \/ \E n \in 1..MaxWrite : Write(n)
  \/ CloseWrite
  \/ Drain
  \/ Post
  \/ Commit
  \/ DropRequest
  \/ GiveUp
  \/ CommitBlind
  \/ Rollback
  \/ HandleRequest
  \/ DialForRequest
  \/ EndDialForRequest
  \/ HandleLateRequest
  \/ DialForLateRequest
  \/ EndDialForLateRequest
  \/ RxLoop

Spec == Init /\ [][Next]_vars

(* The poll workers keep polling, a request that is not lost is handled, a *)
(* dial ends (it has a time-out) and the server keeps answering; nothing   *)
(* is assumed of the application, of requests the client has given up, or  *)
(* of how a dial ends.                                                     *)
Fairness ==
  /\ WF_vars(Drain)
  /\ WF_vars(Post)
  /\ WF_vars(Commit)
  /\ WF_vars(Rollback)
  /\ WF_vars(HandleRequest \/ DialForRequest)
  /\ WF_vars(EndDialForRequest)
  /\ WF_vars(RxLoop)

FairSpec == Spec /\ Fairness

---------------------------------------------------------------------------
(* The poll, the request and both sessions stay well formed. *)
TypeOK ==
  /\ tx \in [txBuf : Seq(Nat), txSeq : Nat, synNeeded : BOOLEAN,
             closeReq : BOOLEAN, finSent : BOOLEAN]
  /\ written \in Seq(Nat)
  /\ poll = Idle \/ poll \in Polls
  /\ late \subseteq Seq(Frames) /\ dials \subseteq Seq(Frames)
  /\ known \in BOOLEAN /\ elsewhere \in BOOLEAN /\ eof \in BOOLEAN /\ reset \in BOOLEAN
  /\ inbox \in Seq(Frames)
  /\ rx.rxSeq \in Nat /\ rx.rxClosed \in BOOLEAN
  /\ upstream \in Seq(Nat)
  /\ mishap \subseteq {"blind", "refused", "other"}
  /\ faults \in 0..MaxFaults

(* What a connection is handed is what the application wrote, in order,    *)
(* each byte once and none left out, and it is closed only after the last  *)
(* one: the drain/POST/rollback/reassembly pipeline implements a byte      *)
(* stream, also when batches are committed blindly, dials fail and the     *)
(* session is opened more than once.                                       *)
Stream == INSTANCE ByteStream WITH
  sent <- written, closed <- tx.closeReq, rcvd <- upstream, eof <- eof

ImplementsByteStream == Stream!Spec

(* routeIncoming answers a live session with RST only after a mishap: the  *)
(* rollback puts the SYN back whatever attempt was lost, so a request the  *)
(* server may see before it knows the session begins with the SYN.         *)
SynComesFirst == reset => mishap # {}

(* Without a mishap, client and server agree on the next sequence number   *)
(* while no batch is in flight, counting what waits in rxInbox: a rollback *)
(* winds txSeq back to what the server expects, and what is committed has  *)
(* reached it.                                                             *)
SeqAgreement ==
  mishap = {} /\ poll = Idle =>
    tx.txSeq = Max({rx.rxSeq} \cup {inbox[i].seq + 1 : i \in DOMAIN inbox})


(* The comment of rollbackPending: the snapshots are discarded on "success *)
(* paths (batch delivered to the exit server, response received)".  So     *)
(* once no request is under way the server has got as far as the client's  *)
(* txSeq; a mere refusal of the dial is left out.                          *)
CommittedIsDelivered ==
  poll = Idle /\ late = {} /\ dials = {} /\ mishap \subseteq {"blind"} =>
    tx.txSeq <= Max({rx.rxSeq} \cup {inbox[i].seq + 1 : i \in DOMAIN inbox})

(* The comment of DrainTxLimitedTxn: rollback restores the unsent prefix   *)
(* and then keeps the new data after it.  So the drained payloads come     *)
(* back in front of what the buffer holds, each byte once.                 *)
RollbackRestoresPrefix ==
  [][Rollback => tx'.txBuf = FlattenSeq([i \in DOMAIN poll.frames |->
                                          poll.frames[i].payload]) \o tx.txBuf]_vars
=============================================================================
