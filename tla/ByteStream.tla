----------------------------- MODULE ByteStream ------------------------------
(***************************************************************************)
(* What one direction of a tunneled connection promises its two ends: the  *)
(* receiver reads the bytes the sender wrote, in order, none twice and     *)
(* none missing, and sees end of file only after the last of them.         *)
(***************************************************************************)
EXTENDS Integers, Sequences

VARIABLES sent,     \* the bytes accepted from the writer so far
          closed,   \* the writer has asked for the end of the stream
          rcvd,     \* the bytes handed to the reader so far
          eof       \* the reader has seen the end of the stream

vars == <<sent, closed, rcvd, eof>>

Init ==
  /\ sent = <<>>
  /\ rcvd = <<>>
  /\ closed = FALSE
  /\ eof = FALSE

(* The writer appends bytes.  A write that races a close may still be taken *)
(* as long as the reader has not seen the end.                             *)
Write ==
  /\ ~eof
  /\ Len(sent') > Len(sent)
  /\ SubSeq(sent', 1, Len(sent)) = sent
  /\ UNCHANGED <<closed, rcvd, eof>>

Close ==
  /\ closed' = TRUE
  /\ UNCHANGED <<sent, rcvd, eof>>

(* The reader is handed the next bytes, the end of the stream, or both. *)
Deliver ==
  /\ ~eof
  /\ Len(rcvd') >= Len(rcvd)
  /\ Len(rcvd') <= Len(sent)
  /\ rcvd' = SubSeq(sent, 1, Len(rcvd'))
  /\ eof' \in BOOLEAN
  /\ eof' => closed /\ rcvd' = sent
  /\ UNCHANGED <<sent, closed>>

Next == Write \/ Close \/ Deliver

Spec == Init /\ [][Next]_vars
=============================================================================
