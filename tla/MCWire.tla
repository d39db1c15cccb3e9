------------------------------- MODULE MCWire -------------------------------
(* Batches at the limits of the format, for a byte of three values.        *)
EXTENDS Wire

Frm(sid, seq, flags, target, payload) ==
  [sid |-> sid, seq |-> seq, flags |-> flags, target |-> target, payload |-> payload]

\* Empty, small and full frames, and one beyond each limit: a target and a
\* payload of one byte too many.
SomeFrames ==
  {Frm(1, 0, 1, <<2>>, <<>>), Frm(1, 1, 0, <<>>, <<0>>), Frm(2, 2, 2, <<1, 0>>, <<2>>),
   Frm(0, 0, 0, <<>>, <<>>), Frm(1, 0, 1, <<1, 1, 1>>, <<>>), Frm(1, 2, 0, <<>>, <<1, 2>>)}

\* From no frame to one frame more than the count can hold.
SomeBatches == UNION {[1 .. n -> SomeFrames] : n \in 0 .. 3}
=============================================================================
