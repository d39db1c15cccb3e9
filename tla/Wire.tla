-------------------------------- MODULE Wire --------------------------------
(***************************************************************************)
(* The wire format: frame/frame.go and frame/crypto.go.                    *)
(*                                                                         *)
(* One end packs frames into a batch (EncodeBatch), the relay carries the  *)
(* body, the other end unpacks it (DecodeBatch).  The byte layout is kept  *)
(* - the order of the fields, the width of every length, the checks at     *)
(* every offset - over digits 0 .. Base-1 instead of 0 .. 255, and with    *)
(* narrower fields: session id, sequence number, flags, target length and  *)
(* frame count take one digit each, the lengths of payload and frame       *)
(* LenWidth digits.  int is wider than these lengths, or, on a 32-bit      *)
(* build, exactly as wide, with half of its values negative.  What is      *)
(* external is a symbol: AES-GCM accepts exactly what                      *)
(* was sealed under the shared key, zstd and DEFLATE give back what they   *)
(* were given and either shrink it or not, base64 (with or without         *)
(* padding) is undone by its decoder.                                      *)
(***************************************************************************)
EXTENDS Integers, Sequences, SequencesExt

CONSTANTS
  Base,         \* how many values a byte has
  MaxPayload,   \* maxPayloadSize: a cap below what the length field can hold
  CompressMin,  \* compressMinSize
  Clients,      \* client identifiers
  Batches,      \* the frame sequences the two ends try to send
  MaxData       \* bound on the plaintexts of other peers

Byte == 0 .. Base - 1
MaxTarget == Base - 1           \* maxTargetLen = 255: all a uint8 can hold
MaxFrames == Base - 1           \* 0xFFFF: all a uint16 can hold

ASSUME WireAssumption ==
  /\ Base \in Nat \ {0, 1}
  /\ MaxPayload \in Byte /\ CompressMin \in Nat /\ MaxData \in Nat
  /\ Clients \subseteq Byte

VARIABLES
  wide,    \* whether the receiving build has 64-bit integers
  sent,    \* what the last successful EncodeBatch was given, or Nothing
  body,    \* the HTTP body under way
  got      \* what DecodeBatch returned

vars == <<wide, sent, body, got>>

Nothing == [kind |-> "nothing"]
Empty == [kind |-> "empty"]           \* a body of length 0
Page == [kind |-> "page"]             \* text that is not base64
Rejected == [kind |-> "rejected"]
Panicked == [kind |-> "panicked"]     \* a slice with its end before its start
Batch(c, fs) == [kind |-> "batch", client |-> c, frames |-> fs]
Sealed(flag, plain) == [kind |-> "sealed", flag |-> flag, plain |-> plain, intact |-> TRUE]

ZeroId == 0

-----------------------------------------------------------------------------
(* Numbers: big endian, each digit truncated to a byte as byte(n>>8) is.   *)

BE(n, width) == [i \in 1 .. width |-> (n \div Base ^ (width - i)) % Base]
Num(digits) == FoldLeft(LAMBDA n, d : n * Base + d, 0, digits)

HeaderLen == 4       \* session id, seq, flags, target length
LenWidth == 4        \* payload length, and length prefix of a frame in a batch

\* An int as the receiving build keeps it: two's complement on 32 bits.
AsInt(n) ==
  LET range == Base ^ LenWidth
  IN  IF wide THEN n ELSE ((n + range \div 2) % range) - (range \div 2)

-----------------------------------------------------------------------------
(* frame.go.                                                               *)

EncodedLen(f) == HeaderLen + Len(f.target) + LenWidth + Len(f.payload)

Encodable(f) == Len(f.target) <= MaxTarget /\ Len(f.payload) <= MaxPayload

AppendMarshal(f) ==
  <<f.sid, f.seq, f.flags>> \o BE(Len(f.target), 1) \o f.target
    \o BE(Len(f.payload), LenWidth) \o f.payload

\* Where the payload length and the payload of a marshalled frame stand.
LenAt(data) == HeaderLen + data[HeaderLen]
PayloadAt(data) == LenAt(data) + LenWidth
PayloadLen(data) == Num(SubSeq(data, LenAt(data) + 1, PayloadAt(data)))
PLen(data) == AsInt(PayloadLen(data))

\* Mutation of Parses: the last check is off by one.
Parses_OffByOne(data) ==
  /\ Len(data) >= HeaderLen + LenWidth
  /\ Len(data) >= LenAt(data) + LenWidth
  /\ PLen(data) <= MaxPayload
  /\ Len(data) > PayloadAt(data) + PLen(data)

\* The checks of Unmarshal, in its order: each one makes the next read safe.
Parses(data) ==
  /\ Len(data) >= HeaderLen + LenWidth
  /\ Len(data) >= LenAt(data) + LenWidth
  /\ PLen(data) <= MaxPayload
  /\ Len(data) >= PayloadAt(data) + PLen(data)

Consumed(data) == PayloadAt(data) + PLen(data)

Unmarshal(data) ==
  [sid |-> data[1], seq |-> data[2], flags |-> data[3],
   target |-> SubSeq(data, HeaderLen + 1, LenAt(data)),
   payload |-> SubSeq(data, PayloadAt(data) + 1, Consumed(data))]

-----------------------------------------------------------------------------
(* crypto.go.                                                              *)

Slot(f) == BE(EncodedLen(f), LenWidth) \o AppendMarshal(f)

Plain(c, fs) == <<c>> \o BE(Len(fs), 1) \o FlattenSeq([i \in DOMAIN fs |-> Slot(fs[i])])

\* Mutant of CanEncode: the frame count wraps around in its field.
CanEncode_NoCount(fs) == \A i \in DOMAIN fs : Encodable(fs[i])

CanEncode(fs) == Len(fs) <= MaxFrames /\ \A i \in DOMAIN fs : Encodable(fs[i])

\* One round of DecodeBatch's loop over a plaintext, from acc.off.
NextFrame(plain, acc) ==
  LET start == acc.off + LenWidth
      end   == AsInt(start + AsInt(Num(SubSeq(plain, acc.off + 1, start))))
      slot  == SubSeq(plain, start + 1, end)
  IN  CASE acc.result # "ok" -> acc
        [] Len(plain) < start -> [acc EXCEPT !.result = "rejected"]
        [] Len(plain) < end -> [acc EXCEPT !.result = "rejected"]
        [] end < start -> [acc EXCEPT !.result = "panicked"]
        [] ~Parses(slot) -> [acc EXCEPT !.result = "rejected"]
        [] OTHER -> [acc EXCEPT !.off = end, !.frames = Append(@, Unmarshal(slot))]

DecodePlain(plain) ==
  IF Len(plain) < 2 THEN Rejected
  ELSE LET end == FoldLeft(LAMBDA acc, i : NextFrame(plain, acc),
                           [result |-> "ok", off |-> 2, frames |-> <<>>],
                           [i \in 1 .. plain[2] |-> i])
       IN CASE end.result = "ok" -> Batch(plain[1], end.frames)
            [] end.result = "rejected" -> Rejected
            [] end.result = "panicked" -> Panicked

\* Open fails on anything not sealed as it stands; an unknown flag is refused.
DecodeBatch(b) ==
  CASE b.kind = "empty" -> Batch(ZeroId, <<>>)
    [] b.kind = "page" -> Rejected
    [] b.kind = "sealed" -> IF b.intact /\ b.flag \in {"raw", "flate", "zstd"}
                            THEN DecodePlain(b.plain) ELSE Rejected

-----------------------------------------------------------------------------
Init == wide \in BOOLEAN /\ sent = Nothing /\ body = Nothing /\ got = Nothing

\* EncodeBatch; whether zstd shrinks a batch depends on its bytes.
EncodeBatch(c, fs) ==
  /\ body = Nothing
  /\ CanEncode(fs)
  /\ sent' = Batch(c, fs)
  /\ \E flag \in {"raw"} \cup (IF Len(Plain(c, fs)) >= CompressMin THEN {"zstd"} ELSE {}) :
       body' = Sealed(flag, Plain(c, fs))
  /\ UNCHANGED <<wide, got>>

\* A batch of one slot, of the given length, that ends in rest; the first
\* three fields of a frame are copied as they are.
OneSlot(rest, length) ==
  <<ZeroId, 1>> \o BE(length, LenWidth) \o <<0, 0, 0>> \o rest

\* A peer with the key but of another version seals a plaintext of its own:
\* any bytes, any bytes after a frame count, or any frame from its target
\* length on, whole or cut off within it.
OtherPeer(rest) ==
  /\ body = Nothing
  /\ \E flag \in {"raw", "flate", "unknown"},
        plain \in {rest, <<ZeroId, 1>> \o rest}
                    \cup {OneSlot(rest, 3 + Len(rest) + k) : k \in 0 .. 1} :
       body' = Sealed(flag, plain)
  /\ UNCHANGED <<wide, sent, got>>

\* The relay loses the body, replaces it by an error page, or alters it.
Lose == /\ body.kind = "sealed" /\ got = Nothing
        /\ body' = Empty
        /\ UNCHANGED <<wide, sent, got>>

Replace == /\ body.kind = "sealed" /\ got = Nothing
           /\ body' = Page
           /\ UNCHANGED <<wide, sent, got>>

Alter == /\ body.kind = "sealed" /\ got = Nothing
         /\ body' = [body EXCEPT !.intact = FALSE]
         /\ UNCHANGED <<wide, sent, got>>

Receive == /\ body # Nothing /\ got = Nothing
           /\ got' = DecodeBatch(body)
           /\ UNCHANGED <<wide, sent, body>>

Done == /\ got # Nothing
        /\ sent' = Nothing /\ body' = Nothing /\ got' = Nothing
        /\ UNCHANGED wide

Data == UNION {[1 .. n -> Byte] : n \in 0 .. MaxData}

Next == \/ \E c \in Clients, fs \in Batches : EncodeBatch(c, fs)
        \/ \E rest \in Data : OtherPeer(rest)
        \/ Lose \/ Replace \/ Alter
        \/ Receive \/ Done

Spec == Init /\ [][Next]_vars

-----------------------------------------------------------------------------
\* EncodeBatch and DecodeBatch are inverse up to every limit: an untouched
\* batch arrives as it was - client, frames, their order and every field, no
\* count or length wrapped around, on builds of either width - and of one the
\* relay lost, replaced or altered no frame arrives at all.
RoundTrip ==
  sent # Nothing /\ got # Nothing =>
    IF body.kind = "sealed" /\ body.intact THEN got = sent
    ELSE got \in {Rejected, Batch(ZeroId, <<>>)}

\* The strings that are a frame with the first three fields of data,
\* followed by anything: the reference for Unmarshal.
ReferenceFrames(data) ==
  {f \in {[sid |-> data[1], seq |-> data[2], flags |-> data[3], target |-> t, payload |-> p] :
            t \in UNION {[1 .. n -> Byte] : n \in 0 .. MaxTarget},
            p \in UNION {[1 .. n -> Byte] : n \in 0 .. MaxPayload}} :
     IsPrefix(AppendMarshal(f), data)}

\* What Unmarshal is given of a plaintext with one frame.
SlotOf(plain) == SubSeq(plain, 2 + LenWidth + 1, Len(plain))

\* Unmarshal accepts a string exactly when some frame marshals to a prefix
\* of it, returns that frame, and says how long it was: its offset checks
\* refuse nothing that is a frame and never misread what is not.  On a
\* 32-bit build this is so as long as the length field is one that an int
\* can hold.
UnmarshalIsExact ==
  body.kind = "sealed" /\ body.flag = "raw" /\ got = Nothing =>
    LET data == SlotOf(body.plain)
    IN Len(data) >= 3 /\ (Parses(data) => PLen(data) >= 0) =>
         /\ ReferenceFrames(data) = IF Parses(data) THEN {Unmarshal(data)} ELSE {}
         /\ Parses(data) => Consumed(data) = EncodedLen(Unmarshal(data))

\* The "10MB sanity cap" of frame.go:22: no frame is accepted whose length
\* field announces a payload beyond it.  On a 32-bit build a length of half
\* the field's range or more is negative, and passes both checks.
PayloadIsCapped ==
  got.kind = "batch" /\ got.frames # <<>> /\ sent = Nothing =>
    PayloadLen(SlotOf(body.plain)) <= MaxPayload
=============================================================================
