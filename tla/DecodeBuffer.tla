---------------------------- MODULE DecodeBuffer ----------------------------
(***************************************************************************)
(* The internal buffer of RequestDecoder and ResponseDecoder               *)
(* (src/src/decoder/buffer.rs).  Bytes enter either by feed, which copies  *)
(* them, or through a write frame: mut_buf appends `len` zero bytes and    *)
(* hands them out, the caller's read fills some of them, advance_buf       *)
(* confirms that many and drops the rest.  `pending` is the length of the  *)
(* frame that is handed out.                                               *)
(*                                                                         *)
(* Every decoding operation asserts pending = 0 (debug_assert!); the       *)
(* assertion is the guard of Feed, FeedUnchecked and Drain here.           *)
(***************************************************************************)
EXTENDS Integers, Sequences

CONSTANTS
    Bytes,       \* the byte values a peer may send
    Zero,        \* the byte Vec::resize fills a frame with
    MaxBuffer,   \* DecoderLimits::max_buffer_size
    MaxFrame,    \* bound: longest delivery, frame and advance_buf argument
    MaxStream    \* bound: bytes confirmed over the life of the decoder

ASSUME BufferAssumption ==
    /\ Zero \in Bytes
    /\ MaxBuffer \in Nat
    /\ MaxFrame \in Nat
    /\ MaxStream \in Nat

VARIABLES
    buf,         \* Vec<u8>: confirmed bytes, then the frame
    pending,     \* length of the frame that is handed out
    unbounded,   \* the caller trusts its input and uses feed_unchecked
    stream,      \* history: every byte confirmed so far
    drained      \* history: how many of them the parser has taken

vars == <<buf, pending, unbounded, stream, drained>>

-----------------------------------------------------------------------------
\* The first n elements of s, and what follows them.
Prefix(s, n) == SubSeq(s, 1, n)
Suffix(s, n) == SubSeq(s, n + 1, Len(s))

\* n zero bytes.
Zeros(n) == [i \in 1..n |-> Zero]

\* Deliveries of one read, up to the bound.
Deliveries == UNION {[1..n -> Bytes] : n \in 1..MaxFrame}

\* The bytes a parser may look at: everything before the frame.
confirmed == Prefix(buf, Len(buf) - pending)

\* The room mut_buf has; max.saturating_sub(buf.len()) in the code.
available_buf == IF Len(buf) >= MaxBuffer THEN 0 ELSE MaxBuffer - Len(buf)

-----------------------------------------------------------------------------
Init ==
    /\ buf = << >> /\ pending = 0
    /\ unbounded \in BOOLEAN
    /\ stream = << >> /\ drained = 0

\* feed: the delivery is appended whole if it fits; otherwise BufferOverflow
\* and the buffer is left alone (a stuttering step).
Feed(data) ==
    /\ pending = 0
    /\ Len(buf) + Len(data) <= MaxBuffer
    /\ buf' = buf \o data
    /\ stream' = stream \o data
    /\ UNCHANGED <<pending, unbounded, drained>>

\* feed_unchecked: no limit.
FeedUnchecked(data) ==
    /\ pending = 0 /\ unbounded
    /\ buf' = buf \o data
    /\ stream' = stream \o data
    /\ UNCHANGED <<pending, unbounded, drained>>

\* Mutant: the size is checked before the old frame is dropped, so a refused
\* frame leaves the previous one behind as if it had been confirmed.
MutBufChecksFirst(len) ==
    /\ IF Len(buf) + len > MaxBuffer
         THEN buf' = buf /\ pending' = 0
         ELSE buf' = confirmed \o Zeros(len) /\ pending' = len
    /\ UNCHANGED <<unbounded, stream, drained>>

\* Mutant: >= for > in the size check, the other way around.
MutBufOffByOne(len) ==
    /\ IF Len(confirmed) + len > MaxBuffer + 1
         THEN buf' = confirmed /\ pending' = 0
         ELSE buf' = confirmed \o Zeros(len) /\ pending' = len
    /\ UNCHANGED <<unbounded, stream, drained>>

\* mut_buf: a frame that was never confirmed is dropped first, even when the
\* call then fails with BufferOverflow because the new frame does not fit.
MutBuf(len) ==
    /\ IF Len(confirmed) + len > MaxBuffer
         THEN buf' = confirmed /\ pending' = 0
         ELSE buf' = confirmed \o Zeros(len) /\ pending' = len
    /\ UNCHANGED <<unbounded, stream, drained>>

\* The caller's read writes some bytes at the front of the frame it holds.
Fill(data) ==
    /\ Len(data) <= pending
    /\ buf' = confirmed \o data \o Suffix(buf, Len(confirmed) + Len(data))
    /\ UNCHANGED <<pending, unbounded, stream, drained>>

\* Mutant: the frame stays open after it is confirmed.
AdvanceBufStaysOpen(len) ==
    LET kept == IF len <= pending THEN len ELSE pending
    IN  /\ buf' = Prefix(buf, Len(buf) - (pending - kept))
        /\ stream' = stream \o SubSeq(buf, Len(confirmed) + 1,
                                           Len(confirmed) + kept)
        /\ UNCHANGED <<pending, unbounded, drained>>

\* advance_buf: confirm the first len bytes of the frame, at most all of it,
\* and drop the rest.
AdvanceBuf(len) ==
    LET kept == IF len <= pending THEN len ELSE pending
    IN  /\ buf' = Prefix(buf, Len(buf) - (pending - kept))
        /\ pending' = 0
        /\ stream' = stream \o SubSeq(buf, Len(confirmed) + 1,
                                           Len(confirmed) + kept)
        /\ UNCHANGED <<unbounded, drained>>

\* A decoding operation drains a prefix of the buffer (buf.drain(..n)).
Drain(n) ==
    /\ pending = 0
    /\ n <= Len(buf)
    /\ buf' = Suffix(buf, n)
    /\ drained' = drained + n
    /\ UNCHANGED <<pending, unbounded, stream>>

Next ==
    \/ \E data \in Deliveries :
          /\ Len(stream) + Len(data) <= MaxStream
          /\ Feed(data) \/ FeedUnchecked(data)
    \/ \E data \in Deliveries : Fill(data)
    \/ \E len \in 0..MaxFrame : MutBuf(len)
    \/ \E len \in 0..MaxFrame :
          /\ Len(stream) + len <= MaxStream
          /\ AdvanceBuf(len)
    \/ \E n \in 1..Len(buf) : Drain(n)

Spec == Init /\ [][Next]_vars

-----------------------------------------------------------------------------
TypeOK ==
    /\ buf \in Seq(Bytes)
    /\ pending \in 0..Len(buf)
    /\ unbounded \in BOOLEAN
    /\ stream \in Seq(Bytes)
    /\ drained \in 0..Len(stream)

\* No byte is lost, duplicated, reordered or made up on the way from the
\* caller to the parser: what the parser sees (the buffer before the frame) is
\* exactly what was confirmed and has not been drained, whatever sequence of
\* frames was opened, filled, dropped, refused and confirmed in between.
ConfirmedIntact == confirmed = Suffix(stream, drained)

\* Unless the caller opted out with feed_unchecked, buffer and frame together
\* never exceed max_buffer_size, so the memory a peer can pin is bounded.
WithinCapacity == unbounded \/ Len(buf) <= MaxBuffer

\* The buffer with its frames implements a plain byte queue: opening, filling,
\* dropping or being refused a frame is invisible to the parser, confirming one
\* is a single delivery that respects the size limit.
Queue == INSTANCE ByteQueue WITH queue <- confirmed
ImplementsQueue == Queue!QueueSpec
=============================================================================
