------------------------------ MODULE ByteQueue ------------------------------
(***************************************************************************)
(* What the input side of a decoder promises to the parser behind it: a    *)
(* FIFO of the bytes the caller has confirmed.  Bytes enter at the tail,   *)
(* whole deliveries at a time, leave at the head, and nothing else ever    *)
(* happens to them.  The write frame of mut_buf / advance_buf does not     *)
(* exist at this level.                                                    *)
(***************************************************************************)
EXTENDS Integers, Sequences

CONSTANTS
    Deliveries, \* the non-empty byte sequences that may arrive at once
    MaxBuffer   \* DecoderLimits::max_buffer_size

VARIABLES
    queue,      \* confirmed bytes that have not been drained
    unbounded   \* the caller uses feed_unchecked, which has no size limit

queueVars == <<queue, unbounded>>

QueueInit == queue = << >> /\ unbounded \in BOOLEAN

\* A delivery is accepted whole, and only if it fits.
Put(data) ==
    /\ unbounded \/ Len(queue) + Len(data) <= MaxBuffer
    /\ queue' = queue \o data
    /\ UNCHANGED unbounded

\* The parser drains a prefix (a line, a piece of the body).
Take(n) ==
    /\ queue' = SubSeq(queue, n + 1, Len(queue))
    /\ UNCHANGED unbounded

QueueNext ==
    \/ \E data \in Deliveries : Put(data)
    \/ \E n \in 1..Len(queue) : Take(n)

QueueSpec == QueueInit /\ [][QueueNext]_queueVars
=============================================================================
