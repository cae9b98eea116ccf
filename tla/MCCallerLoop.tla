---------------------------- MODULE MCCallerLoop -----------------------------
(***************************************************************************)
(* TLC instance of CallerLoop, with the reference and the connections of   *)
(* MCRequestDecoder.                                                       *)
(***************************************************************************)
EXTENDS CallerLoop, MCRequestDecoder

\* All that the connection carries has been returned, up to its first error:
\* every head, every finished body with its trailers, and the bytes of a body
\* whose end never came.
DeliveredAll(ref) ==
    /\ heads = ref.heads /\ done = ref.done /\ body = ref.body
    /\ ref.status \in WireErrors => failed /\ result = ref.status
    /\ at = "stopped" <=> ref.status # "incomplete"

Delivered == DeliveredAll(RequestsIn(wire))

\* The documented loops get everything out of every connection, however the
\* network cuts it: it neither waits for bytes while the decoder holds some it
\* could process, nor spins on a decoder that cannot go on.
LoopDelivers == <>[]Delivered

\* The loop asks the network only when the decoder has used all it can.
ReadsOnlyWhenNeeded ==
    at \in {"readHead", "readBody"} =>
        ReturnedAll(RequestsIn(Prefix(wire, sent)))
=============================================================================
