----------------------------- MODULE BodyDecoder -----------------------------
(***************************************************************************)
(* BodyDecoder of src/src/decoder/body.rs: the state machine behind        *)
(* peek_body / consume_body / progress of both decoders, for the           *)
(* Content-Length, chunked and close-delimited framings.                   *)
(*                                                                         *)
(* The peer's bytes are `wire`, fixed in the initial state; the caller     *)
(* feeds them in arbitrary pieces and calls the decoder whenever it likes. *)
(* DecodeBuffer shows that feeding through a write frame is no different,  *)
(* so only feed is modelled here.                                          *)
(*                                                                         *)
(* A call is one action, except for the loop of process_trailers, which    *)
(* takes one step per line: `call` is "trailers" while it runs and every   *)
(* operation waits for "idle", as &mut self makes the caller wait.         *)
(***************************************************************************)
EXTENDS ChunkLine

CONSTANTS
    Bytes,          \* byte values
    Wires,          \* byte sequences the peer may send
    FeedSizes,      \* lengths of one feed
    Prohibited,     \* names that may never be trailers (trailer.rs)
    MaxBuffer,      \* max_buffer_size
    MaxBody,        \* max_body_size
    MaxChunkLine,   \* max_chunk_line_size
    MaxHeaderLine,  \* max_header_line_size
    MaxHeaders      \* max_headers_count

ASSUME BodyAssumption ==
    /\ Wires \subseteq Seq(Bytes)
    /\ FeedSizes \subseteq Nat \ {0}
    /\ MaxBuffer \in Nat
    /\ MaxBody \in 0..UsizeMax
    /\ MaxChunkLine \in Nat
    /\ MaxHeaderLine \in Nat
    /\ MaxHeaders \in Nat

VARIABLES
    wire,               \* what the peer sends
    sent,               \* how much of it has been fed
    buf,                \* the decoder's buffer
    phase,              \* DecodePhase
    remaining,          \* its payload in BodyContentLength / BodyChunkedData
    trailers,           \* BodyDecoder::trailers
    body_consumed,      \* BodyDecoder::body_consumed
    trailer_count,      \* BodyDecoder::trailer_count
    declared_trailers,  \* BodyDecoder::declared_trailers
    call,               \* "idle", or the loop a call is in: "trailers", and
                        \* "headers" in the decoders built on this module
    advanced,           \* the local `advanced` of process_trailers
    result,             \* what the last call returned
    body,               \* history: body bytes consumed in this message
    given,              \* history: trailers returned with Complete
    failed              \* history: a call has rejected the peer's bytes

inputVars == <<wire, sent, buf>>
decoderVars == <<trailers, body_consumed, trailer_count, declared_trailers>>
historyVars == <<body, given, failed>>
bodyVars == <<wire, sent, buf, phase, remaining, trailers, body_consumed,
              trailer_count, declared_trailers, call, advanced, result,
              body, given, failed>>

BodyPhases == {"BodyContentLength", "BodyChunkedSize", "BodyChunkedData",
               "BodyChunkedDataCrlf", "ChunkedTrailer", "BodyCloseDelimited"}
Phases == BodyPhases \cup {"StartLine", "Headers", "Tunnel", "Complete"}

\* Phases that only progress() may move: consume_body with a length asserts.
ProgressPhases == {"BodyChunkedSize", "BodyChunkedDataCrlf", "ChunkedTrailer"}

\* Errors caused by the peer's bytes.  "Misuse" is the InvalidData of a call
\* in the wrong phase or with a length that was not peeked.
WireErrors == {"InvalidData", "BodyTooLarge", "ChunkLineTooLong",
               "HeaderLineTooLong", "TooManyHeaders"}
\* "Head" and "Message" are returned by the decoders built on this module.
Results == WireErrors \cup {"none", "Advanced", "NeedData", "Complete", "Misuse",
                           "Head", "Message"}

-----------------------------------------------------------------------------
\* peek_body: how many bytes it offers; 0 stands for None.
PeekLen ==
    CASE phase \in {"BodyContentLength", "BodyChunkedData"} ->
            IF remaining >= Len(buf) THEN Len(buf) ELSE remaining
      [] phase = "BodyCloseDelimited" -> Len(buf)
      [] OTHER -> 0

\* BodyDecoder::reset, with the per-message history.
ResetDecoder ==
    /\ trailers' = << >> /\ body_consumed' = 0
    /\ trailer_count' = 0 /\ declared_trailers' = {}
    /\ body' = << >> /\ given' = << >>

-----------------------------------------------------------------------------

\* feed: the next n bytes of the wire, whole or not at all (BufferOverflow).
Feed(n) ==
    /\ call = "idle"
    /\ sent + n <= Len(wire)
    /\ Len(buf) + n <= MaxBuffer
    /\ buf' = buf \o SubSeq(wire, sent + 1, sent + n)
    /\ sent' = sent + n
    /\ result' = "none"
    /\ UNCHANGED <<wire, phase, remaining, decoderVars, call, advanced, historyVars>>

-----------------------------------------------------------------------------
\* What a call leaves alone when it only returns a value.
Returns(value) ==
    /\ result' = value
    /\ failed' = (failed \/ value \in WireErrors)
    /\ UNCHANGED <<inputVars, phase, remaining, decoderVars, call, advanced,
                   body, given>>

\* The first len bytes of the buffer are body bytes of the current framing.
OnOffer(len) ==
    /\ phase \in {"BodyContentLength", "BodyChunkedData"} => len <= remaining
    /\ len <= Len(buf)

\* consume_body, len out of range: nothing is touched.
ConsumeTooMuch(len) ==
    /\ phase \in {"BodyContentLength", "BodyChunkedData", "BodyCloseDelimited"}
    /\ ~OnOffer(len)
    /\ Returns("Misuse")

\* Mutant: each chunk is measured alone, not with what was already consumed.
ExceedsBodyAlone(len) == len > MaxBody

\* len more bytes would exceed max_body_size.
ExceedsBody(len) == body_consumed + len > MaxBody

\* The len bytes leave the buffer; body_consumed grows by them unless it would
\* overflow, which the code notices only after the drain.
Deliver(len) ==
    /\ body' = body \o Prefix(buf, len)
    /\ body_consumed' = IF body_consumed + len > UsizeMax
                          THEN body_consumed ELSE body_consumed + len
    /\ UNCHANGED <<wire, sent, trailers, trailer_count, declared_trailers,
                   call, advanced, given>>

\* consume_body in BodyContentLength.
ConsumeContentLength(len) ==
    /\ phase = "BodyContentLength"
    /\ OnOffer(len)
    /\ buf' = Suffix(buf, len)
    /\ remaining' = remaining - len
    /\ Deliver(len)
    /\ phase' = IF body_consumed + len <= UsizeMax /\ len = remaining
                  THEN "Complete" ELSE phase
    /\ result' = CASE body_consumed + len > UsizeMax -> "BodyTooLarge"
                   [] len = remaining -> "Complete"
                   [] len > 0 -> "Advanced"
                   [] OTHER -> "NeedData"
    /\ failed' = (failed \/ result' \in WireErrors)

\* Mutant: a CRLF that is not there yet counts as missing.
AfterChunkDataNoWait(rest) ==
    /\ remaining' = 0
    /\ \/ /\ CrlfAt(rest, 0)
          /\ buf' = Suffix(rest, 2) /\ phase' = "BodyChunkedSize" /\ result' = "Advanced"
       \/ /\ ~CrlfAt(rest, 0)
          /\ buf' = rest /\ phase' = "BodyChunkedDataCrlf" /\ result' = "InvalidData"
    /\ failed' = (failed \/ result' \in WireErrors)

\* Mutant: the end of a chunk asks for more data even if the next chunk is
\* already in the buffer.
AfterChunkDataStops(rest) ==
    /\ remaining' = 0
    /\ \/ /\ Len(rest) < 2
          /\ buf' = rest /\ phase' = "BodyChunkedDataCrlf" /\ result' = "NeedData"
       \/ /\ CrlfAt(rest, 0)
          /\ buf' = Suffix(rest, 2) /\ phase' = "BodyChunkedSize" /\ result' = "NeedData"
       \/ /\ Len(rest) >= 2 /\ ~CrlfAt(rest, 0)
          /\ buf' = rest /\ phase' = "BodyChunkedDataCrlf" /\ result' = "InvalidData"
    /\ failed' = (failed \/ result' \in WireErrors)

\* The CRLF that closes a chunk, when `rest` is in the buffer: it is drained
\* if it is there, missing bytes are waited for, anything else is an error.
AfterChunkData(rest) ==
    /\ remaining' = 0
    /\ \/ /\ Len(rest) < 2
          /\ buf' = rest /\ phase' = "BodyChunkedDataCrlf" /\ result' = "NeedData"
       \/ /\ CrlfAt(rest, 0)
          /\ buf' = Suffix(rest, 2) /\ phase' = "BodyChunkedSize" /\ result' = "Advanced"
       \/ /\ Len(rest) >= 2 /\ ~CrlfAt(rest, 0)
          /\ buf' = rest /\ phase' = "BodyChunkedDataCrlf" /\ result' = "InvalidData"
    /\ failed' = (failed \/ result' \in WireErrors)

\* consume_body in BodyChunkedData: the end of the chunk and its CRLF are
\* handled in the same call when the bytes are there.
ConsumeChunkedData(len) ==
    /\ phase = "BodyChunkedData"
    /\ len > 0 /\ OnOffer(len)
    /\ Deliver(len)
    /\ IF body_consumed + len > UsizeMax
         THEN /\ buf' = Suffix(buf, len) /\ remaining' = remaining - len
              /\ result' = "BodyTooLarge" /\ failed' = TRUE
              /\ UNCHANGED phase
         ELSE \/ /\ len < remaining
                 /\ buf' = Suffix(buf, len) /\ remaining' = remaining - len
                 /\ result' = "Advanced"
                 /\ UNCHANGED <<phase, failed>>
              \/ len = remaining /\ AfterChunkData(Suffix(buf, len))

\* progress in BodyChunkedDataCrlf.
ProcessDataCrlf ==
    /\ phase = "BodyChunkedDataCrlf"
    /\ AfterChunkData(buf)
    /\ UNCHANGED <<wire, sent, decoderVars, call, advanced, body, given>>

\* consume_body in BodyCloseDelimited: the limit is checked before the drain.
ConsumeCloseDelimited(len) ==
    /\ phase = "BodyCloseDelimited"
    /\ len > 0 /\ OnOffer(len)
    /\ \/ ExceedsBody(len) /\ Returns("BodyTooLarge")
       \/ /\ ~ExceedsBody(len)
          /\ buf' = Suffix(buf, len)
          /\ Deliver(len)
          /\ result' = "Advanced"
          /\ UNCHANGED <<phase, remaining, failed>>

\* progress in the phases that hold body bytes moves nothing.
ProgressInData ==
    /\ phase \in {"BodyChunkedData", "BodyCloseDelimited"}
    /\ Returns("NeedData")

\* Complete: the trailers are handed out once.
ConsumeComplete ==
    /\ phase = "Complete"
    /\ given' = given \o trailers
    /\ trailers' = << >>
    /\ result' = "Complete"
    /\ UNCHANGED <<inputVars, phase, remaining, body_consumed, trailer_count,
                   declared_trailers, call, advanced, body, failed>>

\* consume_body outside of a body.
NotInBody ==
    /\ phase \in {"StartLine", "Headers", "Tunnel"}
    /\ Returns("Misuse")

-----------------------------------------------------------------------------
\* Mutant: the refused line is drained.
RefuseChunkLineDrained(value) ==
    /\ result' = value /\ failed' = TRUE
    /\ \E pos \in LineEnds(buf) : buf' = Suffix(buf, pos + 2)
    /\ UNCHANGED <<wire, sent, phase, remaining, decoderVars, call, advanced,
                   body, given>>

\* A chunk-size line is refused where it stands.
RefuseChunkLine(value) == Returns(value)

\* process_chunked_size: wait for a whole line; refuse it where it stands if
\* it is too long or malformed; otherwise drain it and enter the chunk.  A
\* chunk that would exceed the limit is refused after its line was drained.
\* The last chunk enters the trailer loop within the same call.
ProcessChunkedSize ==
    /\ phase = "BodyChunkedSize"
    /\ \/ LineEnds(buf) = {} /\ Returns("NeedData")
       \/ \E pos \in LineEnds(buf) :
          LET line == Prefix(buf, pos)
          IN  \/ pos > MaxChunkLine /\ RefuseChunkLine("ChunkLineTooLong")
              \/ /\ pos <= MaxChunkLine /\ ~ValidChunkLine(line)
                 /\ RefuseChunkLine("InvalidData")
              \/ /\ pos <= MaxChunkLine /\ ValidChunkLine(line)
                 /\ buf' = Suffix(buf, pos + 2)
                 /\ UNCHANGED <<wire, sent, decoderVars, body, given>>
                 /\ \/ /\ ChunkSize(line) = 0
                       /\ phase' = "ChunkedTrailer"
                       /\ call' = "trailers" /\ advanced' = TRUE
                       /\ result' = "none"
                       /\ UNCHANGED <<remaining, failed>>
                    \/ /\ ChunkSize(line) > 0
                       /\ ExceedsBody(ChunkSize(line))
                       /\ result' = "BodyTooLarge" /\ failed' = TRUE
                       /\ UNCHANGED <<phase, remaining, call, advanced>>
                    \/ /\ ChunkSize(line) > 0
                       /\ ~ExceedsBody(ChunkSize(line))
                       /\ phase' = "BodyChunkedData" /\ remaining' = ChunkSize(line)
                       /\ result' = "Advanced"
                       /\ UNCHANGED <<call, advanced, failed>>

\* progress in ChunkedTrailer starts the loop of process_trailers.
ProcessTrailers ==
    /\ phase = "ChunkedTrailer"
    /\ call' = "trailers" /\ advanced' = FALSE
    /\ result' = "none"
    /\ UNCHANGED <<inputVars, phase, remaining, decoderVars, historyVars>>

\* The loop ends without having reached the empty line.
TrailersReturn(value) ==
    /\ call' = "idle"
    /\ result' = value
    /\ failed' = (failed \/ value \in WireErrors)
    /\ UNCHANGED <<wire, sent, phase, remaining, body_consumed,
                   declared_trailers, advanced, body, given>>

\* Mutant: a declared name is good enough.
AdmittedTrailersDeclared(line) ==
    {f \in ParseHeaderLine(line) : Field[f].name \in declared_trailers}

\* The trailer field a line holds, if it is well-formed, not prohibited
\* (is_prohibited_trailer_field) and announced by the Trailer header.
AdmittedTrailers(line) ==
    {f \in ParseHeaderLine(line) : /\ Field[f].name \notin Prohibited
                                   /\ Field[f].name \in declared_trailers}

\* One trailer line of pos > 0 bytes.  Length, count and UTF-8 are checked
\* before the line is drained, its content after.
TrailerLine(pos) ==
    LET line == Prefix(buf, pos)
        refusal == IF pos > MaxHeaderLine THEN "HeaderLineTooLong"
                   ELSE IF trailer_count >= MaxHeaders THEN "TooManyHeaders"
                   ELSE "InvalidData"
    IN  \/ /\ pos > MaxHeaderLine \/ trailer_count >= MaxHeaders \/ ~IsUtf8(line)
           /\ TrailersReturn(refusal)
           /\ UNCHANGED <<buf, trailers, trailer_count>>
        \/ /\ pos <= MaxHeaderLine /\ trailer_count < MaxHeaders /\ IsUtf8(line)
           /\ buf' = Suffix(buf, pos + 2)
           /\ \/ /\ AdmittedTrailers(line) = {}
                 /\ TrailersReturn("InvalidData")
                 /\ UNCHANGED <<trailers, trailer_count>>
              \/ \E f \in AdmittedTrailers(line) :
                 /\ trailers' = Append(trailers, f)
                 /\ trailer_count' = trailer_count + 1
                 /\ advanced' = TRUE
                 /\ UNCHANGED <<wire, sent, phase, remaining, body_consumed,
                                declared_trailers, call, result, historyVars>>

\* process_trailers, one iteration, and the return to consume_body.
TrailerStep ==
    /\ call = "trailers"
    /\ \/ /\ LineEnds(buf) = {}
          /\ TrailersReturn(IF advanced THEN "Advanced" ELSE "NeedData")
          /\ UNCHANGED <<buf, trailers, trailer_count>>
       \/ /\ 0 \in LineEnds(buf)
          /\ buf' = Suffix(buf, 2)
          /\ phase' = "Complete"
          /\ given' = given \o trailers /\ trailers' = << >>
          /\ call' = "idle" /\ result' = "Complete"
          /\ UNCHANGED <<wire, sent, remaining, body_consumed, trailer_count,
                         declared_trailers, advanced, body, failed>>
       \/ \E pos \in LineEnds(buf) : pos > 0 /\ TrailerLine(pos)

-----------------------------------------------------------------------------
\* BodyDecoder::consume_body(len); progress() is consume_body(0).
ConsumeBody(len) ==
    /\ call = "idle"
    /\ len > 0 => phase \notin ProgressPhases
    /\ \/ ConsumeTooMuch(len)
       \/ ConsumeContentLength(len)
       \/ ConsumeChunkedData(len)
       \/ ConsumeCloseDelimited(len)
       \/ len = 0 /\ ProgressInData
       \/ ProcessChunkedSize
       \/ ProcessDataCrlf
       \/ ProcessTrailers
       \/ ConsumeComplete
       \/ NotInBody

\* What decode_headers can leave behind: a framing, its length within the
\* limit, and the trailer names the message announced.
BodyInit ==
    /\ wire \in Wires /\ sent = 0 /\ buf = << >>
    /\ \/ phase = "BodyContentLength" /\ remaining \in 1..MaxBody
       \/ phase \in Phases \ {"BodyContentLength", "BodyChunkedData",
                              "BodyChunkedDataCrlf", "ChunkedTrailer"}
          /\ remaining = 0
    /\ trailers = << >> /\ body_consumed = 0 /\ trailer_count = 0
    /\ declared_trailers \in SUBSET {Field[f].name : f \in DOMAIN Field}
    /\ call = "idle" /\ advanced = FALSE /\ result = "none"
    /\ body = << >> /\ given = << >> /\ failed = FALSE

BodyNext ==
    \/ \E n \in FeedSizes : Feed(n)
    \/ \E len \in 0..(Len(buf) + 1) : ConsumeBody(len)
    \/ TrailerStep

BodySpec == BodyInit /\ [][BodyNext]_bodyVars

-----------------------------------------------------------------------------
BodyTypeOK ==
    /\ wire \in Seq(Bytes)
    /\ sent \in 0..Len(wire)
    /\ buf \in Seq(Bytes)
    /\ phase \in Phases
    /\ remaining \in Nat
    /\ trailers \in Seq(DOMAIN Field)
    /\ body_consumed \in 0..UsizeMax
    /\ trailer_count \in Nat
    /\ call \in {"idle", "headers", "trailers"}
    /\ advanced \in BOOLEAN
    /\ result \in Results
    /\ body \in Seq(Bytes)
    /\ given \in Seq(DOMAIN Field)
    /\ failed \in BOOLEAN

\* The buffer is always the undrained end of what was fed, and never exceeds
\* max_buffer_size: no call repeats, reorders or invents input, also not one
\* that fails half-way through several drains.
InputIntact ==
    /\ Len(buf) <= sent /\ Len(buf) <= MaxBuffer
    /\ buf = SubSeq(wire, sent - Len(buf) + 1, sent)

\* Body bytes leave the buffer for the body, and the CRLF behind a chunk's last
\* byte with them.
DeliversBody ==
    \E len \in 0..Len(buf) :
        LET rest == Suffix(buf, len)
        IN  /\ body' = body \o Prefix(buf, len)
            /\ \/ buf' = rest
               \/ /\ phase = "BodyChunkedData" /\ len = remaining
                  /\ CrlfAt(rest, 0) /\ buf' = Suffix(rest, 2)

\* The CRLF of a chunk leaves the buffer by itself.
ReadsCrlf ==
    /\ phase = "BodyChunkedDataCrlf" /\ CrlfAt(buf, 0)
    /\ buf' = Suffix(buf, 2) /\ body' = body

\* A chunk-size line leaves the buffer: its size is what is due next, or refused.
ReadsChunkLine ==
    /\ phase = "BodyChunkedSize" /\ body' = body
    /\ \E pos \in LineEnds(buf) :
          /\ buf' = Suffix(buf, pos + 2)
          /\ \/ phase' = "ChunkedTrailer" /\ ChunkSize(Prefix(buf, pos)) = 0
             \/ phase' = "BodyChunkedData" /\ remaining' = ChunkSize(Prefix(buf, pos))
             \/ result' = "BodyTooLarge"

\* A trailer line leaves the buffer: its field is stored, or refused; the empty
\* one ends the message.
ReadsTrailerLine ==
    /\ phase = "ChunkedTrailer" /\ body' = body
    /\ \E pos \in LineEnds(buf) :
          /\ buf' = Suffix(buf, pos + 2)
          /\ \/ pos = 0 /\ phase' = "Complete" /\ given' = given \o trailers
             \/ /\ pos > 0
                /\ \E f \in ParseHeaderLine(Prefix(buf, pos)) : trailers' = Append(trailers, f)
             \/ result' = "InvalidData"

\* The bytes that were fed join the buffer.
TakesInput ==
    /\ sent' \in sent..Len(wire) /\ UNCHANGED <<wire, body>>
    /\ buf' = buf \o SubSeq(wire, sent + 1, sent')

Accounted ==
    \/ TakesInput
    \/ /\ UNCHANGED <<wire, sent>>
       /\ \/ UNCHANGED <<buf, body>>
          \/ DeliversBody \/ ReadsCrlf \/ ReadsChunkLine \/ ReadsTrailerLine

\* No byte is skipped: whatever leaves the buffer is body that is delivered, or
\* a CRLF or line whose meaning the decoder has taken over or refused with an
\* error; a call drains neither less nor more than it has used, also if it
\* handles several pieces at once or fails between two of them.
InputAccounted == [][Accounted]_bodyVars

\* body_consumed counts the delivered bytes exactly, and together with what is
\* still announced (Content-Length, current chunk) it respects max_body_size in
\* every framing, also after errors and retries: hence the overflow branch
\* after the drain of consume_body can never be taken.
WithinLimit ==
    /\ body_consumed = Len(body)
    /\ body_consumed <= MaxBody
    /\ phase \in {"BodyContentLength", "BodyChunkedData"} =>
          remaining > 0 /\ body_consumed + remaining <= MaxBody

\* Every trailer that is stored or was handed out had been announced and is
\* not prohibited, each is handed out at most once, and max_headers_count bounds
\* their number over all calls, even if earlier ones were already taken.
TrailersAdmitted ==
    /\ Len(given) + Len(trailers) = trailer_count
    /\ trailer_count <= MaxHeaders
    /\ \A f \in {given[i] : i \in DOMAIN given}
                 \cup {trailers[i] : i \in DOMAIN trailers} :
          Field[f].name \in declared_trailers \ Prohibited

\* A line that was refused because of a limit is never passed: whatever is fed
\* and called afterwards, the decoder stays in front of it.
LimitRefusalFinal ==
    /\ [](result = "ChunkLineTooLong" => [](phase = "BodyChunkedSize"))
    /\ [](result \in {"HeaderLineTooLong", "TooManyHeaders"}
             => [](phase = "ChunkedTrailer"))
=============================================================================
