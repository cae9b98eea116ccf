----------------------------- MODULE HeadDecoder -----------------------------
(***************************************************************************)
(* What RequestDecoder and ResponseDecoder have in common above            *)
(* BodyDecoder (src/src/decoder/request.rs, response.rs): the loop of      *)
(* decode_headers over start line and header lines, and decode(), which    *)
(* drives the streaming operations itself until a message is whole.        *)
(*                                                                         *)
(* Both loops take one step per iteration.  While a loop runs (`call` is   *)
(* not "idle", or `decoding` is not "no") no operation of the caller is    *)
(* possible.                                                               *)
(***************************************************************************)
EXTENDS BodyDecoder, Framing

CONSTANTS
    StartLine,  \* start line text -> its parts
    Apis        \* which operations a caller uses: "stream", "decode", "mixed"

ASSUME HeadAssumption == "none" \notin DOMAIN StartLine

VARIABLES
    start_line,         \* Option<String>, "none" for None
    headers,            \* header fields of the section being read
    decoded_head,       \* decode(): << >> for None, <<head>> for Some(head)
    decoded_body_kind,  \* decode(): its BodyKind, "none" for None
    decoded_body,       \* decode(): body bytes so far
    decoding,           \* decode() is at: "no" (not running), "head", "body",
                        \* or after the inner call: "consumed", "progressed",
                        \* and "closing" in a close-delimited body
    api,                \* the caller's choice
    heads,              \* history: heads and framings that were decided
    done,               \* history: bodies and trailers of finished messages
    taken               \* history: bytes handed out by take_remaining

sectionVars == <<start_line, headers>>
decodeVars == <<decoded_head, decoded_body_kind, decoded_body, decoding>>
headVars == <<start_line, headers, decoded_head, decoded_body_kind,
              decoded_body, decoding, api, heads, done, taken>>

\* No operation of the decoder is running.
Idle == call = "idle" /\ decoding = "no"

Streaming == api \in {"stream", "mixed"}
Decoding == api \in {"decode", "mixed"}

HeadInit ==
    /\ wire \in Wires /\ sent = 0 /\ buf = << >>
    /\ phase = "StartLine" /\ remaining = 0
    /\ trailers = << >> /\ body_consumed = 0
    /\ trailer_count = 0 /\ declared_trailers = {}
    /\ call = "idle" /\ advanced = FALSE /\ result = "none"
    /\ body = << >> /\ given = << >> /\ failed = FALSE
    /\ start_line = "none" /\ headers = << >>
    /\ decoded_head = << >> /\ decoded_body_kind = "none"
    /\ decoded_body = << >> /\ decoding = "no"
    /\ api \in Apis /\ heads = << >> /\ done = << >> /\ taken = << >>

-----------------------------------------------------------------------------
\* decode_headers returns without a head; a decode() that called it returns too.
HeadReturns(value) ==
    /\ call' = "idle" /\ decoding' = "no"
    /\ result' = value
    /\ failed' = (failed \/ value \in WireErrors)
    /\ UNCHANGED <<wire, sent, remaining, decoderVars, advanced, body, given,
                   decoded_head, decoded_body_kind, decoded_body,
                   api, heads, done, taken>>

\* decode_headers goes on to its next iteration.
HeadContinues ==
    /\ call' = "headers"
    /\ result' = "none"
    /\ UNCHANGED <<wire, sent, remaining, advanced, failed,
                   decodeVars, api, heads, taken>>

\* Phase StartLine.  The line is drained before it is looked at, unless it is
\* not UTF-8; `valid` are the start lines the decoder accepts.
StartLineStep(valid) ==
    /\ phase = "StartLine"
    /\ \/ /\ LineEnds(buf) = {}
          /\ HeadReturns("NeedData")
          /\ UNCHANGED <<buf, phase, sectionVars>>
       \/ \E pos \in LineEnds(buf) :
          LET line == Prefix(buf, pos)
          IN  \/ /\ ~IsUtf8(line)
                 /\ HeadReturns("InvalidData")
                 /\ UNCHANGED <<buf, phase, sectionVars>>
              \/ /\ IsUtf8(line)
                 /\ buf' = Suffix(buf, pos + 2)
                 /\ \/ /\ \A s \in valid : line # <<s>>
                       /\ HeadReturns("InvalidData")
                       /\ UNCHANGED <<phase, sectionVars>>
                    \/ \E s \in valid :
                       /\ line = <<s>>
                       /\ start_line' = s /\ phase' = "Headers"
                       /\ HeadContinues
                       /\ UNCHANGED <<headers, decoderVars, body, given, done>>

\* Phase Headers, a header line: length, count and UTF-8 are checked before it
\* is drained, its form after.
HeaderLineStep ==
    /\ phase = "Headers"
    /\ \/ /\ LineEnds(buf) = {}
          /\ HeadReturns("NeedData")
          /\ UNCHANGED <<buf, phase, sectionVars>>
       \/ \E pos \in LineEnds(buf) \ {0} :
          LET line == Prefix(buf, pos)
              refusal == IF pos > MaxHeaderLine THEN "HeaderLineTooLong"
                         ELSE IF Len(headers) >= MaxHeaders THEN "TooManyHeaders"
                         ELSE "InvalidData"
          IN  \/ /\ \/ pos > MaxHeaderLine \/ Len(headers) >= MaxHeaders
                    \/ ~IsUtf8(line)
                 /\ HeadReturns(refusal)
                 /\ UNCHANGED <<buf, phase, sectionVars>>
              \/ /\ pos <= MaxHeaderLine /\ Len(headers) < MaxHeaders /\ IsUtf8(line)
                 /\ buf' = Suffix(buf, pos + 2)
                 /\ UNCHANGED <<phase, start_line>>
                 /\ \/ /\ ParseHeaderLine(line) = {}
                       /\ HeadReturns("InvalidData")
                       /\ UNCHANGED headers
                    \/ \E f \in ParseHeaderLine(line) :
                       /\ headers' = Append(headers, f)
                       /\ HeadContinues
                       /\ UNCHANGED <<decoderVars, body, given, done>>

\* The phase a BodyKind leads to.
PhaseOf(k) ==
    CASE k.kind = "ContentLength" ->
            IF k.len > 0 THEN "BodyContentLength" ELSE "Complete"
      [] k.kind = "Chunked" -> "BodyChunkedSize"
      [] k.kind = "CloseDelimited" -> "BodyCloseDelimited"
      [] k.kind = "Tunnel" -> "Tunnel"
      [] k.kind = "None" -> "Complete"

\* Phase Headers, the empty line.  It is drained first; `k` is the framing or
\* the error, `fields` the headers the head keeps.  On success start line and
\* headers move into the head; on failure they stay, and so does the phase.
HeaderEndStep(k, fields) ==
    /\ phase = "Headers"
    /\ 0 \in LineEnds(buf)
    /\ buf' = Suffix(buf, 2)
    /\ \/ /\ k.kind \in KindErrors
          /\ HeadReturns(k.kind)
          /\ UNCHANGED <<phase, sectionVars>>
       \/ /\ k.kind \notin KindErrors
          /\ LET head == [line |-> start_line, headers |-> fields]
             IN  /\ heads' = Append(heads, [head |-> head, kind |-> k])
                 /\ IF decoding = "head"
                      THEN /\ decoded_head' = <<head>>
                           /\ decoded_body_kind' = k.kind
                           /\ decoding' = "body"
                      ELSE UNCHANGED <<decoded_head, decoded_body_kind, decoding>>
          /\ phase' = PhaseOf(k) /\ remaining' = k.len
          /\ declared_trailers' = DeclaredTrailers(fields)
          /\ start_line' = "none" /\ headers' = << >>
          /\ call' = "idle" /\ result' = "Head"
          /\ UNCHANGED <<wire, sent, trailers, body_consumed, trailer_count,
                         advanced, historyVars, decoded_body, api, done, taken>>

\* Mutant: the buffer is cleared with the message.
NextMessageDropsRest ==
    /\ phase = "Complete"
    /\ phase' = "StartLine"
    /\ start_line' = "none" /\ headers' = << >>
    /\ ResetDecoder
    /\ done' = Append(done, [body |-> body, trailers |-> given])
    /\ HeadContinues
    /\ buf' = << >>

\* Phase Complete: the message is over, everything about it is forgotten and
\* the loop goes on with the next start line.
NextMessageStep ==
    /\ phase = "Complete"
    /\ phase' = "StartLine"
    /\ start_line' = "none" /\ headers' = << >>
    /\ ResetDecoder
    /\ done' = Append(done, [body |-> body, trailers |-> given])
    /\ HeadContinues
    /\ UNCHANGED buf

\* decode_headers in the middle of a body, or in a tunnel.
HeadMisuse ==
    /\ phase \in BodyPhases \cup {"Tunnel"}
    /\ Returns("Misuse")
    /\ UNCHANGED headVars

-----------------------------------------------------------------------------
\* The streaming operations on the body.
Consume(len) ==
    /\ Idle /\ Streaming
    /\ IF len = 0 THEN Returns("Misuse") ELSE ConsumeBody(len)
    /\ UNCHANGED headVars

Progress ==
    /\ Idle /\ Streaming
    /\ ConsumeBody(0)
    /\ UNCHANGED headVars

\* take_remaining and reset.
TakeRemaining ==
    /\ Idle
    /\ taken' = taken \o buf
    /\ buf' = << >>
    /\ result' = "none"
    /\ UNCHANGED <<wire, sent, phase, remaining, decoderVars, call, advanced,
                   historyVars, sectionVars, decodeVars, api, heads, done>>

-----------------------------------------------------------------------------
\* decode(): without a head it starts on one, but only where decode_headers is
\* in a header section; otherwise the streaming API was used before.
DecodeRefused ==
    /\ Idle /\ Decoding
    /\ decoded_head = << >> /\ phase \notin {"StartLine", "Headers"}
    /\ Returns("Misuse")
    /\ UNCHANGED headVars

\* decode() starts with the head, or resumes in the body.
DecodeStarts ==
    /\ Idle /\ Decoding
    /\ decoded_head # << >> \/ phase \in {"StartLine", "Headers"}
    /\ decoding' = IF decoded_head = << >> THEN "head" ELSE "body"
    /\ call' = IF decoded_head = << >> THEN "headers" ELSE "idle"
    /\ result' = "none"
    /\ UNCHANGED <<inputVars, phase, remaining, decoderVars, advanced, historyVars,
                   sectionVars, decoded_head, decoded_body_kind, decoded_body,
                   api, heads, done, taken>>

\* decode() returns without a message.
DecodeReturns(value) ==
    /\ decoding' = "no"
    /\ result' = value
    /\ failed' = (failed \/ value \in WireErrors)
    /\ UNCHANGED <<inputVars, phase, remaining, decoderVars, call, advanced,
                   body, given, sectionVars, decoded_head, decoded_body_kind,
                   decoded_body, api, heads, done, taken>>

\* The inner consume_body of what peek_body offers, or progress.
DecodeInner ==
    /\ decoding = "body" /\ call = "idle"
    /\ decoded_body_kind \in {"ContentLength", "Chunked"}
    /\ decoded_body' = decoded_body \o Prefix(buf, PeekLen)
    /\ decoding' = IF PeekLen > 0 THEN "consumed" ELSE "progressed"
    /\ ConsumeBody(PeekLen)
    /\ UNCHANGED <<sectionVars, decoded_head, decoded_body_kind, api, heads,
                   done, taken>>

\* Mutant: decode() polls until the message is complete.
DecodeAgainAlways ==
    /\ decoding \in {"consumed", "progressed"} /\ call = "idle"
    /\ result \notin WireErrors \cup {"Misuse", "Complete"}
    /\ decoding' = "body"
    /\ UNCHANGED <<bodyVars, sectionVars, decoded_head, decoded_body_kind,
                   decoded_body, api, heads, done, taken>>

\* What the loop does with the outcome of the inner call: an error ends it;
\* after consume_body the phase tells, after progress the returned value.
DecodeAgain ==
    /\ decoding \in {"consumed", "progressed"} /\ call = "idle"
    /\ result \notin WireErrors \cup {"Misuse"}
    /\ IF decoding = "consumed" THEN phase # "Complete" ELSE result = "Advanced"
    /\ decoding' = "body"
    /\ UNCHANGED <<bodyVars, sectionVars, decoded_head, decoded_body_kind,
                   decoded_body, api, heads, done, taken>>

DecodeStops ==
    /\ decoding \in {"consumed", "progressed"} /\ call = "idle"
    /\ \/ result \in WireErrors \cup {"Misuse"}
       \/ decoding = "progressed" /\ result = "NeedData"
    /\ DecodeReturns(result)

\* The message is whole: it is returned and the decoder made ready for the
\* next one.
DecodeFinished ==
    \/ decoding \in {"consumed", "closing"} /\ call = "idle" /\ phase = "Complete"
         /\ result \notin WireErrors \cup {"Misuse"}
    \/ decoding = "progressed" /\ call = "idle" /\ result = "Complete"
    \/ decoding = "body" /\ decoded_body_kind = "None"
    \/ decoding = "body" /\ decoded_body_kind = "CloseDelimited" /\ phase = "Complete"

DecodeFinish ==
    /\ DecodeFinished
    /\ done' = Append(done, [body |-> decoded_body, trailers |-> given])
    /\ phase' = "StartLine"
    /\ decoded_head' = << >> /\ decoded_body_kind' = "none"
    /\ decoded_body' = << >> /\ decoding' = "no"
    /\ ResetDecoder
    /\ result' = "Message"
    /\ UNCHANGED <<inputVars, remaining, call, advanced, failed, sectionVars,
                   api, heads, taken>>

DecodeTunnel ==
    /\ decoding = "body" /\ decoded_body_kind = "Tunnel"
    /\ DecodeReturns("Misuse")

-----------------------------------------------------------------------------
HeadTypeOK ==
    /\ BodyTypeOK
    /\ start_line \in DOMAIN StartLine \cup {"none"}
    /\ headers \in Seq(DOMAIN Field)
    /\ decoded_body \in Seq(Bytes)
    /\ decoding \in {"no", "head", "body", "consumed", "progressed", "closing"}
    /\ taken \in Seq(Bytes)

\* Every unwrap() in decode_headers and decode has its Some: the start line is
\* there exactly while header lines are read and no field survives its section,
\* and the head and the body kind that decode() keeps between calls come and go
\* together, across errors, resets and interrupted calls.
UnwrapsSafe ==
    /\ (start_line # "none") <=> (phase = "Headers")
    /\ phase # "Headers" => headers = << >>
    /\ Len(headers) <= MaxHeaders
    /\ (decoded_head # << >>) <=> (decoded_body_kind # "none")
    /\ decoding = "head" => decoded_head = << >> /\ call = "headers"
    /\ decoding \notin {"no", "head"} => decoded_head # << >> /\ call # "headers"
    /\ call = "headers" => phase \in {"StartLine", "Headers"}
    /\ call = "trailers" => phase = "ChunkedTrailer"

-----------------------------------------------------------------------------
\* A line of a header section leaves the buffer: the start line or the field it
\* holds is kept, the empty one ends the section with a head, or the line is
\* refused.
ReadsHeadLine ==
    /\ UNCHANGED <<wire, sent, body>>
    /\ \E pos \in LineEnds(buf) :
          /\ buf' = Suffix(buf, pos + 2)
          /\ \/ phase = "StartLine" /\ phase' = "Headers" /\ Prefix(buf, pos) = <<start_line'>>
             \/ /\ phase = "Headers" /\ pos > 0
                /\ \E f \in ParseHeaderLine(Prefix(buf, pos)) : headers' = Append(headers, f)
             \/ phase = "Headers" /\ pos = 0 /\ result' = "Head"
             \/ phase \in {"StartLine", "Headers"} /\ result' \in WireErrors

\* A message is over, and its body is what is returned or was delivered.
EndsMessage ==
    /\ UNCHANGED inputVars
    /\ body' = << >> /\ phase' = "StartLine"
    /\ \E b \in {body, decoded_body} :
          done' = Append(done, [body |-> b, trailers |-> given])

\* take_remaining hands out what is left, reset drops it.
TakesRest == UNCHANGED <<wire, sent, body>> /\ taken' = taken \o buf /\ buf' = << >>
DropsRest == wire' = Suffix(wire, sent) /\ sent' = 0 /\ buf' = << >> /\ body' = << >>

\* No byte is skipped over a whole connection: whatever leaves the buffer is
\* accounted for as in InputAccounted, as a line of a header section, or
\* because the caller asked for it.
HeadAccounted == Accounted \/ ReadsHeadLine \/ EndsMessage \/ TakesRest \/ DropsRest
=============================================================================
