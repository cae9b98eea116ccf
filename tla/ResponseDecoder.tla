--------------------------- MODULE ResponseDecoder ---------------------------
(***************************************************************************)
(* ResponseDecoder of src/src/decoder/response.rs: responses on one        *)
(* connection.  Beyond RequestDecoder it has a request method, on which    *)
(* the framing depends, and bodies that end when the connection does.      *)
(*                                                                         *)
(* StartLine[s] is [version, status]; a status outside 100..599 also       *)
(* stands for every other malformed status line.                           *)
(***************************************************************************)
EXTENDS HeadDecoder

CONSTANTS
    Methods,        \* methods the caller may announce
    SetPhases,      \* phases in which it does
    EofWithData,    \* TRUE: it calls mark_eof with bytes in the buffer
    MaxResponses    \* bound: responses per connection

VARIABLES
    request_method, \* ResponseDecoder::request_method, "none" for None
    asked,          \* history: exchange -> method announced for it
    closed          \* history: mark_eof ended a body

methodVars == <<request_method, asked, closed>>
responseVars == <<wire, sent, buf, phase, remaining, trailers, body_consumed,
                  trailer_count, declared_trailers, call, advanced, result,
                  body, given, failed, start_line, headers, decoded_head,
                  decoded_body_kind, decoded_body, decoding, api, heads, done,
                  taken, request_method, asked, closed>>

NotAsked == [n \in 1..MaxResponses |-> "none"]

ResponseInit ==
    /\ HeadInit
    /\ request_method = "none" /\ asked = NotAsked /\ closed = FALSE

Status(s) == StartLine[s].status
StatusLines == {s \in DOMAIN StartLine : Status(s) \in 100..599}

\* The exchange the next head belongs to: interim responses (1xx) do not end
\* one.
Exchange == 1 + Cardinality({i \in DOMAIN heads : Status(heads[i].head.line) >= 200})

-----------------------------------------------------------------------------
\* set_request_method: the caller announces the method of the request whose
\* response comes next.
SetRequestMethod(m) ==
    /\ Idle /\ phase \in SetPhases
    /\ Exchange <= MaxResponses
    /\ request_method' = m
    /\ asked' = [asked EXCEPT ![Exchange] = m]
    /\ result' = "none"
    /\ UNCHANGED <<inputVars, phase, remaining, decoderVars, call, advanced,
                   historyVars, headVars, closed>>

\* mark_eof, once all input was fed: a close-delimited body is complete, in any
\* other phase nothing happens.
MarkEof ==
    /\ Idle /\ sent = Len(wire)
    /\ EofWithData \/ buf = << >>
    /\ phase' = IF phase = "BodyCloseDelimited" THEN "Complete" ELSE phase
    /\ closed' = (closed \/ phase = "BodyCloseDelimited")
    /\ result' = "none"
    /\ UNCHANGED <<inputVars, remaining, decoderVars, call, advanced, historyVars,
                   headVars, request_method, asked>>

\* Mutant: the method outlives its response.
MethodAfterResponseKept == request_method

\* request_method once a response is over.
MethodAfterResponse == "none"

-----------------------------------------------------------------------------
\* Mutant: the head of a tunnel keeps its framing fields.
HeadFieldsAll == headers

\* The header fields the head keeps: a successful response to CONNECT loses
\* Transfer-Encoding and Content-Length.
HeadFields ==
    IF /\ request_method = "CONNECT" /\ Status(start_line) \in 200..299
       /\ StatusHasBody(Status(start_line))
      THEN SelectSeq(headers, LAMBDA f :
               Field[f].name \notin {"transfer-encoding", "content-length"})
      ELSE headers

\* Mutant: the answer to CONNECT is framed like any other response.
ResponseKindNoTunnel ==
    ResponseBodyKind(headers, StartLine[start_line].version, Status(start_line),
                     IF request_method = "CONNECT" THEN "none" ELSE request_method,
                     MaxBody)

\* What the end of the header section decides.
ResponseKind ==
    ResponseBodyKind(headers, StartLine[start_line].version, Status(start_line),
                     request_method, MaxBody)

\* One iteration of decode_headers.
ResponseHeadStep ==
    \/ /\ \/ StartLineStep(StatusLines)
          \/ HeaderLineStep
          \/ HeaderEndStep(ResponseKind, HeadFields)
       /\ UNCHANGED request_method
    \/ NextMessageStep /\ request_method' = MethodAfterResponse

DecodeResponseHeaders ==
    /\ Idle /\ Streaming
    /\ \/ ResponseHeadStep
       \/ HeadMisuse /\ UNCHANGED request_method
    /\ UNCHANGED <<asked, closed>>
ResponseHeadLoop ==
    call = "headers" /\ ResponseHeadStep /\ UNCHANGED <<asked, closed>>

-----------------------------------------------------------------------------
\* decode() in a close-delimited body: what is buffered is checked against the
\* limit and consumed.
DecodeCloseDelimited ==
    /\ decoding = "body" /\ decoded_body_kind = "CloseDelimited"
    /\ PeekLen > 0
    /\ \/ /\ Len(decoded_body) + PeekLen > MaxBody
          /\ DecodeReturns("BodyTooLarge")
       \/ /\ Len(decoded_body) + PeekLen <= MaxBody
          /\ decoded_body' = decoded_body \o Prefix(buf, PeekLen)
          /\ decoding' = "closing"
          /\ ConsumeBody(PeekLen)
          /\ UNCHANGED <<sectionVars, decoded_head, decoded_body_kind, api,
                         heads, done, taken>>

\* Not ended by mark_eof: an error of the inner call is passed on, otherwise
\* more data is needed.
DecodeNotClosed ==
    \/ /\ decoding = "closing"
       /\ result \in WireErrors \cup {"Misuse"} \/ phase # "Complete"
       /\ DecodeReturns(IF result \in WireErrors \cup {"Misuse"} THEN result ELSE "NeedData")
    \/ decoding = "body" /\ decoded_body_kind = "CloseDelimited"
         /\ PeekLen = 0 /\ phase # "Complete" /\ DecodeReturns("NeedData")

DecodeResponse ==
    \/ /\ \/ DecodeRefused \/ DecodeStarts \/ DecodeInner \/ DecodeAgain
          \/ DecodeStops \/ DecodeTunnel
          \/ DecodeCloseDelimited \/ DecodeNotClosed
       /\ UNCHANGED methodVars
    \/ /\ DecodeFinish
       /\ request_method' = MethodAfterResponse /\ UNCHANGED <<asked, closed>>

-----------------------------------------------------------------------------
\* reset, as in RequestDecoder, and the request method.
ResetResponse ==
    /\ Idle
    /\ wire' = Suffix(wire, sent) /\ sent' = 0
    /\ buf' = << >>
    /\ phase' = "StartLine" /\ remaining' = 0
    /\ ResetDecoder
    /\ start_line' = "none" /\ headers' = << >>
    /\ decoded_head' = << >> /\ decoded_body_kind' = "none" /\ decoded_body' = << >>
    /\ request_method' = "none"
    /\ failed' = FALSE /\ heads' = << >> /\ done' = << >> /\ taken' = << >>
    /\ asked' = NotAsked /\ closed' = FALSE
    /\ result' = "none"
    /\ UNCHANGED <<call, advanced, decoding, api>>

ResponseNext ==
    \/ \E n \in FeedSizes : /\ decoding = "no" /\ ~closed
                            /\ Feed(n) /\ UNCHANGED <<headVars, methodVars>>
    \/ \E m \in Methods : SetRequestMethod(m)
    \/ MarkEof
    \/ DecodeResponseHeaders
    \/ ResponseHeadLoop
    \/ \E len \in 0..(Len(buf) + 1) : Consume(len) /\ UNCHANGED methodVars
    \/ Progress /\ UNCHANGED methodVars
    \/ TrailerStep /\ UNCHANGED <<headVars, methodVars>>
    \/ DecodeResponse
    \/ phase = "Tunnel" /\ TakeRemaining /\ UNCHANGED methodVars
    \/ ResetResponse

ResponseSpec == ResponseInit /\ [][ResponseNext]_responseVars

\* No byte of a response, nor of the one behind it, is skipped (HeadAccounted).
ResponseInputAccounted == [][HeadAccounted]_responseVars
=============================================================================
