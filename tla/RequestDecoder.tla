--------------------------- MODULE RequestDecoder ---------------------------
(***************************************************************************)
(* RequestDecoder of src/src/decoder/request.rs: requests on one           *)
(* connection, one after the other, through the streaming operations       *)
(* (decode_headers, peek_body, consume_body, progress) or through decode().*)
(*                                                                         *)
(* StartLine[s] is [method, form, version]: form is the request-target     *)
(* form that parse_request_target_form finds, "invalid" if it, or another  *)
(* part of the line, is malformed.                                         *)
(***************************************************************************)
EXTENDS HeadDecoder

requestVars == <<wire, sent, buf, phase, remaining, trailers, body_consumed,
                 trailer_count, declared_trailers, call, advanced, result,
                 body, given, failed, start_line, headers, decoded_head,
                 decoded_body_kind, decoded_body, decoding, api, heads, done,
                 taken>>

\* validate_request_target_for_method.
TargetAllowed(method, form) ==
    CASE method = "CONNECT" -> form = "authority"
      [] method = "OPTIONS" -> form \in {"asterisk", "origin", "absolute"}
      [] OTHER -> form \in {"origin", "absolute"}

RequestLines ==
    {s \in DOMAIN StartLine : TargetAllowed(StartLine[s].method, StartLine[s].form)}

\* Mutant: CONNECT is framed like any other request.
RequestKindNoTunnel ==
    LET version == StartLine[start_line].version
    IN  IF ~HostOk(headers, version) THEN Kind("InvalidData")
        ELSE RequestBodyKind(headers, version, MaxBody)

\* What the end of the header section decides: Host is checked first, CONNECT
\* opens a tunnel whatever the other fields say.
RequestKind ==
    LET version == StartLine[start_line].version
    IN  IF ~HostOk(headers, version) THEN Kind("InvalidData")
        ELSE IF StartLine[start_line].method = "CONNECT" THEN Kind("Tunnel")
        ELSE RequestBodyKind(headers, version, MaxBody)

\* One iteration of decode_headers.
RequestHeadStep ==
    \/ StartLineStep(RequestLines)
    \/ HeaderLineStep
    \/ HeaderEndStep(RequestKind, headers)
    \/ NextMessageStep

DecodeHeaders == Idle /\ Streaming /\ (RequestHeadStep \/ HeadMisuse)
HeadLoop == call = "headers" /\ RequestHeadStep
TrailerLoop == TrailerStep /\ UNCHANGED headVars

\* Mutant: what has been parsed of the header section survives.
ResetKeepsHeaders ==
    /\ Idle
    /\ wire' = Suffix(wire, sent) /\ sent' = 0
    /\ buf' = << >>
    /\ phase' = "StartLine" /\ remaining' = 0
    /\ ResetDecoder
    /\ start_line' = "none"
    /\ decoded_head' = << >> /\ decoded_body_kind' = "none" /\ decoded_body' = << >>
    /\ failed' = FALSE /\ heads' = << >> /\ done' = << >> /\ taken' = << >>
    /\ result' = "none"
    /\ UNCHANGED <<call, advanced, decoding, api, headers>>

\* reset: the buffer and all state are dropped.  For the history this is a new
\* connection on which the peer sends what has not been fed yet.
Reset ==
    /\ Idle
    /\ wire' = Suffix(wire, sent) /\ sent' = 0
    /\ buf' = << >>
    /\ phase' = "StartLine" /\ remaining' = 0
    /\ ResetDecoder
    /\ start_line' = "none" /\ headers' = << >>
    /\ decoded_head' = << >> /\ decoded_body_kind' = "none" /\ decoded_body' = << >>
    /\ failed' = FALSE /\ heads' = << >> /\ done' = << >> /\ taken' = << >>
    /\ result' = "none"
    /\ UNCHANGED <<call, advanced, decoding, api>>

RequestNext ==
    \/ \E n \in FeedSizes : decoding = "no" /\ Feed(n) /\ UNCHANGED headVars
    \/ DecodeHeaders
    \/ HeadLoop
    \/ \E len \in 0..(Len(buf) + 1) : Consume(len)
    \/ Progress
    \/ TrailerLoop
    \/ DecodeRefused
    \/ DecodeStarts
    \/ DecodeInner
    \/ DecodeAgain
    \/ DecodeStops
    \/ DecodeFinish
    \/ DecodeTunnel
    \/ phase = "Tunnel" /\ TakeRemaining
    \/ Reset

RequestSpec == HeadInit /\ [][RequestNext]_requestVars

-----------------------------------------------------------------------------
\* The steps of a call that is under way.
Running == HeadLoop \/ TrailerLoop \/ DecodeInner \/ DecodeAgain \/ DecodeStops
             \/ DecodeFinish \/ DecodeTunnel

\* Every call returns: none of the loops in decode_headers, process_trailers
\* and decode() goes on for ever on the bytes it has.
CallsReturn == []<>Idle

\* No byte of a request, nor of the one behind it, is skipped (HeadAccounted).
RequestInputAccounted == [][HeadAccounted]_requestVars
=============================================================================
