------------------------------ MODULE Messages -------------------------------
(***************************************************************************)
(* Messages and their encoding: the head predicates of                     *)
(* src/src/decoder/head.rs, the builders of src/src/request.rs and         *)
(* response.rs, and how encode and encode_headers of src/src/encoder.rs    *)
(* frame the body.  A body is {} (None) or a set with its length.  The     *)
(* request target and the Host field are in Targets.                       *)
(***************************************************************************)
EXTENDS Framing, SequencesExt

HasHeader(headers, name) == Occurrences(headers, name) # {}

\* set_header: the fields with that name are removed first.
SetHeader(headers, f) ==
    Append(SelectSeq(headers, LAMBDA g : Field[g].name # Field[f].name), f)

\* is_keep_alive: close wins over keep-alive, which wins over the version.
IsKeepAlive(headers, version) ==
    /\ "close" \notin Elements(headers, "connection")
    /\ "keep-alive" \in Elements(headers, "connection") \/ version = "HTTP/1.1"

\* is_chunked: the last transfer coding is chunked.
IsChunked(headers) ==
    LET ps == Positions(headers, "transfer-encoding")
    IN  \E p \in ps : IsLast(p, ps) /\ Element(headers, p) = "chunked"

-----------------------------------------------------------------------------
BodyLen(body) == IF body = {} THEN 0 ELSE CHOOSE n \in body : TRUE

\* validate_content_length_headers: one number per field, all the same.
ValidContentLengths(headers) ==
    /\ \A i \in Occurrences(headers, "content-length") :
          Len(Field[headers[i]].list) = 1 /\ Field[headers[i]].list[1] # NotANumber
    /\ Cardinality(ContentLengths(headers)) <= 1

\* The announced length, if there is one, is that of the body.
LengthMatches(headers, body) ==
    /\ ValidContentLengths(headers)
    /\ \A n \in ContentLengths(headers) : n = BodyLen(body)

\* The field an encoder adds.
ContentLengthField(n) ==
    CHOOSE f \in DOMAIN Field : Field[f] = [name |-> "content-length", list |-> <<n>>]

BothFramings(headers) ==
    HasHeader(headers, "transfer-encoding") /\ HasHeader(headers, "content-length")

\* What encode writes: the fields and the length of the body.
Encoded(headers, len) == [headers |-> headers, body |-> len]

\* should_auto_emit_content_length_for_request.
AutoLengthForRequest(headers, body) ==
    body # {} /\ ~HasHeader(headers, "content-length") /\ ~HasHeader(headers, "transfer-encoding")

\* encode_request, apart from the target and the Host field.
EncodeRequest(headers, body) ==
    IF \/ BothFramings(headers)
       \/ ~HasHeader(headers, "transfer-encoding") /\ ~LengthMatches(headers, body)
    THEN {}
    ELSE {Encoded(IF AutoLengthForRequest(headers, body)
                  THEN Append(headers, ContentLengthField(BodyLen(body))) ELSE headers,
                  BodyLen(body))}

\* encode_request_headers: a CONNECT request's length is not looked at.
EncodeRequestHeaders(headers, body, method) ==
    IF \/ BothFramings(headers)
       \/ /\ method # "CONNECT" /\ ~HasHeader(headers, "transfer-encoding")
          /\ ~LengthMatches(headers, body)
    THEN {} ELSE {headers}

-----------------------------------------------------------------------------
\* Mutant: an omitted body is announced like any other.
AutoLengthForResponseAlways(headers, status, body, omitted) ==
    /\ ~HasHeader(headers, "content-length") /\ ~HasHeader(headers, "transfer-encoding")
    /\ body # {}

\* should_auto_emit_content_length_for_response.
AutoLengthForResponse(headers, status, body, omitted) ==
    /\ StatusHasBody(status)
    /\ ~HasHeader(headers, "content-length") /\ ~HasHeader(headers, "transfer-encoding")
    /\ body # {} /\ ~(omitted /\ body = {0})

\* The fields a status forbids, in both encoders: no framing for 1xx and 204,
\* nothing but a length of 0 (the first such field is looked at) for 205.
StatusForbids(headers, status) ==
    \/ /\ status \in 100..199 \/ status = 204
       /\ HasHeader(headers, "transfer-encoding") \/ HasHeader(headers, "content-length")
    \/ /\ status = 205
       /\ \/ HasHeader(headers, "transfer-encoding")
          \/ \E i \in Occurrences(headers, "content-length") :
               /\ \A j \in Occurrences(headers, "content-length") : i <= j
               /\ Field[headers[i]].list # <<0>>

\* encode_response.
EncodeResponse(headers, status, body, omitted) ==
    LET sent == StatusHasBody(status) /\ ~omitted
    IN  IF \/ BothFramings(headers) \/ StatusForbids(headers, status)
           \/ status = 205 /\ BodyLen(body) > 0
           \/ /\ StatusHasBody(status) /\ ~HasHeader(headers, "transfer-encoding")
              /\ \/ ~ValidContentLengths(headers)
                 \/ (sent \/ BodyLen(body) > 0) /\ ~LengthMatches(headers, body)
        THEN {}
        ELSE {Encoded(IF AutoLengthForResponse(headers, status, body, omitted)
                      THEN Append(headers, ContentLengthField(BodyLen(body))) ELSE headers,
                      IF sent THEN BodyLen(body) ELSE 0)}

\* encode_response_headers.
EncodeResponseHeaders(headers, status, body) ==
    IF \/ BothFramings(headers) \/ StatusForbids(headers, status)
       \/ /\ StatusHasBody(status) /\ ~HasHeader(headers, "transfer-encoding")
          /\ ~LengthMatches(headers, body)
    THEN {} ELSE {headers}
=============================================================================
