------------------------------- MODULE Framing -------------------------------
(***************************************************************************)
(* How the header fields of a message decide where its body ends:          *)
(* parse_transfer_encoding_for_*, parse_content_length,                    *)
(* resolve_body_headers_for_* and collect_declared_trailers of             *)
(* src/src/decoder/body.rs, and determine_body_kind of the two decoders.   *)
(*                                                                         *)
(* `headers` is a sequence of field texts.  Field[f].list holds the        *)
(* non-empty elements of the value's comma separated list (the code skips  *)
(* empty ones): transfer codings "chunked", "chunked;q" (with a            *)
(* parameter), "invalid" (no token) or any other name; content lengths as  *)
(* numbers, NotANumber if the digits are wrong or exceed u64; names for    *)
(* Trailer; "invalid" for a Host value that Host::parse rejects.           *)
(***************************************************************************)
EXTENDS Lines, FiniteSets

NotANumber == -1

ASSUME FramingAssumption ==
    \A f \in DOMAIN Field : Field[f].name = "content-length" =>
        \A j \in DOMAIN Field[f].list : Field[f].list[j] \in Nat \cup {NotANumber}

\* Indices of the fields with a name, and of all elements of their lists.
Occurrences(headers, name) ==
    {i \in DOMAIN headers : Field[headers[i]].name = name}
Positions(headers, name) ==
    UNION {{<<i, j>> : j \in DOMAIN Field[headers[i]].list} :
             i \in Occurrences(headers, name)}
Element(headers, p) == Field[headers[p[1]]].list[p[2]]
Elements(headers, name) ==
    {Element(headers, p) : p \in Positions(headers, name)}

\* p comes after every other position.
IsLast(p, ps) == \A q \in ps : q[1] < p[1] \/ (q[1] = p[1] /\ q[2] <= p[2])

-----------------------------------------------------------------------------
\* parse_transfer_encoding_for_request: nothing but one "chunked" will do.
RequestTransferEncoding(headers) ==
    LET ps == Positions(headers, "transfer-encoding")
    IN  IF ps = {} THEN "none"
        ELSE IF Cardinality(ps) = 1 /\ Elements(headers, "transfer-encoding") = {"chunked"}
        THEN "chunked" ELSE "error"

\* parse_transfer_encoding_for_response: chunked at most once and without
\* parameters; it frames the body only as the last coding.
ResponseTransferEncoding(headers) ==
    LET ps == Positions(headers, "transfer-encoding")
        chunked == {p \in ps : Element(headers, p) = "chunked"}
        codings == Elements(headers, "transfer-encoding")
    IN  IF ps = {} THEN "none"
        ELSE IF codings \cap {"invalid", "chunked;q"} # {} \/ Cardinality(chunked) > 1
        THEN "error"
        ELSE IF \E p \in chunked : IsLast(p, ps) THEN "chunked" ELSE "other"

\* parse_content_length: the lengths the fields announce ({} if there is no
\* such field), and whether they are usable: each field has one, all numbers,
\* all the same.
ContentLengths(headers) == Elements(headers, "content-length")

\* Mutant: the first length wins.
ContentLengthOkFirst(headers) ==
    \A i \in Occurrences(headers, "content-length") :
        Field[headers[i]].list # << >> /\ Field[headers[i]].list[1] # NotANumber

ContentLengthOk(headers) ==
    /\ \A i \in Occurrences(headers, "content-length") : Field[headers[i]].list # << >>
    /\ NotANumber \notin ContentLengths(headers)
    /\ Cardinality(ContentLengths(headers)) <= 1

-----------------------------------------------------------------------------
\* A BodyKind, or the error in its place.
Kind(kind) == [kind |-> kind, len |-> 0]
KindOfLength(n, max) ==
    IF n > max THEN Kind("BodyTooLarge") ELSE [kind |-> "ContentLength", len |-> n]
KindErrors == {"InvalidData", "BodyTooLarge"}

\* RequestDecoder::determine_body_kind.
RequestBodyKind(headers, version, max) ==
    LET te == RequestTransferEncoding(headers)
        lengths == ContentLengths(headers)
    IN  IF \/ te = "error" \/ ~ContentLengthOk(headers)
           \/ te = "chunked" /\ lengths # {}
           \/ te = "chunked" /\ version # "HTTP/1.1"
        THEN Kind("InvalidData")
        ELSE IF te = "chunked" THEN Kind("Chunked")
        ELSE IF lengths = {} THEN Kind("None")
        ELSE KindOfLength(CHOOSE n \in lengths : TRUE, max)

\* status_has_body.
StatusHasBody(status) == ~(status \in 100..199 \/ status \in {204, 304})

\* ResponseDecoder::determine_body_kind, in the order of RFC 9112 section 6.3.
ResponseBodyKind(headers, version, status, request_method, max) ==
    LET te == ResponseTransferEncoding(headers)
        lengths == ContentLengths(headers)
    IN  IF request_method = "HEAD" \/ ~StatusHasBody(status) THEN Kind("None")
        ELSE IF request_method = "CONNECT" /\ status \in 200..299 THEN Kind("Tunnel")
        ELSE IF \/ version # "HTTP/1.1" /\ Occurrences(headers, "transfer-encoding") # {}
                \/ te = "error" \/ ~ContentLengthOk(headers)
                \/ te # "none" /\ lengths # {}
        THEN Kind("InvalidData")
        ELSE IF te = "chunked" THEN Kind("Chunked")
        ELSE IF te = "other" \/ lengths = {} THEN Kind("CloseDelimited")
        ELSE KindOfLength(CHOOSE n \in lengths : TRUE, max)

\* collect_declared_trailers.
DeclaredTrailers(headers) == Elements(headers, "trailer")

\* The Host rule at the end of a request's header section.
HostOk(headers, version) ==
    version = "HTTP/1.1" =>
        /\ Cardinality(Occurrences(headers, "host")) = 1
        /\ "invalid" \notin Elements(headers, "host")
=============================================================================
