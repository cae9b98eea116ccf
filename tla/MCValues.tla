------------------------------ MODULE MCValues -------------------------------
(***************************************************************************)
(* The pure algorithms on all small inputs.  An input grows piece by       *)
(* piece: a header field value, a chunk-size line, a header section; dates *)
(* are given by their parts.                                               *)
(***************************************************************************)
EXTENDS ValueLaws, FramingRules

CONSTANTS
    MaxPieces,  \* bound: pieces of a text, by kind of text
    MaxFields,  \* bound: fields in a header section
    MaxBody     \* max_body_size

VARIABLES about, text, context

vars == <<about, text, context>>

MCMaxPieces ==
    [chunk |-> 5, range |-> 4, tag |-> 5, uri |-> 4, target |-> 4, quoted |-> 4, media |-> 4,
     disposition |-> 4, cache |-> 4, cookie |-> 4, auth |-> 4, base64 |-> 4]
MCHexVal == ("0" :> 0) @@ ("f" :> 15)
MCField ==
    LET F(n, l) == [name |-> n, list |-> l]
    IN  [te_chunked |-> F("transfer-encoding", <<"chunked">>),
         te_gzip |-> F("transfer-encoding", <<"gzip">>),
         te_both |-> F("transfer-encoding", <<"gzip", "chunked">>),
         te_param |-> F("transfer-encoding", <<"chunked;q">>),
         te_bad |-> F("transfer-encoding", <<"invalid">>),
         te_empty |-> F("transfer-encoding", << >>),
         cl_0 |-> F("content-length", <<0>>),
         cl_1 |-> F("content-length", <<1>>),
         cl_11 |-> F("content-length", <<1, 1>>),
         cl_9 |-> F("content-length", <<9>>),
         cl_19 |-> F("content-length", <<1, 9>>),
         cl_bad |-> F("content-length", <<NotANumber>>),
         cl_empty |-> F("content-length", << >>),
         other |-> F("x-other", <<"y">>)]

-----------------------------------------------------------------------------
\* The kinds of texts: what they start with and the pieces they are made of.
Chars(S) == {<<c>> : c \in S}
Opening ==
    [chunk |-> {<< >>, <<"0", ";", "x", "=">>},
     range |-> {<<"bytes", "=">>, <<"bytes", "SP">>, <<"bytes", "SP", "0", "-">>,
               <<"none">>},
     tag |-> {<< >>},
     uri |-> {<< >>, <<"h", ":", "/", "/", "h">>},
     target |-> {<< >>, <<"http", ":", "/", "/">>},
     quoted |-> {<< >>},
     media |-> {<<"a", "/", "b">>, <<"a", ";", "q", "=", "0">>,
                <<"a", "/", "b", ";", "q", "=", "0", ";", "DQUOTE">>},
     disposition |-> {<<"a">>},
     cache |-> {<< >>},
     cookie |-> {<<"a", "=">>},
     auth |-> {<<"Basic", "SP">>, <<"digest", "SP", "realm", "=", "a", ",", "nonce", "=", "a">>,
               <<"bearer", "SP">>},
     base64 |-> {<< >>}]
Pieces ==
    [chunk |-> Chars({"0", "f", "x", ";", "=", "SP", "DQUOTE", "BSLASH", "CTL"}),
     range |-> Chars({"0", "1", "2", "-", ",", "SP", "/", "*"}),
     tag |-> Chars({"DQUOTE", "a", ",", "SP", "*", "BSLASH"}) \cup {<<"W", "/">>},
     uri |-> Chars({"a", "/", ".", ":", "?", "#", "A"}) \cup {<<"%", "2", "e">>, <<"/", ".", ".">>},
     target |-> Chars({"a", "/", ":", "8", "*", "?", "@", "[", "]"}) \cup {<<":", "/", "/">>},
     quoted |-> Chars({"a", "DQUOTE", "BSLASH", "SP", "CTL", "OBS"}),
     media |-> Chars({"0", ".", "DQUOTE", "BSLASH"})
               \cup {<<";", "q", "=">>, <<";", "a", "=">>, <<";", "SP">>, <<",", "*", "/", "*">>},
     disposition |-> {<<";", "name", "=">>, <<";", "filename", "=">>,
                      <<";", "filename", "*", "=", "utf-8", "'", "'">>}
                     \cup Chars({"a", "DQUOTE", "BSLASH", "%", "4", "1", ";"}),
     cache |-> {<<"max-age", "=">>, <<"max-stale">>, <<"no-store">>, <<"private", "=">>}
               \cup Chars({"9", "1", ",", "DQUOTE", "="}),
     cookie |-> {<<";", "max-age", "=">>, <<";", "domain", "=">>, <<";", "path", "=">>,
                 <<";", "samesite", "=">>}
                \cup Chars({"1", ".", "-", "DQUOTE", "/", ";", "lax"}),
     auth |-> {<<",", "realm", "=">>, <<",", "response", "=", "a", ",", "uri", "=", "a">>,
               <<",", "username", "=">>, <<",", "username", "*", "=", "utf-8", "'", "'">>}
              \cup Chars({"a", "DQUOTE", "BSLASH", "="}),
     base64 |-> Chars({"A", "B", "w", "=", "SP", ":", "DEL", "OBS"})]

BasesOfUris == {<<"h", ":", "/", "/", "h", "/", "b", "/", "c", "?", "d">>, <<"h", ":", "/", "/", "h">>,
                <<"h", ":", "b", "/", "c">>}
HostTexts == {<< >>, <<"a">>, <<"a", ":", "8">>, <<"A", ":", "8", "8">>}
SampleDates ==
    {[weekday |-> 1, day |-> d, month |-> m, year |-> y, time |-> t] :
        d \in {1, 28, 29, 30, 31}, m \in {2, 4, 12}, y \in {1, 1894, 1900, 1994, 2000, 2049, 9999},
        t \in {<<0, 0, 0>>, <<23, 59, 60>>}}
ReferenceYears == {0, 48, 49, 99, 1999, 2000, 2024, 2050, 9999, U16Max - 50, U16Max - 49, U16Max}
Contexts ==
    [version : {"HTTP/1.1", "HTTP/1.0"}, status : {100, 200, 204, 205, 304, 404},
     method : {"GET", "HEAD", "CONNECT"}]

Init ==
    \/ /\ about \in DOMAIN Opening /\ text \in Opening[about]
       /\ context = 0       \* the pieces so far
    \/ /\ about = "fields" /\ text = << >> /\ context \in Contexts
    \/ /\ about = "date" /\ text = << >>
       /\ context \in [date : SampleDates, reference : ReferenceYears]

Grow ==
    /\ about \in DOMAIN Pieces /\ context < MaxPieces[about]
    /\ \E p \in Pieces[about] : text' = text \o p
    /\ context' = context + 1
    /\ UNCHANGED about

\* add_header and set_header.
AddField(f) ==
    /\ about = "fields" /\ Len(text) < MaxFields
    /\ text' = Append(text, f)
    /\ UNCHANGED <<about, context>>
ReplaceField(f) ==
    /\ about = "fields"
    /\ \E i \in DOMAIN text : Field[text[i]].name = Field[f].name
    /\ text' = SetHeader(text, f)
    /\ UNCHANGED <<about, context>>

Next == Grow \/ \E f \in DOMAIN Field : AddField(f) \/ ReplaceField(f)
Spec == Init /\ [][Next]_vars

-----------------------------------------------------------------------------
\* process_chunked_size accepts exactly the lines of the grammar, extended by
\* whitespace after the last chunk extension, and rejects sizes that overflow
\* usize.
AcceptsGrammar == about = "chunk" => (ValidChunkLine(text) <=> IsChunkLine(text))

\* determine_body_kind of both decoders decides what section 6.3 of RFC 9112
\* says, for every header section, version, status and request method.
Framed ==
    about = "fields" =>
        /\ RequestBodyKind(text, context.version, MaxBody)
             = RequestRule(text, context.version, MaxBody)
        /\ ResponseBodyKind(text, context.version, context.status, context.method, MaxBody)
             = ResponseRule(text, context.version, context.status, context.method, MaxBody)

\* A message that encode() lets through is framed as it was written: the
\* decoder takes as many body bytes as there are, and is_chunked agrees with
\* it.  A response to HEAD is sent with omit_body.
MessagesFramed ==
    about = "fields" /\ context.version = "HTTP/1.1" /\ context.method \in {"GET", "HEAD"} =>
        /\ \A body \in {{}, {0}, {1}, {9}} :
              /\ \A m \in EncodeRequest(text, body) : RequestAsFramed(m, MaxBody)
              /\ \A m \in EncodeResponse(text, context.status, body, context.method = "HEAD") :
                    ResponseAsFramed(m, context.status, context.method, MaxBody)
              /\ EncodeRequestHeaders(text, body, context.method) # {} => EncodeRequest(text, body) # {}
        /\ RequestBodyKind(text, "HTTP/1.1", MaxBody).kind = "Chunked" => IsChunked(text)
        /\ context.status = 200 /\ context.method = "GET" =>
             LET kind == ResponseBodyKind(text, "HTTP/1.1", 200, "GET", MaxBody).kind
             IN  kind \notin KindErrors => (kind = "Chunked" <=> IsChunked(text))

\* Range, Content-Range, Accept-Ranges and entity tags (see RangeLaw, TagLaw).
RangesRead ==
    /\ about = "range" => RangeLaw(text, 0..4)
    /\ about = "tag" => TagLaw(text)

\* Dates in the three formats, and two-digit years at both ends of u16 (see
\* DateLaw).
DatesRead == about = "date" => DateLaw(context.date, context.reference)

\* References are resolved and normalized (see UriLaw).
UrisResolved == about = "uri" => UriLaw(text, BasesOfUris)

\* Field values that were read are written so that they read the same, an
\* Accept value with a parameter name that is not a token excepted, and the
\* decoder reads a request-target in the form in which the encoder sends it,
\* one that starts with "/" and contains "://" excepted (see the laws of
\* ValueLaws).
FieldsRead ==
    /\ about = "quoted" => QuotedLaw(text)
    /\ about = "media" => MediaLaw(text)
    /\ about = "disposition" => DispositionLaw(text)
    /\ about = "cache" => CacheLaw(text)
    /\ about = "cookie" => CookieLaw(text)
    /\ about = "auth" => AuthLaw(text)
    /\ about = "base64" => Base64Law(text)
    /\ about = "target" =>
         \A method \in {"GET", "OPTIONS", "CONNECT"}, host \in HostTexts :
             TargetLaw(method, text, host)
=============================================================================
