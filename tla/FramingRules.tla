---------------------------- MODULE FramingRules -----------------------------
(***************************************************************************)
(* The references from RFC 9112.  Section 6.3, read over the joined field  *)
(* values: the framing decisions of Framing and the encoders of Messages   *)
(* are compared with it.  Section 7.1, the grammar of the chunk-size line, *)
(* which the comment of validate_chunk_ext in src/src/decoder/body.rs      *)
(* quotes: the parser of ChunkLine is compared with it.                    *)
(***************************************************************************)
EXTENDS Messages, ChunkLine

\* The value of all fields with a name, joined in order.
Joined(headers, name) ==
    FlattenSeq([i \in 1..Len(headers) |->
        IF Field[headers[i]].name = name THEN Field[headers[i]].list ELSE << >>])

\* A usable length: no field without one, all equal, a number.
LengthUsable(headers) ==
    LET cl == Joined(headers, "content-length")
    IN  /\ \A i \in DOMAIN headers :
              Field[headers[i]].name = "content-length" => Len(Field[headers[i]].list) > 0
        /\ \A i \in DOMAIN cl : cl[i] = cl[1] /\ cl[i] >= 0

Sized(headers, maxBody, none) ==
    LET cl == Joined(headers, "content-length")
    IN  IF cl = << >> THEN Kind(none)
        ELSE IF cl[1] > maxBody THEN Kind("BodyTooLarge")
        ELSE [kind |-> "ContentLength", len |-> cl[1]]

\* A request: chunked and nothing else, or a length, or no body; both or
\* anything else is an error, and so is chunked outside of HTTP/1.1.
RequestRule(headers, version, maxBody) ==
    LET te == Joined(headers, "transfer-encoding")
    IN  IF te \notin {<< >>, <<"chunked">>} \/ ~LengthUsable(headers) THEN Kind("InvalidData")
        ELSE IF te = << >> THEN Sized(headers, maxBody, "None")
        ELSE IF HasHeader(headers, "content-length") \/ version # "HTTP/1.1"
        THEN Kind("InvalidData") ELSE Kind("Chunked")

\* A response, by precedence: no body for HEAD, 1xx, 204, 304; tunnel for
\* CONNECT and 2xx; transfer codings; length; the end of the connection.
ResponseRule(headers, version, status, method, maxBody) ==
    LET te == Joined(headers, "transfer-encoding")
        chunks == {i \in DOMAIN te : te[i] = "chunked"}
    IN  IF method = "HEAD" \/ status \in (100..199) \cup {204, 304} THEN Kind("None")
        ELSE IF method = "CONNECT" /\ status \in 200..299 THEN Kind("Tunnel")
        ELSE IF \/ HasHeader(headers, "transfer-encoding") /\ version # "HTTP/1.1"
                \/ te # << >> /\ HasHeader(headers, "content-length")
                \/ ~LengthUsable(headers) \/ Cardinality(chunks) > 1
                \/ \E i \in DOMAIN te : te[i] \in {"invalid", "chunked;q"}
        THEN Kind("InvalidData")
        ELSE IF te = << >> THEN Sized(headers, maxBody, "CloseDelimited")
        ELSE Kind(IF Len(te) \in chunks THEN "Chunked" ELSE "CloseDelimited")

-----------------------------------------------------------------------------
\* The framing of an encoded message is that of its body: the decoder takes
\* exactly the bytes that were written, whatever they are, if there is no
\* transfer coding (with one the body is written as given); and no field that
\* the status forbids has been added.
RequestAsFramed(m, maxBody) ==
    LET kind == RequestBodyKind(m.headers, "HTTP/1.1", maxBody)
    IN  ~HasHeader(m.headers, "transfer-encoding") =>
          \/ kind = Kind("None") /\ m.body = 0
          \/ kind = [kind |-> "ContentLength", len |-> m.body]
          \/ kind = Kind("BodyTooLarge") /\ m.body > maxBody

ResponseAsFramed(m, status, method, maxBody) ==
    LET kind == ResponseBodyKind(m.headers, "HTTP/1.1", status, method, maxBody)
    IN  /\ ~StatusForbids(m.headers, status)
        /\ ~HasHeader(m.headers, "transfer-encoding") =>
          \/ kind \in {Kind("None"), Kind("Tunnel")} /\ m.body = 0
          \/ kind = Kind("CloseDelimited")
          \/ kind = [kind |-> "ContentLength", len |-> m.body]
          \/ kind = Kind("BodyTooLarge") /\ m.body > maxBody

-----------------------------------------------------------------------------
\* s[i+1..j] consists of elements of S.
OnlyOf(s, i, j, S) == \A k \in (i + 1)..j : s[k] \in S

\* quoted-string = DQUOTE *( qdtext / quoted-pair ) DQUOTE.  A backslash is
\* an escape iff an even number of them precedes it.
Escaped(s, i, k) ==
    \E n \in 0..(k - i) :
        /\ n % 2 = 1
        /\ OnlyOf(s, k - n - 1, k - 1, {"BSLASH"})
        /\ k - n - 1 > i => s[k - n - 1] # "BSLASH"

IsExtString(s, i, j) ==
    /\ j >= i + 2 /\ s[i + 1] = "DQUOTE" /\ s[j] = "DQUOTE" /\ ~Escaped(s, i, j)
    /\ \A k \in (i + 2)..(j - 1) :
          IF Escaped(s, i, k) THEN s[k] \in Escapable
          ELSE s[k] \in QdText \cup {"BSLASH"}

IsExtToken(s, i, j) == i < j /\ OnlyOf(s, i, j, Token)

\* [ BWS "=" BWS chunk-ext-val ]
IsExtValue(s, i, j) ==
    \/ i = j
    \/ \E e \in (i + 1)..j, v \in i..j :
          /\ OnlyOf(s, i, e - 1, Ws) /\ s[e] = "=" /\ OnlyOf(s, e, v, Ws)
          /\ v >= e
          /\ IsExtToken(s, v, j) \/ IsExtString(s, v, j)

\* chunk-ext = *( BWS ";" BWS chunk-ext-name [ BWS "=" BWS chunk-ext-val ] )
RECURSIVE IsChunkExt(_, _, _)
IsChunkExt(s, i, j) ==
    \/ i = j
    \/ \E semi \in (i + 1)..j :
          /\ s[semi] = ";" /\ OnlyOf(s, i, semi - 1, Ws)
          /\ \E a \in semi..j : OnlyOf(s, semi, a, Ws) /\
             \E b \in (a + 1)..j : IsExtToken(s, a, b) /\
             \E c \in b..j : IsExtValue(s, b, c) /\ IsChunkExt(s, c, j)

\* chunk-size [ chunk-ext ], the size within usize.  Whitespace after the last
\* extension, which the ABNF does not have, is accepted as well.
IsChunkLine(s) ==
    \E h \in 1..Len(s) :
        /\ OnlyOf(s, 0, h, DOMAIN HexVal)
        /\ \E e \in h..Len(s) :
              /\ IsChunkExt(s, h, e)
              /\ e < Len(s) => e > h /\ OnlyOf(s, e, Len(s), Ws)
        /\ HexValue(Prefix(s, h)) <= UsizeMax
=============================================================================
