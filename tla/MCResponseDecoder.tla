-------------------------- MODULE MCResponseDecoder --------------------------
(***************************************************************************)
(* TLC instance of ResponseDecoder: short connections with up to two       *)
(* responses, interim ones included, compared with a reference that sees   *)
(* all bytes, and the methods of all requests, at once.                    *)
(***************************************************************************)
EXTENDS ResponseDecoder, WholeHead

\* The responses in w, after what `acc` holds already: heads with their framing,
\* finished bodies, and n, the number of the current exchange.
RECURSIVE RefResponses(_, _)

\* Behind the head h with framing k and the fields it keeps comes the body m.
\* A body that ends with the connection is whole once that is closed.
RefBodied(acc, h, m, k, fields) ==
    LET head == [head |-> [line |-> h.line, headers |-> fields], kind |-> k]
        after == [acc EXCEPT !.heads = Append(@, head)]
    IN  IF m.status = "Complete"
             \/ (k.kind = "CloseDelimited" /\ m.status = "incomplete" /\ closed)
        THEN RefResponses(m.rest,
                 [after EXCEPT !.n = IF Status(h.line) >= 200 THEN @ + 1 ELSE @,
                               !.done = Append(@, [body |-> m.body,
                                                   trailers |-> m.trailers])])
        ELSE RefStop(after, m.body, m.status, m.rest)

RefFields(h, k) ==
    IF k.kind # "Tunnel" THEN h.headers
    ELSE SelectSeq(h.headers, LAMBDA f :
             Field[f].name \notin {"transfer-encoding", "content-length"})

RefFramed(acc, h, k, fields, w) ==
    IF k.kind \in KindErrors THEN RefStop(acc, << >>, k.kind, w)
    ELSE RefBodied(acc, h, RefBody(h.rest, k, DeclaredTrailers(fields)), k, fields)

RefKind(h, n) ==
    ResponseBodyKind(h.headers, StartLine[h.line].version, Status(h.line),
                     IF n <= MaxResponses THEN asked[n] ELSE "none", MaxBody)

RefHeaded(acc, h, k, w) == RefFramed(acc, h, k, RefFields(h, k), w)

RefAfter(acc, h, w) ==
    IF h.status # "end" THEN RefStop(acc, << >>, h.status, w)
    ELSE RefHeaded(acc, h, RefKind(h, acc.n), w)

RefResponses(w, acc) == RefAfter(acc, RefHead(w, StatusLines), w)

ResponsesIn(w) == RefResponses(w, [n |-> 1, heads |-> << >>, done |-> << >>])

-----------------------------------------------------------------------------
\* Responses that follow each other on a connection are kept apart: the heads,
\* framings, bodies and trailers seen so far are those of the reference, each
\* framed for the method of its own request; neither a method nor a field, an
\* announcement or a body byte of one response leaks into the next.
ResponsesKeptApart == ~failed => ReturnedOf(ResponsesIn(wire))

\* The first error reported on a connection is the first error in its bytes.
FirstResponseErrorIsTheWires ==
    [][~failed /\ failed' => result' = ResponsesIn(wire).status]_responseVars

\* "Not enough data" is only said when every head, every whole response and
\* every body byte in the bytes fed so far has been returned.
NoResponseMeansIncomplete ==
    Idle /\ ~failed /\ result = "NeedData" /\ PeekLen = 0
        => ReturnedAll(ResponsesIn(Prefix(wire, sent)))

\* Behind a successful response to CONNECT not a byte is touched.
ResponseTunnelTransparent == ~failed => TunnelIntact(ResponsesIn(wire))

-----------------------------------------------------------------------------
\* The documentation of set_request_method: the response is framed for the
\* method that was announced for its request.
MethodHonoured == ~failed => IsPrefix(heads, ResponsesIn(wire).heads)

\* The documentation of mark_eof: the bytes left in the buffer are settled as
\* body, so that the message has all the bytes up to the end of the connection.
EofSettlesBody == ~failed => IsPrefix(done, ResponsesIn(wire).done)

-----------------------------------------------------------------------------
\* Instance.
MCField ==
    LET F(n, l) == [name |-> n, list |-> l]
    IN  [te |-> F("transfer-encoding", <<"chunked">>),
         gz |-> F("transfer-encoding", <<"gzip">>),
         cl1 |-> F("content-length", <<1>>), cl9 |-> F("content-length", <<9>>)]
MCHexVal == [c \in {"0", "1"} |-> IF c = "0" THEN 0 ELSE 1]
MCStartLine ==
    LET S(n, v) == [status |-> n, version |-> v]
    IN  [ok |-> S(200, "HTTP/1.1"), ok0 |-> S(200, "HTTP/1.0"),
         nc |-> S(204, "HTTP/1.1"), cont |-> S(100, "HTTP/1.1"),
         bad |-> S(600, "HTTP/1.1")]

L(text) == text \o <<CR, LF>>
Response(line, fs) == L(<<line>>) \o FlattenSeq([i \in DOMAIN fs |-> L(<<fs[i]>>)]) \o L(<< >>)

\* Responses that leave the connection usable, whatever the method was: to a
\* HEAD or CONNECT request there is no body behind the header section.
Good == {
    Response("nc", <<"te">>), Response("ok", <<"cl1">>), Response("ok", <<"cl1">>) \o <<"x">>,
    Response("ok", <<"te">>) \o L(<<"0">>) \o L(<< >>)}
Final == {
    Response("ok", << >>) \o <<"x", "x">>, Response("ok", <<"gz">>) \o <<"x", "x", "x", "x">>,
    Response("bad", << >>), Response("ok0", <<"te">>), Response("ok", <<"te", "cl1">>),
    Response("ok", <<"cl9">>)}

MCWires == Final \cup {g \o r : g \in Good, r \in Good \cup Final}
EofWires == {Response("ok", << >>) \o <<"x", "x">>}
InterimWires == {Response("cont", << >>) \o Response("ok", <<"cl1">>)}
=============================================================================
