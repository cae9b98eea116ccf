-------------------------- MODULE MCRequestDecoder --------------------------
(***************************************************************************)
(* TLC instance of RequestDecoder: short connections with one or two       *)
(* requests, compared with a reference that sees all bytes at once.        *)
(***************************************************************************)
EXTENDS RequestDecoder, WholeHead

\* The requests in w, after the heads and finished bodies that acc holds.
RECURSIVE RefRequests(_, _)

\* Behind the head h with framing k comes the body m.
RefBodied(acc, h, k, m) ==
    LET head == [head |-> [line |-> h.line, headers |-> h.headers], kind |-> k]
        after == [acc EXCEPT !.heads = Append(@, head)]
    IN  IF m.status = "Complete"
        THEN RefRequests(m.rest,
                 [after EXCEPT !.done = Append(@, [body |-> m.body,
                                                   trailers |-> m.trailers])])
        ELSE RefStop(after, m.body, m.status, m.rest)

RefFramed(acc, h, k, w) ==
    IF k.kind \in KindErrors THEN RefStop(acc, << >>, k.kind, w)
    ELSE RefBodied(acc, h, k, RefBody(h.rest, k, DeclaredTrailers(h.headers)))

RefKind(h, line) ==
    IF ~HostOk(h.headers, line.version) THEN Kind("InvalidData")
    ELSE IF line.method = "CONNECT" THEN Kind("Tunnel")
    ELSE RequestBodyKind(h.headers, line.version, MaxBody)

RefAfter(acc, h, w) ==
    IF h.status # "end" THEN RefStop(acc, << >>, h.status, w)
    ELSE RefFramed(acc, h, RefKind(h, StartLine[h.line]), w)

RefRequests(w, acc) == RefAfter(acc, RefHead(w, RequestLines), w)

RequestsIn(w) == RefRequests(w, [heads |-> << >>, done |-> << >>])

\* The caller uses one API only, and no call has failed yet.
Regular == api # "mixed" /\ ~failed

-----------------------------------------------------------------------------
\* Requests that follow each other on a connection are kept apart: the heads,
\* framings, bodies and trailers seen so far are those of the reference, in
\* order, however the bytes are cut and whichever API is used; no field,
\* trailer announcement or body byte of one request leaks into the next.
RequestsKeptApart == Regular => ReturnedOf(RequestsIn(wire))

\* The first error reported on a connection is the first error in its bytes:
\* fragmentation never causes one, and never hides one behind a later one.
FirstErrorIsTheWires ==
    [][Regular /\ failed' => result' = RequestsIn(wire).status]_requestVars

\* "Not enough data" is only said when it is true: every head and every
\* message that the bytes fed so far contain has been returned.
NoneMeansIncomplete ==
    Regular /\ Idle /\ result = "NeedData" /\ PeekLen = 0
        => ReturnedAll(RequestsIn(Prefix(wire, sent)))

\* After a CONNECT request not a byte behind its header section is touched:
\* take_remaining hands out exactly those bytes, in however many calls.
TunnelTransparent == Regular => TunnelIntact(RequestsIn(wire))

-----------------------------------------------------------------------------
\* Instance.
MCField ==
    LET F(n, l) == [name |-> n, list |-> l]
    IN  [h |-> F("host", <<"a">>), hbad |-> F("host", <<"invalid">>),
         te |-> F("transfer-encoding", <<"chunked">>),
         cl1 |-> F("content-length", <<1>>), cl0 |-> F("content-length", <<0>>),
         cl9 |-> F("content-length", <<9>>),
         tr |-> F("trailer", <<"etag">>), etag |-> F("etag", <<"e">>)]
MCHexVal == [c \in {"0", "1"} |-> IF c = "0" THEN 0 ELSE 1]
MCStartLine ==
    LET S(m, f, v) == [method |-> m, form |-> f, version |-> v]
    IN  [get |-> S("GET", "origin", "HTTP/1.1"), get0 |-> S("GET", "origin", "HTTP/1.0"),
         connect |-> S("CONNECT", "authority", "HTTP/1.1"),
         bad |-> S("GET", "authority", "HTTP/1.1")]

L(text) == text \o <<CR, LF>>
Request(line, fs) == L(<<line>>) \o FlattenSeq([i \in DOMAIN fs |-> L(<<fs[i]>>)]) \o L(<< >>)

\* Whole requests: one that leaves nothing behind, one that leaves trailers,
\* and the other framings; then every way to be refused.
Plain == Request("get0", << >>)
Trailing ==
    Request("get", <<"h", "te", "tr">>) \o L(<<"0">>) \o L(<<"etag">>) \o L(<< >>)
Good == {Plain, Trailing,
    Request("get", <<"h", "cl0">>),
    Request("get", <<"h", "cl1">>) \o <<"x">>,
    Request("get", <<"h", "te">>) \o L(<<"1">>) \o L(<<"x">>) \o L(<<"0">>) \o L(<< >>)}
Refused == {
    Request("bad", << >>), Request("obs", << >>), Request("get", << >>),
    Request("get", <<"h", "h">>), Request("get", <<"hbad">>),
    Request("get", <<"h", "te", "cl1">>) \o L(<<"0">>) \o L(<< >>),
    Request("get0", <<"te">>), Request("get", <<"h", "cl9">>),
    Request("get", <<"h", "x">>), Request("get", <<"h", "obs">>),
    Request("get", <<"h", "cl0", "cl0", "cl0">>),
    L(<<"get">>) \o L(<<"h", "SP", "SP">>),
    Request("get", <<"h", "te">>) \o L(<<"0">>) \o L(<<"etag">>) \o L(<< >>),
    Request("get", <<"h", "te">>) \o L(<<"x">>) }
Tunnels == {Request("connect", <<"h">>) \o L(<<"get">>),
            Request("connect", <<"h", "te">>) \o <<"x", CR, LF>>}

MCWires == {g \o r : g \in Good, r \in Good \cup Tunnels} \cup Tunnels
             \cup {g \o r : g \in {Plain, Trailing}, r \in Refused}
=============================================================================
