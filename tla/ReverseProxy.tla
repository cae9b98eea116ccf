--------------------------- MODULE ReverseProxy ---------------------------
(***************************************************************************)
(* examples/http11_reverse_proxy: a task per client, which handles one     *)
(* request, and a pool of idle connections to the upstream that the tasks  *)
(* and a cleanup task share under a lock.  The lock is held for single     *)
(* operations on the pool only, so each of them is one action; everything  *)
(* between two of them interleaves.                                        *)
(*                                                                         *)
(* A message is a sequence of symbols: its head, the pieces of its body,   *)
(* and for a chunked body the last chunk with the trailers.  The decoders  *)
(* are used as RequestDecoder and ResponseDecoder show them to behave.     *)
(* The upstream server, the clients and the clock are external.            *)
(***************************************************************************)
EXTENDS Integers, Sequences, FiniteSets, SequencesExt

CONSTANTS
    Clients,
    Requests,       \* what the clients may ask for: functions client -> [method, body]
    Responses,      \* what the upstream may answer
    MaxConns,       \* bound: connections ever made
    MaxPerHost,     \* max_connections_per_host
    IdleTimeout, MaxLifetime,
    MaxTime,        \* bound on the clock
    Resettable      \* kinds of responses that may end with a reset

\* The names of fields: those the upstream uses and those the proxy adds.
UpstreamFields == UNION {r.headers \cup r.listed : r \in Responses}
FieldNames == UpstreamFields \cup {"content-length", "transfer-encoding", "connection", "allow"}

\* The head of a response, as the response decoder reports it.
Response ==
    [kind : {"None", "ContentLength", "Chunked", "CloseDelimited"}, body : Nat, status : Nat,
     keep : BOOLEAN, headers : SUBSET FieldNames, listed : SUBSET FieldNames, interim : BOOLEAN]

ASSUME ProxyAssumption ==
    /\ MaxConns \in Nat /\ MaxPerHost \in Nat
    /\ IdleTimeout \in Nat /\ MaxLifetime \in Nat /\ MaxTime \in Nat
    /\ Requests \subseteq [Clients -> [method : STRING, body : Nat]]
    /\ Responses \subseteq Response

Conns == 1..MaxConns
Nobody == 0

VARIABLES
    now,        \* the clock
    request,    \* what the clients ask for, one request each
    idle,       \* idle_connections of the one upstream, the last one is popped first
    created, last_used, \* of PooledConnection
    made,       \* how many connections have been made
    pc,         \* where the task of a client is
    received,   \* symbols of its request it has
    conn,       \* the connection it holds, or Nobody
    dbuf,       \* what its response decoder holds
    resp,       \* the head of the response it forwards
    out,        \* its BufWriter towards the client
    got,        \* what the client has received
    inbox, stream, end, \* per connection: requests at the upstream, bytes on
                        \* the way back, and whether it has been closed
    sent        \* history: what the upstream has sent for a client

pool == <<idle, created, last_used, made>>
task == <<received, conn, dbuf, resp, out, got>>
upstream == <<inbox, stream, end, sent>>
vars == <<now, request, pool, pc, task, upstream>>

NoResponse == [kind |-> "none"]
StatusHasBody(status) == status \notin (100..199) \cup {204, 304}

Init ==
    /\ request \in Requests
    /\ now = 0 /\ idle = << >> /\ made = 0
    /\ created = [k \in Conns |-> 0] /\ last_used = [k \in Conns |-> 0]
    /\ pc = [c \in Clients |-> "request"]
    /\ received = [c \in Clients |-> 0]
    /\ conn = [c \in Clients |-> Nobody]
    /\ dbuf = [c \in Clients |-> << >>]
    /\ resp = [c \in Clients |-> NoResponse]
    /\ out = [c \in Clients |-> << >>]
    /\ got = [c \in Clients |-> << >>]
    /\ inbox = [k \in Conns |-> << >>]
    /\ stream = [k \in Conns |-> << >>]
    /\ end = [k \in Conns |-> "open"]
    /\ sent = [c \in Clients |-> << >>]

Goto(c, where) == pc' = [pc EXCEPT ![c] = where]

\* The task ends; a connection it still holds is dropped, and with the
\* BufWriter what was not flushed.
Ends(c) ==
    /\ Goto(c, "done")
    /\ conn' = [conn EXCEPT ![c] = Nobody]
    /\ out' = [out EXCEPT ![c] = << >>]

HeadOf(c, r) == [req |-> c, t |-> "head", n |-> 0, r |-> r]
Data(c, i) == [req |-> c, t |-> "data", n |-> i, r |-> NoResponse]
LastChunk(c) == [req |-> c, t |-> "last", n |-> 0, r |-> NoResponse]

-----------------------------------------------------------------------------
(* handle_client                                                           *)

NotAllowed == [kind |-> "ContentLength", body |-> 0, status |-> 405, keep |-> FALSE,
               headers |-> {"content-length", "connection", "allow"}, listed |-> {}, interim |-> FALSE]

\* The next symbol of the request: its head, or a piece of its body.  A
\* CONNECT is refused; a complete request goes on to the upstream.
ReceiveRequest(c) ==
    /\ pc[c] = "request"
    /\ IF request[c].method = "CONNECT"
       THEN /\ got' = [got EXCEPT ![c] = <<HeadOf(c, NotAllowed)>>]
            /\ Ends(c)
            /\ UNCHANGED <<received, dbuf, resp>>
       ELSE /\ received' = [received EXCEPT ![c] = @ + 1]
            /\ Goto(c, IF received[c] = request[c].body THEN "acquire" ELSE "request")
            /\ UNCHANGED <<conn, dbuf, resp, out, got>>
    /\ UNCHANGED <<now, request, pool, upstream>>

\* The client closes before its request is complete: nothing is forwarded.
ClientDisconnects(c) ==
    /\ pc[c] = "request"
    /\ Ends(c)
    /\ UNCHANGED <<now, request, pool, upstream, received, dbuf, resp, got>>

-----------------------------------------------------------------------------
(* The pool.                                                               *)

IsValid(k) == now - last_used[k] < IdleTimeout /\ now - created[k] < MaxLifetime

\* try_acquire: pop until a connection is valid.
TryAcquire(c) ==
    LET valid == {i \in DOMAIN idle : IsValid(idle[i])}
        top == CHOOSE i \in valid : \A j \in valid : j <= i
    IN  /\ pc[c] = "acquire"
        /\ IF valid = {}
           THEN /\ idle' = << >>
                /\ Goto(c, "connect")
                /\ UNCHANGED <<conn, last_used>>
           ELSE /\ idle' = SubSeq(idle, 1, top - 1)
                /\ conn' = [conn EXCEPT ![c] = idle[top]]
                /\ last_used' = [last_used EXCEPT ![idle[top]] = now]
                /\ Goto(c, "send")
        /\ UNCHANGED <<now, request, created, made, received, dbuf, resp, out, got, upstream>>

\* create_connection, outside of the lock.
CreateConnection(c) ==
    /\ pc[c] = "connect" /\ made < MaxConns
    /\ made' = made + 1
    /\ conn' = [conn EXCEPT ![c] = made + 1]
    /\ created' = [created EXCEPT ![made + 1] = now]
    /\ last_used' = [last_used EXCEPT ![made + 1] = now]
    /\ Goto(c, "send")
    /\ UNCHANGED <<now, request, idle, received, dbuf, resp, out, got, upstream>>

ConnectFails(c) ==
    /\ pc[c] = "connect"
    /\ Ends(c)
    /\ UNCHANGED <<now, request, pool, received, dbuf, resp, got, upstream>>

\* release, after the exchange left the connection reusable.
Release(c) ==
    LET k == conn[c]
        \* last_used is now, so only the lifetime can have run out
        valid == 0 < IdleTimeout /\ now - created[k] < MaxLifetime
    IN  /\ pc[c] = "release"
        /\ last_used' = [last_used EXCEPT ![k] = now]
        /\ idle' = IF valid /\ Len(idle) < MaxPerHost THEN Append(idle, k) ELSE idle
        /\ Ends(c)
        /\ UNCHANGED <<now, request, created, made, received, dbuf, resp, got, upstream>>

\* cleanup_expired, by the task that wakes up every 30 seconds: retain keeps
\* the valid connections in their order.
CleanupExpired ==
    LET valid == {i \in DOMAIN idle : IsValid(idle[i])}
        n == Cardinality(valid)
    IN  /\ valid # DOMAIN idle
        /\ \E at \in [1..n -> valid] :
              /\ \A i, j \in 1..n : i < j => at[i] < at[j]
              /\ idle' = [i \in 1..n |-> idle[at[i]]]
        /\ UNCHANGED <<now, request, created, last_used, made, pc, task, upstream>>

-----------------------------------------------------------------------------
(* stream_response_on_connection                                           *)

\* write_all and flush; towards a peer that has closed, the bytes are lost or
\* the write fails.  request.encode() does not fail here: what it would refuse
\* ends the task as SendFails does, on a connection that is still open.
SendRequest(c) ==
    LET k == conn[c]
    IN  /\ pc[c] = "send"
        /\ inbox' = IF end[k] = "open" THEN [inbox EXCEPT ![k] = Append(@, c)] ELSE inbox
        /\ Goto(c, "head")
        /\ UNCHANGED <<now, request, pool, task, stream, end, sent>>

SendFails(c) ==
    /\ pc[c] = "send" /\ end[conn[c]] # "open"
    /\ Ends(c)
    /\ UNCHANGED <<now, request, pool, upstream, received, dbuf, resp, got>>

\* One read of the upstream returns the first n symbols on the way.
Reads(c, n) ==
    stream' = [stream EXCEPT ![conn[c]] = SubSeq(@, n + 1, Len(@))]

HopByHop == {"connection", "keep-alive", "proxy-authenticate", "proxy-authorization",
             "proxy-connection", "te", "transfer-encoding", "upgrade"}

\* The header section sent to the client: end-to-end fields, and the framing
\* that the body kind calls for.
ForwardedHeaders(c, r) ==
    ({h \in r.headers : h \notin HopByHop \cup r.listed} \ {"content-length", "transfer-encoding"})
        \cup (CASE r.kind = "ContentLength" -> {"content-length"}
                [] r.kind = "None" /\ request[c].method = "HEAD"
                     -> r.headers \cap {"content-length"}
                [] r.kind = "Chunked" -> {"transfer-encoding"}
                [] r.kind = "CloseDelimited" -> {"connection"}
                [] OTHER -> {})

\* encode_response_headers (EncodeResponseHeaders of Messages) compares the
\* Content-Length with the body of the response it is given, which has none.
\* The upstream is taken to send a reason phrase, without which Response::new
\* fails, and none of the fields that encode_response_headers forbids for 1xx,
\* 204 and 205: these responses would be dropped like the ones refused here.
HeadEncodes(c, r) ==
    "content-length" \in ForwardedHeaders(c, r) /\ StatusHasBody(r.status) => r.body = 0

CanReuse(r) == r.keep /\ r.kind # "CloseDelimited"

\* What decoder.take_remaining() gives of the bytes behind the head.
LeftoverLost(rest) == << >>    \* mutant: issue 0052
TakeRemaining(rest) == rest

\* The head arrives, with n - 1 symbols behind it in the same read; the head
\* for the client is written and flushed.  For a body that ends with the
\* connection what the decoder holds is taken out of it and written.  Anything
\* but a head is refused by the decoder, and a head that cannot be encoded
\* ends the exchange before anything is written.
ReadHead(c) ==
    LET k == conn[c]
    IN  /\ pc[c] = "head"
        /\ \E n \in 1..Len(stream[k]) :
             LET h == stream[k][1]
                 r == h.r
                 rest == SubSeq(stream[k], 2, n)
                 close == r.kind = "CloseDelimited"
             IN  IF h.t # "head" \/ ~HeadEncodes(c, r)
                 THEN Reads(c, n) /\ Ends(c) /\ UNCHANGED <<received, dbuf, resp, got>>
                 ELSE /\ Reads(c, n)
                      /\ resp' = [resp EXCEPT ![c] = r]
                      /\ got' = [got EXCEPT ![c] = Append(@,
                            [h EXCEPT !.r = [r EXCEPT !.headers = ForwardedHeaders(c, r)]])]
                      /\ out' = [out EXCEPT ![c] = IF close THEN TakeRemaining(rest) ELSE << >>]
                      /\ dbuf' = [dbuf EXCEPT ![c] = IF close THEN << >> ELSE rest]
                      /\ Goto(c, IF close THEN "until_close"
                                 ELSE IF r.kind = "None" THEN "finish" ELSE "body")
                      /\ UNCHANGED <<received, conn>>
        /\ UNCHANGED <<now, request, pool, inbox, end, sent>>

\* BufWriter::write_all: what does not fit pushes out what is buffered.
Write(c, x) ==
    \/ out' = [out EXCEPT ![c] = Append(@, x)] /\ UNCHANGED got
    \/ /\ out[c] # << >>
       /\ out' = [out EXCEPT ![c] = <<x>>]
       /\ got' = [got EXCEPT ![c] = @ \o out[c]]

\* The pieces of the body written so far: all that went out behind the head.
Pieces(c) == Len(got[c]) + Len(out[c]) - 1

\* Is the body complete with symbol x, the n-th piece?
Completes(r, x, n) == IF r.kind = "Chunked" THEN x.t = "last" ELSE n = r.body

\* mutant: what was written is not consumed
StreamBodyUnconsumed(c) ==
    LET x == dbuf[c][1]
    IN  /\ pc[c] = "body" /\ dbuf[c] # << >>
        /\ Write(c, x)
        /\ Goto(c, IF Completes(resp[c], x, Pieces(c) + 1) THEN "finish" ELSE "body")
        /\ UNCHANGED <<now, request, pool, received, conn, dbuf, resp, upstream>>

\* peek_body, consume_body and progress on what the decoder holds.
StreamBody(c) ==
    LET x == dbuf[c][1]
    IN  /\ pc[c] = "body" /\ dbuf[c] # << >>
        /\ Write(c, x)
        /\ dbuf' = [dbuf EXCEPT ![c] = Tail(@)]
        /\ Goto(c, IF Completes(resp[c], x, Pieces(c) + 1) THEN "finish" ELSE "body")
        /\ UNCHANGED <<now, request, pool, received, conn, resp, upstream>>

\* A body of length zero is complete as soon as progress() is asked.
EmptyBody(c) ==
    /\ pc[c] = "body" /\ resp[c].kind = "ContentLength" /\ resp[c].body = 0
    /\ Goto(c, "finish")
    /\ UNCHANGED <<now, request, pool, task, upstream>>

\* NeedData: read more.
ReadBody(c) ==
    LET k == conn[c]
    IN  /\ pc[c] = "body" /\ dbuf[c] = << >>
        /\ ~(resp[c].kind = "ContentLength" /\ resp[c].body = 0)
        /\ \E n \in 1..Len(stream[k]) :
              /\ Reads(c, n)
              /\ dbuf' = [dbuf EXCEPT ![c] = SubSeq(stream[k], 1, n)]
        /\ UNCHANGED <<now, request, pool, pc, received, conn, resp, out, got, inbox, end, sent>>

\* The loop that copies until the upstream closes.
CopyUntilClose(c) ==
    LET k == conn[c]
    IN  /\ pc[c] = "until_close" /\ stream[k] # << >>
        /\ Reads(c, 1)
        /\ Write(c, stream[k][1])
        /\ UNCHANGED <<now, request, pool, pc, received, conn, dbuf, resp, inbox, end, sent>>

\* mutant: read() == 0 in the body loop is taken for "nothing yet"
UpstreamEndedUnnoticed(c) ==
    LET k == conn[c]
    IN  /\ pc[c] \in {"head", "until_close"}
        /\ stream[k] = << >> /\ end[k] # "open"
        /\ Ends(c)
        /\ UNCHANGED <<now, request, pool, received, dbuf, resp, got, upstream>>

\* read() returns 0 or an error.  Only a body that ends with the connection
\* ends so, and not with an error.
UpstreamEnded(c) ==
    LET k == conn[c]
    IN  /\ pc[c] \in {"head", "body", "until_close"}
        /\ pc[c] = "body" => dbuf[c] = << >> /\ ~(resp[c].kind = "ContentLength" /\ resp[c].body = 0)
        /\ stream[k] = << >> /\ end[k] # "open"
        /\ IF pc[c] = "until_close" /\ end[k] = "fin"
           THEN Goto(c, "finish") /\ UNCHANGED <<conn, out>>
           ELSE Ends(c)
        /\ UNCHANGED <<now, request, pool, received, dbuf, resp, got, upstream>>

\* The last flush, and the verdict on the connection.
Finish(c) ==
    /\ pc[c] = "finish"
    /\ got' = [got EXCEPT ![c] = @ \o out[c]]
    /\ IF CanReuse(resp[c])
       THEN /\ Goto(c, "release")
            /\ out' = [out EXCEPT ![c] = << >>]
            /\ UNCHANGED conn
       ELSE Ends(c)
    /\ UNCHANGED <<now, request, pool, received, dbuf, resp, upstream>>

\* mutant: the connection is released on an error too
ClientGoneReleases(c) ==
    /\ pc[c] \in {"body", "until_close", "finish"}
    /\ Goto(c, "release")
    /\ out' = [out EXCEPT ![c] = << >>]
    /\ UNCHANGED <<now, request, pool, received, conn, dbuf, resp, got, upstream>>

\* A write to a client that has gone fails.
ClientGone(c) ==
    /\ pc[c] \in {"head", "body", "until_close", "finish"}
    /\ pc[c] = "head" => stream[conn[c]] # << >>
    /\ Goto(c, "gone")
    /\ conn' = [conn EXCEPT ![c] = Nobody]
    /\ out' = [out EXCEPT ![c] = << >>]
    /\ UNCHANGED <<now, request, pool, received, dbuf, resp, got, upstream>>

-----------------------------------------------------------------------------
(* The upstream and the clock.                                             *)

\* 103 Early Hints, ahead of the response itself.
Interim == [kind |-> "None", body |-> 0, status |-> 103, keep |-> TRUE,
            headers |-> {}, listed |-> {}, interim |-> FALSE]

\* A response as a sequence of symbols.
Message(c, r) ==
    (IF r.interim THEN <<HeadOf(c, Interim)>> ELSE << >>) \o <<HeadOf(c, r)>>
        \o [i \in 1..(IF r.kind = "None" THEN 0 ELSE r.body) |-> Data(c, i)]
        \o (IF r.kind = "Chunked" THEN <<LastChunk(c)>> ELSE << >>)

\* Responses that fit the request: to HEAD, and with certain statuses, there is
\* no body; body is then what Content-Length announces.
Fits(c, r) == r.kind = "None" <=> request[c].method = "HEAD" \/ ~StatusHasBody(r.status)

\* The upstream answers, wholly, or breaks off and closes.
Answer(k) ==
    /\ inbox[k] # << >> /\ end[k] = "open"
    /\ \E r \in {x \in Responses : Fits(inbox[k][1], x)} :
         LET m == Message(inbox[k][1], r)
         IN  \E n \in 0..Len(m) :
              /\ stream' = [stream EXCEPT ![k] = @ \o SubSeq(m, 1, n)]
              /\ sent' = [sent EXCEPT ![inbox[k][1]] = SubSeq(m, 1, n)]
              /\ IF n < Len(m)
                 THEN \E how \in {"fin"} \cup (IF r.kind \in Resettable THEN {"reset"} ELSE {}) :
                         end' = [end EXCEPT ![k] = how]
                 ELSE end' = [end EXCEPT ![k] = IF CanReuse(r) THEN "open" ELSE "fin"]
    /\ inbox' = [inbox EXCEPT ![k] = Tail(@)]
    /\ UNCHANGED <<now, request, pool, pc, task>>

\* It closes a connection that is idle.
CloseIdle(k) ==
    /\ k <= made /\ inbox[k] = << >> /\ end[k] = "open"
    /\ end' = [end EXCEPT ![k] = "fin"]
    /\ UNCHANGED <<now, request, pool, pc, task, inbox, stream, sent>>

Tick ==
    /\ now < MaxTime
    /\ now' = now + 1
    /\ UNCHANGED <<request, pool, pc, task, upstream>>

\* What a task does by itself.
Task(c) ==
    \/ ReceiveRequest(c) \/ TryAcquire(c) \/ CreateConnection(c) \/ ConnectFails(c)
    \/ SendRequest(c) \/ SendFails(c) \/ ReadHead(c) \/ StreamBody(c) \/ EmptyBody(c)
    \/ ReadBody(c) \/ CopyUntilClose(c) \/ UpstreamEnded(c) \/ Finish(c) \/ Release(c)

Next ==
    \/ \E c \in Clients : Task(c) \/ ClientDisconnects(c) \/ ClientGone(c)
    \/ \E k \in Conns : Answer(k) \/ CloseIdle(k)
    \/ CleanupExpired \/ Tick

\* Tasks run; the client sends its request and the upstream answers, or
\* closes, what it was asked.  The proxy itself has no timeouts.
Fairness ==
    /\ \A c \in Clients : WF_vars(Task(c))
    /\ \A k \in Conns : WF_vars(Answer(k))

Spec == Init /\ [][Next]_vars
FairSpec == Spec /\ Fairness

-----------------------------------------------------------------------------
(* Properties.                                                             *)

\* Whatever connection of the pool it was sent over, a client receives the
\* response to its own request and nothing else, in the order the upstream sent
\* it: a connection goes back to the pool (stream_response_on_connection, the
\* verdict can_reuse) only when nothing of the exchange is left on it.
OwnResponse ==
    \A c \in Clients : got[c] # << >> /\ request[c].method # "CONNECT" =>
        /\ got[c][1].req = c
        /\ IsPrefix(Tail(got[c]), Tail(sent[c]))

\* What the client has, read by the header section the proxy sent it.
TakenForComplete(c) ==
    LET h == got[c][1].r.headers
    IN  /\ got[c] # << >> /\ request[c].method # "CONNECT"
        /\ CASE resp[c].kind = "None" -> TRUE
             [] "transfer-encoding" \in h -> \E i \in DOMAIN got[c] : got[c][i].t = "last"
             [] "content-length" \in h -> Len(got[c]) - 1 >= resp[c].body
             [] OTHER -> pc[c] = "done"

\* A response that the client takes for complete is complete: by its length, by
\* the last chunk, or for a body that ends with the connection by having all the
\* bytes up to the upstream's close, those that came with the head (issue 0052)
\* included.
CompleteMeansWhole ==
    \A c \in Clients : TakenForComplete(c) =>
        Tail(got[c]) = (IF resp[c].kind = "CloseDelimited" THEN Tail(sent[c])
                        ELSE Tail(Message(c, resp[c])))

\* The idle connections are distinct, held by no task, at most MaxPerHost, and
\* quiet: no request on them is unanswered and no byte of an answer unread.
PoolDiscipline ==
    /\ Len(idle) <= MaxPerHost
    /\ \A i \in DOMAIN idle :
          /\ \A j \in DOMAIN idle : idle[i] = idle[j] => i = j
          /\ \A c \in Clients : conn[c] # idle[i]
          /\ inbox[idle[i]] = << >> /\ stream[idle[i]] = << >>

\* Every task ends, whatever the upstream answers and wherever it breaks off.
TasksEnd == \A c \in Clients : <>(pc[c] \in {"done", "gone"})

\* README.md:519: "chunked / content-length / close-delimited 対応".  A response
\* that the upstream sent whole, to a request it was asked for the first time,
\* reaches a client that stays.
ResponseForwarded ==
    \A c \in Clients :
        /\ pc[c] = "done" /\ sent[c] # << >>
        /\ sent[c] = Message(c, sent[c][1].r)
        => got[c] # << >>
=============================================================================
