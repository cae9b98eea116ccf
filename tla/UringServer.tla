---------------------------- MODULE UringServer ----------------------------
(***************************************************************************)
(* The event loop of examples/http11_server_io_uring: one thread, a slab   *)
(* of connections, and a ring on which every accept, read, write, socket   *)
(* option and close is submitted and completes later, in an order the      *)
(* kernel chooses.  What ties a completion to its connection is the slab   *)
(* key in its user data.                                                   *)
(*                                                                         *)
(* What a client sends is a sequence of symbols: "hello" and "finished" of *)
(* the TLS handshake, then requests of two parts each, "get" (keep-alive)  *)
(* or "last" (Connection: close) followed by "rest"; "bad" is whatever TLS *)
(* or decode() refuses.  A response is two symbols, so that a write can be *)
(* partial.  rustls, the kernel and the clients are external.              *)
(***************************************************************************)
EXTENDS Integers, Sequences, FiniteSets, SequencesExt

CONSTANTS
    Clients,
    Setups,         \* what the clients send, and for whose sockets the kernel
                    \* refuses kTLS: a set of records [script, refused]
    MaxRequests,    \* DEFAULT_MAX_REQUESTS
    RingEntries,    \* RING_ENTRIES
    Slots, Fds,     \* slab keys and descriptors: bounds, at least one per client
    Tickets,        \* clients to which TLS writes session tickets after the handshake
    MaxFaults       \* bound: accepts that fail

\* The owner of what belongs to no client.
Closed == "none"

\* What a client sends: its part of the handshake, then requests of two parts
\* each; in the place of any of them something that is refused.
Symbols == {"hello", "finished", "get", "last", "rest", "bad"}
IsScript(sc) ==
    /\ sc \in Seq(Symbols) /\ sc # << >>
    /\ \A i \in DOMAIN sc :
          \/ sc[i] = "bad"
          \/ i = 1 /\ sc[i] = "hello"
          \/ i = 2 /\ sc[i] = "finished"
          \/ i > 2 /\ i % 2 = 1 /\ sc[i] \in {"get", "last"}
          \/ i > 2 /\ i % 2 = 0 /\ sc[i] = "rest"

ASSUME ServerAssumption ==
    /\ MaxRequests \in Nat \ {0} /\ RingEntries \in Nat \ {0} /\ MaxFaults \in Nat
    /\ Slots \in Seq(Nat) /\ Fds \subseteq Nat /\ Tickets \subseteq Clients
    /\ \A i, j \in DOMAIN Slots : Slots[i] = Slots[j] => i = j
    /\ IsFiniteSet(Clients) /\ Closed \notin Clients
    /\ Cardinality(Clients) <= Len(Slots) /\ Cardinality(Clients) <= Cardinality(Fds)
    /\ \A u \in Setups : \A c \in Clients : IsScript(u.script[c])

VARIABLES
    script,     \* what each client sends
    refused,    \* the clients for whose sockets the kernel refuses kTLS
    read,       \* how many of its symbols the server has read
    got,        \* what it has received
    gone,       \* the clients that have closed their end
    waiting,    \* the clients not yet accepted
    slab,       \* slab key -> Connection, or Vacant
    vacant,     \* the slab's list of vacant keys, next one first
    files,      \* descriptor -> client, or Closed
    inflight,   \* the submitted operations
    cq,         \* the completion queue
    faults,     \* failed accepts so far
    running     \* main() has not returned

vars == <<script, refused, read, got, gone, waiting, slab, vacant, files, inflight, cq, faults, running>>
world == <<script, refused, read, got, gone, waiting, files, faults>>

Vacant == [client |-> Closed]
KtlsOps == {"TCP_ULP", "TLS_TX", "TLS_RX"}

\* An operation: its kind, the user data (slab key), the descriptor and the
\* connection that submitted it.
Failure == [kind |-> "error"]
Eof == [kind |-> "eof"]
Success(val) == [kind |-> "ok", val |-> val]
Op(type, s, fd, c) == [type |-> type, slot |-> s, fd |-> fd, client |-> c]
ConnOp(type, s, conn) == Op(type, s, conn.fd, conn.client)

\* Connection::new
Connection(c, fd) ==
    [client |-> c, fd |-> fd, state |-> "HandshakeReading", handshaking |-> TRUE,
     plaintext |-> << >>, decoder |-> << >>, write |-> << >>, pending |-> << >>,
     count |-> 0, ktls |-> 0]

Init ==
    /\ \E u \in Setups : script = u.script /\ refused = u.refused
    /\ read = [c \in Clients |-> 0]
    /\ got = [c \in Clients |-> << >>]
    /\ gone = {} /\ waiting = Clients
    /\ slab = [s \in Range(Slots) |-> Vacant]
    /\ vacant = Slots
    /\ files = [f \in Fds |-> Closed]
    /\ inflight = <<Op("Accept", 0, 0, Closed)>>
    /\ cq = << >>
    /\ faults = 0 /\ running = TRUE

-----------------------------------------------------------------------------
(* Submitting.  The kernel's thread empties the submission queue on its    *)
(* own; a push finds it full only if that many operations are outstanding. *)
(* The error reaches main(), and the process ends.                         *)

Completed == cq' = Tail(cq)

Stops ==
    /\ running' = FALSE
    /\ UNCHANGED <<slab, vacant, inflight>>

Submit(slots, free, ops) ==
    \/ /\ slab' = slots
       /\ vacant' = free
       /\ inflight' = inflight \o ops
       /\ UNCHANGED running
    \/ Len(inflight) + Len(ops) > RingEntries /\ Stops

Continue(s, conn, ops) == Submit([slab EXCEPT ![s] = conn], vacant, ops)

\* Mutant: the slab entry is given back when the close is submitted.
CloseConnectionAtOnce(s, conn) ==
    Submit([slab EXCEPT ![s] = Vacant], <<s>> \o vacant, <<ConnOp("Close", s, conn)>>)

\* close_connection
CloseConnection(s, conn) == Continue(s, conn, <<ConnOp("Close", s, conn)>>)

-----------------------------------------------------------------------------
(* Requests and responses.                                                 *)

\* What TLS writes in the handshake: the answer to no request.
Flight == <<0, TRUE, 1>>

\* The response to the n-th request of a connection.
Response(n, keep) == [parts |-> <<<<n, keep, 1>>, <<n, keep, 2>>>>, keep |-> keep]

\* The loop over decode(), one step per symbol the decoder holds: rest is
\* what stays in it, and everything behind a response that closes stays too.
DecodeStep(acc, x) ==
    IF acc.failed \/ acc.closed THEN [acc EXCEPT !.rest = Append(@, x)]
    ELSE IF x = "bad" THEN [acc EXCEPT !.failed = TRUE]
    ELSE IF x # "rest" \/ acc.rest = << >> THEN [acc EXCEPT !.rest = Append(@, x)]
    ELSE LET n == acc.count + 1
             keep == acc.rest[1] = "get" /\ n < MaxRequests
         IN  [rest |-> << >>, out |-> Append(acc.out, Response(n, keep)), count |-> n,
              closed |-> ~keep, failed |-> FALSE]

DecodeSteps(bytes, count) ==
    LET acc[i \in Nat] ==
            IF i = 0
            THEN [rest |-> << >>, out |-> << >>, count |-> count, closed |-> FALSE, failed |-> FALSE]
            ELSE DecodeStep(acc[i - 1], bytes[i])
    IN  acc

DecodeLoop(bytes, count) == DecodeSteps(bytes, count)[Len(bytes)]

Decoded(conn, d) ==
    [conn EXCEPT !.decoder = d.rest, !.pending = @ \o d.out, !.count = d.count]

\* Start the next response of the queue, or read.
NextWrite(s, conn) ==
    IF conn.pending # << >>
    THEN LET next == Head(conn.pending)
             c1 == [conn EXCEPT !.pending = Tail(@), !.write = next.parts,
                                !.state = IF next.keep THEN "Writing" ELSE "Closing"]
         IN  Continue(s, c1, <<ConnOp("Write", s, c1)>>)
    ELSE Continue(s, [conn EXCEPT !.state = "Reading"], <<ConnOp("Read", s, conn)>>)

\* Mutant: what rustls has decrypted is dropped with it.
HandOffUndrained(s, conn) ==
    Continue(s, [conn EXCEPT !.plaintext = << >>, !.state = "EnablingKtls", !.ktls = 3],
             <<ConnOp("TCP_ULP", s, conn), ConnOp("TLS_TX", s, conn),
               ConnOp("TLS_RX", s, conn)>>)

\* Mutant: an error in what came with the handshake is returned to main().
HandOffFails(s, conn) ==
    LET d == DecodeLoop(conn.decoder \o conn.plaintext, conn.count)
        c1 == [Decoded(conn, d) EXCEPT !.plaintext = << >>]
    IN  IF d.failed THEN Stops
        ELSE Continue(s, [c1 EXCEPT !.state = "EnablingKtls", !.ktls = 3],
                      <<ConnOp("TCP_ULP", s, conn), ConnOp("TLS_TX", s, conn),
                        ConnOp("TLS_RX", s, conn)>>)

\* The handshake is over: what rustls has already decrypted goes to the
\* decoder (drain_and_feed_leftover), then the three options are submitted as
\* a chain.  Left out: a cipher suite or secrets that rustls does not give or
\* ktls does not know, errors that end the process as in Stops.
HandOff(s, conn) ==
    LET d == DecodeLoop(conn.decoder \o conn.plaintext, conn.count)
        c1 == [Decoded(conn, d) EXCEPT !.plaintext = << >>]
    IN  IF d.failed THEN CloseConnection(s, c1)
        ELSE Continue(s, [c1 EXCEPT !.state = "EnablingKtls", !.ktls = 3],
                      <<ConnOp("TCP_ULP", s, conn), ConnOp("TLS_TX", s, conn),
                        ConnOp("TLS_RX", s, conn)>>)

-----------------------------------------------------------------------------
(* The handlers of the main loop, one per completion.                      *)

Completion(types) == running /\ cq # << >> /\ Head(cq).op.type \in types /\ Completed

\* A completion whose connection is no longer in the slab is dropped.
ForNobody ==
    LET e == Head(cq)
    IN  /\ Completion({"Read", "Write"} \cup KtlsOps)
        /\ slab[e.op.slot] = Vacant
        /\ UNCHANGED <<world, slab, vacant, inflight, running>>

\* For the connection in the slot that the user data names.
ForConnection(types) ==
    Completion(types) /\ slab[Head(cq).op.slot] # Vacant /\ UNCHANGED world

AcceptFailed ==
    /\ Completion({"Accept"}) /\ Head(cq).res = Failure
    /\ Submit(slab, vacant, <<Op("Accept", 0, 0, Closed)>>)
    /\ UNCHANGED world

Accepted ==
    LET e == Head(cq)
        s == Head(vacant)
        conn == Connection(e.res.val.client, e.res.val.fd)
    IN  /\ Completion({"Accept"}) /\ e.res # Failure
        /\ Submit([slab EXCEPT ![s] = conn], Tail(vacant),
                  <<Op("Accept", 0, 0, Closed), ConnOp("Read", s, conn)>>)
        /\ UNCHANGED world

\* A read, write or option that failed, or the end of the input.
OperationFailed ==
    LET s == Head(cq).op.slot
    IN  /\ ForConnection({"Read", "Write"} \cup KtlsOps)
        /\ Head(cq).res.kind # "ok"
        /\ CloseConnection(s, slab[s])

\* handle_read in the handshake.  rustls keeps what follows "finished".
TlsRead ==
    LET s == Head(cq).op.slot
        data == Head(cq).res.val
        has(x) == \E i \in DOMAIN data : data[i] = x
        finished == ~slab[s].handshaking \/ has("finished")
        \* application data is what follows the client's part of the handshake;
        \* no read holds two parts, since a client waits for the server's flight
        app == IF Head(data) \in {"hello", "finished"} THEN Tail(data) ELSE data
        c1 == [slab[s] EXCEPT !.handshaking = ~finished, !.plaintext = @ \o app]
    IN  /\ ForConnection({"Read"}) /\ Head(cq).res.kind = "ok"
        /\ slab[s].state \in {"HandshakeReading", "HandshakeWriting"}
        /\ IF ~finished /\ has("bad") THEN CloseConnection(s, slab[s])
           ELSE IF has("hello") \/ (has("finished") /\ c1.client \in Tickets)
           THEN Continue(s, [c1 EXCEPT !.write = <<Flight>>, !.state = "HandshakeWriting"],
                         <<ConnOp("Write", s, c1)>>)
           ELSE IF finished THEN HandOff(s, c1)
           ELSE Continue(s, [c1 EXCEPT !.state = "HandshakeReading"], <<ConnOp("Read", s, c1)>>)

\* handle_read of requests.  An error of decode() is returned to main().
HttpRead ==
    LET s == Head(cq).op.slot
        data == Head(cq).res.val
        d == DecodeLoop(slab[s].decoder \o data, slab[s].count)
    IN  /\ ForConnection({"Read"}) /\ Head(cq).res.kind = "ok"
        /\ slab[s].state = "Reading"
        /\ IF d.failed THEN Stops ELSE NextWrite(s, Decoded(slab[s], d))

\* Mutant: a partial write is taken for a complete one.
WrittenShort ==
    LET s == Head(cq).op.slot
        c1 == [slab[s] EXCEPT !.write = << >>]
    IN  /\ ForConnection({"Write"}) /\ Head(cq).res.kind = "ok"
        /\ CASE c1.state = "HandshakeWriting" ->
                  IF c1.handshaking
                  THEN Continue(s, [c1 EXCEPT !.state = "HandshakeReading"],
                                <<ConnOp("Read", s, c1)>>)
                  ELSE HandOff(s, c1)
             [] c1.state = "Writing" -> NextWrite(s, c1)
             [] c1.state = "Closing" -> CloseConnection(s, [c1 EXCEPT !.pending = << >>])
             [] OTHER -> Continue(s, c1, << >>)

\* handle_write: the rest of the buffer, or what the state has next.
Written ==
    LET s == Head(cq).op.slot
        n == Head(cq).res.val
        c1 == [slab[s] EXCEPT !.write = SubSeq(@, n + 1, Len(@))]
    IN  /\ ForConnection({"Write"}) /\ Head(cq).res.kind = "ok"
        /\ IF c1.write # << >> THEN Continue(s, c1, <<ConnOp("Write", s, c1)>>)
           ELSE CASE c1.state = "HandshakeWriting" ->
                       IF c1.handshaking
                       THEN Continue(s, [c1 EXCEPT !.state = "HandshakeReading"],
                                     <<ConnOp("Read", s, c1)>>)
                       ELSE HandOff(s, c1)
                  [] c1.state = "Writing" -> NextWrite(s, c1)
                  [] c1.state = "Closing" ->
                       CloseConnection(s, [c1 EXCEPT !.pending = << >>])
                  [] OTHER -> Continue(s, c1, << >>)

\* handle_setsockopt_complete
OptionSet ==
    LET s == Head(cq).op.slot
        c1 == [slab[s] EXCEPT !.ktls = @ - 1]
    IN  /\ ForConnection(KtlsOps) /\ Head(cq).res.kind = "ok"
        /\ IF c1.ktls = 0 THEN NextWrite(s, c1) ELSE Continue(s, c1, << >>)

\* Whoever is in the slot leaves it.
Removed ==
    LET s == Head(cq).op.slot
    IN  /\ Completion({"Close"})
        /\ slab' = [slab EXCEPT ![s] = Vacant]
        /\ vacant' = IF slab[s] = Vacant THEN vacant ELSE <<s>> \o vacant
        /\ UNCHANGED <<world, inflight, running>>

Handle ==
    \/ AcceptFailed \/ Accepted \/ ForNobody \/ OperationFailed
    \/ TlsRead \/ HttpRead \/ Written \/ OptionSet \/ Removed

-----------------------------------------------------------------------------
(* The kernel and the clients.                                             *)

\* The operation at position i completes with a result.
Completes(i, res) ==
    /\ inflight' = RemoveAt(inflight, i)
    /\ cq' = Append(cq, [op |-> inflight[i], res |-> res])
    /\ UNCHANGED <<slab, vacant, running, script, refused>>

\* A client waits for the server's flight before it finishes the handshake.
Readable(c) ==
    LET sent == IF got[c] = << >> THEN SubSeq(script[c], 1, 1) ELSE script[c]
    IN  SubSeq(sent, read[c] + 1, Len(sent))

KernelAccept(i) ==
    LET free == {f \in Fds : files[f] = Closed}
        fd == CHOOSE f \in free : \A g \in free : f <= g
    IN  /\ inflight[i].type = "Accept"
        /\ \E c \in waiting :
              /\ Completes(i, Success([client |-> c, fd |-> fd]))
              /\ files' = [files EXCEPT ![fd] = c]
              /\ waiting' = waiting \ {c}
        /\ UNCHANGED <<read, got, gone, faults>>

KernelRead(i) ==
    LET c == inflight[i].client
    IN  /\ inflight[i].type = "Read"
        /\ \E n \in 1..Len(Readable(c)) :
              /\ Completes(i, Success(SubSeq(Readable(c), 1, n)))
              /\ read' = [read EXCEPT ![c] = @ + n]
        /\ UNCHANGED <<got, gone, waiting, files, faults>>

\* What is written is what the connection's buffer holds at that time; if the
\* connection has left the slab, the memory is no longer its.
KernelWrite(i) ==
    LET c == inflight[i].client
        conn == slab[inflight[i].slot]
        buf == IF conn.client = c THEN conn.write ELSE <<"freed">>
    IN  /\ inflight[i].type = "Write"
        /\ \E n \in 1..Len(buf) :
              /\ Completes(i, Success(n))
              /\ got' = IF c \in gone THEN got
                        ELSE [got EXCEPT ![c] = @ \o SubSeq(buf, 1, n)]
              /\ UNCHANGED <<read, gone, waiting, files, faults>>

\* A chain runs in order.
KernelSetOption(i) ==
    /\ inflight[i].type \in KtlsOps /\ inflight[i].client \notin refused
    /\ \A j \in 1..(i - 1) : ~(inflight[j].type \in KtlsOps /\ inflight[j].client = inflight[i].client)
    /\ Completes(i, Success(0))
    /\ UNCHANGED <<read, got, gone, waiting, files, faults>>

\* A link that fails cancels those behind it: all three complete with errors.
KernelRefusesKtls(i) ==
    LET chain(op) == op.type \in KtlsOps /\ op.client = inflight[i].client
        failed == SelectSeq(inflight, chain)
    IN  /\ inflight[i].type = "TCP_ULP" /\ inflight[i].client \in refused
        /\ inflight' = SelectSeq(inflight, LAMBDA op : ~chain(op))
        /\ cq' = cq \o [k \in DOMAIN failed |-> [op |-> failed[k], res |-> Failure]]
        /\ UNCHANGED <<slab, vacant, running, world>>

KernelClose(i) ==
    /\ inflight[i].type = "Close"
    /\ Completes(i, Success(0))
    /\ files' = [files EXCEPT ![inflight[i].fd] = Closed]
    /\ UNCHANGED <<read, got, gone, waiting, faults>>

\* The end of the input, and writes to a client that is gone.
KernelGone(i) ==
    /\ inflight[i].client \in gone
    /\ \/ inflight[i].type = "Read" /\ Completes(i, Eof)
       \/ inflight[i].type = "Write" /\ Completes(i, Failure)
    /\ UNCHANGED <<read, got, gone, waiting, files, faults>>

\* The listener does not block: an accept may come back with nothing.
KernelAcceptFails(i) ==
    /\ faults < MaxFaults
    /\ inflight[i].type = "Accept"
    /\ Completes(i, Failure)
    /\ faults' = faults + 1
    /\ UNCHANGED <<read, got, gone, waiting, files>>

ClientCloses(c) ==
    /\ c \notin waiting \cup gone
    /\ gone' = gone \cup {c}
    /\ UNCHANGED <<script, refused, read, got, waiting, slab, vacant, files, inflight, cq, faults, running>>

Kernel ==
    running /\ \E i \in DOMAIN inflight :
        \/ KernelAccept(i) \/ KernelRead(i) \/ KernelWrite(i) \/ KernelSetOption(i)
        \/ KernelRefusesKtls(i) \/ KernelClose(i) \/ KernelGone(i) \/ KernelAcceptFails(i)

Next ==
    \/ Handle
    \/ Kernel
    \/ running /\ \E c \in Clients : ClientCloses(c)

Spec == Init /\ [][Next]_vars

-----------------------------------------------------------------------------
(* Properties.  Where the kernel refuses kTLS the three failed options close *)
(* the connection three times, so most of them leave that case out.         *)

\* A submitted operation for the connection in slot s.
ForSlot(op, s) == op.slot = s /\ op.type # "Accept"

\* Those that have not completed, and completions that have not been handled.
Submitted(s) == {i \in DOMAIN inflight : ForSlot(inflight[i], s)}
Unhandled(s) == {i \in DOMAIN cq : ForSlot(cq[i].op, s)}

\* How many operations a connection waits for: the next one, or what is left
\* of the three socket options.
Awaited(conn) ==
    IF conn = Vacant THEN 0 ELSE IF conn.state = "EnablingKtls" THEN conn.ktls ELSE 1

\* Every operation belongs to the connection that is in its slot: there is
\* one, except while the three socket options are on their way, and a slot
\* that is given away has none.  So user data never names another connection,
\* no buffer is changed or freed under the kernel, and no connection is
\* forgotten without an operation that would wake it.
OneOperation ==
    running /\ refused = {} =>
        \A s \in DOMAIN slab :
            /\ \A i \in Submitted(s) : inflight[i].client = slab[s].client
            /\ \A i \in Unhandled(s) : cq[i].op.client = slab[s].client
            /\ Cardinality(Submitted(s)) + Cardinality(Unhandled(s)) = Awaited(slab[s])

\* Does the connection stay open after the n-th request, and after all up to it?
KeepsOpen(sc, n) == sc[2 * n + 1] = "get" /\ n < MaxRequests
StaysOpen(sc, n) == \A j \in 1..n : KeepsOpen(sc, j)

\* The k-th symbol of the responses.
Due(sc, k) == LET n == (k + 1) \div 2 IN <<n, KeepsOpen(sc, n), 2 - (k % 2)>>

\* What a client has received are f symbols of the handshake, then the first m
\* of the responses, none of them behind one that closes the connection.
Delivered(sc, g, f, m) ==
    /\ Len(g) = f + m
    /\ \A i \in 1..f : g[i] = Flight
    /\ \A k \in 1..m : g[f + k] = Due(sc, k) /\ StaysOpen(sc, (k - 1) \div 2)

\* RFC 9112 section 9.3.2 and 9.6, quoted at pending_writes: responses arrive
\* whole and in the order of the requests, however reads and writes are cut,
\* and nothing follows one that closes the connection.
ResponsesInOrder ==
    refused = {} =>
        \A c \in Clients : \E f \in 0..Len(got[c]) :
            Delivered(script[c], got[c], f, Len(got[c]) - f)

\* All that the client asked for, up to the request after which the server
\* closes, has been answered.
Answered(c) ==
    LET asked == Len(SelectSeq(script[c], LAMBDA x : x = "rest"))
        due == {n \in 1..asked : StaysOpen(script[c], n - 1)}
    IN  Len(SelectSeq(got[c], LAMBDA x : x # Flight)) = 2 * Cardinality(due)

\* Nothing is left of a client that is gone.
NoTrace(c) ==
    /\ \A s \in DOMAIN slab : slab[s].client # c
    /\ \A f \in Fds : files[f] # c
    /\ \A i \in DOMAIN inflight : inflight[i].client # c
    /\ \A i \in DOMAIN cq :
          /\ cq[i].op.client # c
          /\ cq[i].op.type = "Accept" /\ cq[i].res.kind = "ok" => cq[i].res.val.client # c

\* Nothing more happens by itself: all completions are handled, and the
\* operations left are an accept nobody asks for and reads from clients that
\* are there and silent.
Quiet ==
    /\ running /\ cq = << >>
    /\ \A i \in DOMAIN inflight :
          LET op == inflight[i]
          IN  \/ op.type = "Accept" /\ waiting = {}
              \/ op.type = "Read" /\ op.client \notin gone /\ Readable(op.client) = << >>

\* When nothing more happens by itself nobody has been forgotten.  A client
\* that stays has the answer to every request, and neither what came with the
\* handshake nor the tail of a pipeline was lost (issues 0048, 0049); slab
\* entry and descriptor of one that has gone are given back.  No run of the
\* server alone is endless, so every request is answered in the end.
QuietMeansServed ==
    Quiet /\ refused = {} =>
        \A c \in Clients :
            IF c \in gone THEN NoTrace(c)
            ELSE (\A i \in DOMAIN script[c] : script[c][i] # "bad") => Answered(c)

\* No room for the three operations a handler submits at most.
RingFull == Len(inflight) + 3 > RingEntries

\* "エラーは当該接続のクローズで局所化し、サーバプロセスは継続させる", which
\* CHANGES.md says of the bytes left over from the handshake, on the paths of
\* the read and of the write that ends it: what they hold closes that
\* connection at most.  The server stops only over a full ring, or over bytes
\* that decode() refuses once kTLS is on, for which nothing is promised.
LeftoverErrorsContained ==
    [][running /\ ~running' => RingFull \/ slab[Head(cq).op.slot].state = "Reading"]_vars
=============================================================================
