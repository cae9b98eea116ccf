------------------------- MODULE ReverseProxy_proofs -------------------------
(***************************************************************************)
(* Proofs about ReverseProxy: for every number of clients and connections, *)
(* every pool size and timeout and every set of responses.                 *)
(*                                                                         *)
(* The three invariants that the runs check hold together or not at all:   *)
(* a client gets its own response because the connection it takes from the *)
(* pool is quiet, the connection is quiet because the exchange before it   *)
(* was forwarded to its end, and that end is found because every symbol    *)
(* forwarded is a symbol of the one message the upstream sent.  ProxyInv   *)
(* says all of it: who owns a connection (Ownership), what is on the way   *)
(* on it (QuietConns) and, for each client, at which position of the       *)
(* message each buffer between the upstream and the client stands          *)
(* (Exchange).                                                             *)
(***************************************************************************)
EXTENDS ReverseProxy, SliceLemmas, FiniteSetTheorems

Symbols == [req : Clients, t : {"head", "data", "last"}, n : Nat, r : Response \cup {NoResponse}]

Early == {"request", "acquire", "connect", "send"}
Forwarding == {"body", "until_close", "finish", "release"}
Holding == {"send", "head"} \cup Forwarding
Places == Early \cup Forwarding \cup {"head", "done", "gone"}

ProxyTypeOK ==
    /\ now \in Nat /\ request \in Requests
    /\ made \in 0..MaxConns /\ idle \in Seq(1..made)
    /\ created \in [Conns -> Nat] /\ last_used \in [Conns -> Nat]
    /\ pc \in [Clients -> Places]
    /\ received \in [Clients -> Nat]
    /\ conn \in [Clients -> 0..made]
    /\ dbuf \in [Clients -> Seq(Symbols)] /\ out \in [Clients -> Seq(Symbols)]
    /\ got \in [Clients -> Seq(Symbols)] /\ sent \in [Clients -> Seq(Symbols)]
    /\ resp \in [Clients -> Response \cup {NoResponse}]
    /\ inbox \in [Conns -> Seq(Clients)]
    /\ stream \in [Conns -> Seq(Symbols)]
    /\ end \in [Conns -> {"open", "fin", "reset"}]

\* A connection is in the pool once, or held by one task, or by nobody.
Ownership ==
    /\ Len(idle) <= MaxPerHost
    /\ \A i, j \in DOMAIN idle : idle[i] = idle[j] => i = j
    /\ \A i \in DOMAIN idle : \A c \in Clients : conn[c] # idle[i]
    /\ \A c \in Clients : conn[c] # Nobody <=> pc[c] \in Holding
    /\ \A c, d \in Clients : conn[c] = conn[d] /\ conn[c] # Nobody => c = d

Quiet(k) == inbox[k] = << >> /\ stream[k] = << >>

\* Connections that are idle or not yet made are quiet; a request waits at the
\* upstream only while the task that sent it waits for the head.
QuietConns ==
    /\ \A i \in DOMAIN idle : Quiet(idle[i])
    /\ \A k \in Conns : k > made => Quiet(k)
    /\ \A k \in Conns : inbox[k] # << >> =>
          /\ end[k] = "open"
          /\ \E c \in Clients : inbox[k] = <<c>> /\ pc[c] = "head" /\ conn[c] = k

\* s is found in t behind the first p symbols.
FoundAt(s, t, p) == \A i \in 1..Len(s) : s[i] = t[p + i]

\* s and t agree behind the first symbol.
SameBody(s, t) == \A i \in 2..Len(s) : s[i] = t[i]

\* What the upstream has sent for c is the front of one message.
SentOf(c) ==
    sent[c] # << >> =>
        LET m == Message(c, sent[c][1].r)
        IN  /\ sent[c][1].r \in Responses
            /\ Len(sent[c]) <= Len(m)
            /\ FoundAt(sent[c], m, 0)

\* What the client has is the front of what was sent, its head rewritten.
Relayed(c) ==
    got[c] # << >> /\ request[c].method # "CONNECT" =>
        /\ Len(got[c]) <= Len(sent[c])
        /\ resp[c] = sent[c][1].r
        /\ got[c][1].req = c /\ got[c][1].t = "head"
        /\ got[c][1].r.headers = ForwardedHeaders(c, resp[c])
        /\ SameBody(got[c], sent[c])

\* Behind that, in this order: the BufWriter o, the decoder d and the connection
\* w hold the rest of s.
LaidOut(g, o, d, w, s) ==
    /\ g # << >> /\ SameBody(g, s)
    /\ FoundAt(o, s, Len(g))
    /\ FoundAt(d, s, Len(g) + Len(o))
    /\ FoundAt(w, s, Len(g) + Len(o) + Len(d))
    /\ Len(g) + Len(o) + Len(d) + Len(w) = Len(s)

InFlight(c) == LaidOut(got[c], out[c], dbuf[c], stream[conn[c]], sent[c])

Exchange(c) ==
    /\ SentOf(c) /\ Relayed(c)
    /\ request[c].method = "CONNECT" => pc[c] \in {"request", "done"}
    /\ pc[c] \in Early \cup {"head"} => got[c] = << >> /\ out[c] = << >> /\ dbuf[c] = << >>
    /\ pc[c] \in Early => sent[c] = << >>
    /\ pc[c] = "send" => Quiet(conn[c])
    /\ pc[c] = "head" => /\ stream[conn[c]] = sent[c]
                         /\ inbox[conn[c]] # << >> => sent[c] = << >>
    /\ pc[c] \in Forwarding => InFlight(c)
    /\ pc[c] = "body" => resp[c].kind \in {"ContentLength", "Chunked"}
    /\ pc[c] = "until_close" => resp[c].kind = "CloseDelimited" /\ dbuf[c] = << >>
    /\ pc[c] \in {"finish", "release"} => Len(got[c]) + Len(out[c]) = Len(sent[c])

Exchanges == \A c \in Clients : Exchange(c)

ProxyInv == ProxyTypeOK /\ Ownership /\ QuietConns /\ Exchanges

\* A body that ends with the connection: only such a response is ended with a
\* reset that may be, its connection is not reused, and a task that is done has
\* forwarded all of it.
Closing(c) ==
    /\ sent[c] # << >> /\ conn[c] # Nobody /\ end[conn[c]] = "reset"
          => sent[c][1].r.kind \in Resettable
    /\ pc[c] = "release" => resp[c].kind # "CloseDelimited"
    /\ /\ pc[c] = "done" /\ got[c] # << >> /\ request[c].method # "CONNECT"
       /\ resp[c].kind = "CloseDelimited"
       => Len(got[c]) = Len(sent[c])

CloseInv == \A c \in Clients : Closing(c)

\* The proxy takes the first head for the final response (PROJECT.json lists
\* what becomes of an interim one as a hazard).
FinalOnly == \A r \in Responses : ~r.interim

-----------------------------------------------------------------------------
(* Symbols, messages and positions.                                        *)

\* The field names that the proxy itself uses.
LEMMA OwnFields ==
    {"content-length", "transfer-encoding", "connection", "allow"} \subseteq FieldNames
  BY DEF FieldNames

LEMMA SymbolTypes ==
    ASSUME NEW c \in Clients
    PROVE  /\ NoResponse.kind = "none"
           /\ \A r \in Response : HeadOf(c, r) \in Symbols
           /\ \A i \in Nat : Data(c, i) \in Symbols
           /\ LastChunk(c) \in Symbols
           /\ \A r \in Response : r.kind \in {"None", "ContentLength", "Chunked", "CloseDelimited"}
  BY DEF Symbols, HeadOf, Data, LastChunk, NoResponse, Response

\* The length of a message and what stands where in it.
LEMMA MessagePositions ==
    ASSUME NEW c \in Clients, NEW r \in Responses, FinalOnly
    PROVE  LET m == Message(c, r)
               n == IF r.kind = "None" THEN 0 ELSE r.body
           IN  /\ m \in Seq(Symbols)
               /\ n \in Nat
               /\ Len(m) = 1 + n + (IF r.kind = "Chunked" THEN 1 ELSE 0)
               /\ m[1] = HeadOf(c, r)
               /\ \A i \in 2..(n + 1) : m[i].t = "data"
               /\ r.kind = "Chunked" => m[n + 2].t = "last"
<1> DEFINE n == IF r.kind = "None" THEN 0 ELSE r.body
           h == <<HeadOf(c, r)>>
           d == [i \in 1..n |-> Data(c, i)]
           l == IF r.kind = "Chunked" THEN <<LastChunk(c)>> ELSE << >>
<1>1. r \in Response /\ ~r.interim /\ r.body \in Nat
  BY ProxyAssumption DEF FinalOnly, Response
<1>2. n \in Nat
  BY <1>1
<1>3. h \in Seq(Symbols) /\ Len(h) = 1 /\ h[1] = HeadOf(c, r)
  BY <1>1, SymbolTypes
<1>4. /\ d \in Seq(Symbols) /\ Len(d) = n
      /\ \A i \in 1..n : d[i].t = "data"
  <2>1. \A i \in 1..n : Data(c, i) \in Symbols /\ Data(c, i).t = "data"
    BY <1>2, SymbolTypes DEF Data
  <2> QED
    BY <1>2, <2>1
<1>5. /\ l \in Seq(Symbols) /\ Len(l) = (IF r.kind = "Chunked" THEN 1 ELSE 0)
      /\ r.kind = "Chunked" => l[1].t = "last"
  <2>1. LastChunk(c) \in Symbols /\ LastChunk(c).t = "last"
    BY SymbolTypes DEF LastChunk
  <2> QED
    BY <2>1, EmptySeq
<1>6. Message(c, r) = ((<< >> \o h) \o d) \o l
  BY <1>1, Zenon DEF Message
<1>7. << >> \o h = h
  BY <1>3, ConcatEmptySeq
<1> HIDE DEF n, h, d, l
<1> DEFINE f == h \o d
<1>8. /\ f \in Seq(Symbols) /\ Len(f) = 1 + n
      /\ f[1] = HeadOf(c, r)
      /\ \A i \in 2..(n + 1) : f[i].t = "data"
  <2>1. /\ f \in Seq(Symbols)
        /\ Len(f) = Len(h) + Len(d)
        /\ \A i \in 1..(Len(h) + Len(d)) : f[i] = IF i <= Len(h) THEN h[i] ELSE d[i - Len(h)]
    BY <1>3, <1>4, ConcatProperties
  <2> HIDE DEF f
  <2>2. \A i \in 2..(n + 1) : f[i] = d[i - 1] /\ i - 1 \in 1..n
    BY <1>2, <1>3, <1>4, <2>1
  <2>3. f[1] = h[1]
    BY <1>2, <1>3, <1>4, <2>1
  <2> QED
    BY <1>2, <1>3, <1>4, <2>1, <2>2, <2>3
<1>9. Message(c, r) = f \o l
  BY <1>6, <1>7
<1> HIDE DEF f
<1>10. /\ f \o l \in Seq(Symbols)
       /\ Len(f \o l) = Len(f) + Len(l)
       /\ \A i \in 1..(Len(f) + Len(l)) : (f \o l)[i] = IF i <= Len(f) THEN f[i] ELSE l[i - Len(f)]
  BY <1>5, <1>8, ConcatProperties
<1>11. /\ \A i \in 1..(n + 1) : Message(c, r)[i] = f[i]
       /\ Len(Message(c, r)) = 1 + n + (IF r.kind = "Chunked" THEN 1 ELSE 0)
       /\ r.kind = "Chunked" => Message(c, r)[n + 2] = l[1]
  BY <1>2, <1>5, <1>8, <1>9, <1>10
<1>12. /\ Message(c, r) \in Seq(Symbols)
       /\ Message(c, r)[1] = HeadOf(c, r)
       /\ \A i \in 2..(n + 1) : Message(c, r)[i].t = "data"
       /\ r.kind = "Chunked" => Message(c, r)[n + 2].t = "last"
  <2>1. 1 \in 1..(n + 1) /\ \A i \in 2..(n + 1) : i \in 1..(n + 1)
    BY <1>2
  <2>2. Message(c, r) \in Seq(Symbols)
    BY <1>9, <1>10
  <2> QED
    BY <1>5, <1>8, <1>11, <2>1, <2>2, Zenon
<1> QED
  BY <1>2, <1>11, <1>12, Zenon DEF n

\* Reading moves a piece from the front of one buffer to the end of another.
LEMMA FoundDrop ==
    ASSUME NEW S, NEW s \in Seq(S), NEW t, NEW p \in Nat, FoundAt(s, t, p),
           NEW n \in Nat, n <= Len(s)
    PROVE  LET u == SubSeq(s, n + 1, Len(s))
           IN  u \in Seq(S) /\ Len(u) = Len(s) - n /\ FoundAt(u, t, p + n)
<1> DEFINE u == SubSeq(s, n + 1, Len(s))
<1>1. Len(s) \in Nat
  BY LenProperties
<1>2. u \in Seq(S) /\ Len(u) = Len(s) - n /\ \A i \in 1..(Len(s) - n) : u[i] = s[n + i]
  BY <1>1, Slice
<1> HIDE DEF u
<1>3. ASSUME NEW i \in 1..Len(u) PROVE u[i] = t[(p + n) + i]
  <2>1. i \in 1..(Len(s) - n) /\ n + i \in 1..Len(s) /\ p + (n + i) = (p + n) + i
    BY <1>1, <1>2
  <2> QED
    BY <1>2, <2>1 DEF FoundAt
<1> QED
  BY <1>2, <1>3 DEF FoundAt, u

LEMMA FoundFront ==
    ASSUME NEW S, NEW s \in Seq(S), NEW t, NEW p \in Nat, FoundAt(s, t, p),
           NEW n \in Nat, n <= Len(s)
    PROVE  LET u == SubSeq(s, 1, n)
           IN  u \in Seq(S) /\ Len(u) = n /\ FoundAt(u, t, p)
<1> DEFINE u == SubSeq(s, 1, n)
<1>1. Len(s) \in Nat
  BY LenProperties
<1>2. u \in Seq(S) /\ Len(u) = n /\ \A i \in 1..n : u[i] = s[i]
  BY <1>1, Slice
<1> HIDE DEF u
<1>3. \A i \in 1..Len(u) : i \in 1..Len(s) /\ i \in 1..n
  BY <1>1, <1>2
<1> QED
  BY <1>2, <1>3 DEF FoundAt, u

LEMMA FoundConcat ==
    ASSUME NEW S, NEW s \in Seq(S), NEW u \in Seq(S), NEW t, NEW p \in Nat,
           FoundAt(s, t, p), FoundAt(u, t, p + Len(s))
    PROVE  s \o u \in Seq(S) /\ Len(s \o u) = Len(s) + Len(u) /\ FoundAt(s \o u, t, p)
<1> DEFINE v == s \o u
<1>1. Len(s) \in Nat /\ Len(u) \in Nat
  BY LenProperties
<1>2. /\ v \in Seq(S) /\ Len(v) = Len(s) + Len(u)
      /\ \A i \in 1..(Len(s) + Len(u)) : v[i] = IF i <= Len(s) THEN s[i] ELSE u[i - Len(s)]
  BY ConcatProperties
<1> HIDE DEF v
<1>3. ASSUME NEW i \in 1..Len(v) PROVE v[i] = t[p + i]
  <2>1. CASE i <= Len(s)
    BY <1>1, <1>2, <2>1 DEF FoundAt
  <2>2. CASE i > Len(s)
    <3>1. i - Len(s) \in 1..Len(u) /\ (p + Len(s)) + (i - Len(s)) = p + i
      BY <1>1, <1>2, <2>2
    <3>2. v[i] = u[i - Len(s)]
      BY <1>1, <1>2, <2>2
    <3>3. u[i - Len(s)] = t[(p + Len(s)) + (i - Len(s))]
      BY <3>1 DEF FoundAt
    <3> QED
      BY <3>1, <3>2, <3>3
  <2> QED
    BY <1>1, <1>2, <2>1, <2>2
<1> QED
  BY <1>2, <1>3 DEF FoundAt, v

LEMMA FoundOne ==
    ASSUME NEW S, NEW x \in S, NEW t, NEW p \in Nat, x = t[p + 1]
    PROVE  <<x>> \in Seq(S) /\ Len(<<x>>) = 1 /\ FoundAt(<<x>>, t, p)
  BY DEF FoundAt

LEMMA FoundNone ==
    ASSUME NEW S, NEW t, NEW p
    PROVE  << >> \in Seq(S) /\ Len(<< >>) = 0 /\ FoundAt(<< >>, t, p)
  BY DEF FoundAt

-----------------------------------------------------------------------------
(* What a step of one task leaves alone.                                   *)

LEMMA ConnRanges ==
    ASSUME ProxyTypeOK
    PROVE  /\ made \in Nat /\ MaxConns \in Nat /\ made <= MaxConns
           /\ \A k \in 1..made : k \in Conns /\ k # Nobody /\ k \in Nat
           /\ Len(idle) \in Nat /\ DOMAIN idle = 1..Len(idle)
           /\ \A i \in DOMAIN idle : idle[i] \in 1..made
           /\ \A c \in Clients : conn[c] \in 0..made /\ (conn[c] # Nobody => conn[c] \in 1..made)
<1>1. made \in Nat /\ MaxConns \in Nat /\ made <= MaxConns
  BY ProxyAssumption DEF ProxyTypeOK
<1>2. idle \in Seq(1..made) /\ conn \in [Clients -> 0..made]
  BY DEF ProxyTypeOK
<1>3. Len(idle) \in Nat /\ DOMAIN idle = 1..Len(idle) /\ \A i \in DOMAIN idle : idle[i] \in 1..made
  BY <1>2, LenProperties, ElementOfSeq
<1> QED
  BY <1>1, <1>2, <1>3 DEF Conns, Nobody

\* The step changes nothing that belongs to another task, and of the
\* connections at most the bytes on the way on its own.
OnlyOf(c) ==
    /\ UNCHANGED <<now, request, pool, inbox, end, sent>>
    /\ \A d \in Clients \ {c} :
          /\ pc'[d] = pc[d] /\ conn'[d] = conn[d] /\ dbuf'[d] = dbuf[d]
          /\ resp'[d] = resp[d] /\ out'[d] = out[d] /\ got'[d] = got[d]
    /\ \A k \in Conns : k # conn[c] => stream'[k] = stream[k]

\* An exchange only depends on the task's own variables and connection.
LEMMA ExchangeFrame ==
    ASSUME ProxyInv, NEW d \in Clients, request' = request,
           pc'[d] = pc[d], conn'[d] = conn[d], dbuf'[d] = dbuf[d], resp'[d] = resp[d],
           out'[d] = out[d], got'[d] = got[d], sent'[d] = sent[d],
           pc[d] \in Holding => stream'[conn[d]] = stream[conn[d]] /\ inbox'[conn[d]] = inbox[conn[d]]
    PROVE  Exchange(d)'
<1>1. Exchange(d)
  BY DEF ProxyInv, Exchanges
<1>2. Relayed(d)' /\ SentOf(d)'
  <2>1. ForwardedHeaders(d, resp[d])' = ForwardedHeaders(d, resp[d])
    BY DEF ForwardedHeaders
  <2>2. \A r : Message(d, r)' = Message(d, r)
    BY DEF Message
  <2> QED
    BY <1>1, <2>1, <2>2 DEF Exchange, Relayed, SentOf
<1>3. pc[d] \in Forwarding => InFlight(d)'
  BY <1>1 DEF Exchange, InFlight, Holding
<1>4. pc[d] = "send" => Quiet(conn[d])'
  BY <1>1 DEF Exchange, Quiet, Holding
<1> QED
  BY <1>1, <1>2, <1>3, <1>4 DEF Exchange, Holding

\* A step of a task that keeps or drops its connection: what it does to its
\* own exchange is all there is to show.
LEMMA TaskStep ==
    ASSUME ProxyInv, NEW c \in Clients, OnlyOf(c), ProxyTypeOK',
           conn'[c] \in {conn[c], Nobody}, conn'[c] # Nobody <=> pc'[c] \in Holding,
           pc[c] = "head" => inbox[conn[c]] = << >>,
           Exchange(c)'
    PROVE  ProxyInv'
<1>1. ProxyTypeOK /\ Ownership /\ QuietConns /\ Exchanges
  BY DEF ProxyInv
<1>2. Ownership'
  <2>1. idle' = idle /\ \A d \in Clients \ {c} : conn'[d] = conn[d] /\ pc'[d] = pc[d]
    BY DEF OnlyOf, pool
  <2>2. \A i \in DOMAIN idle : idle[i] # Nobody
    BY <1>1, ConnRanges
  <2>3. \A d \in Clients : conn'[d] \in {conn[d], Nobody}
    BY <2>1
  <2> QED
    BY <1>1, <2>1, <2>2, <2>3 DEF Ownership
<1>3. QuietConns'
  <2>1. \A k \in Conns : k # conn[c] => Quiet(k)' = Quiet(k)
    BY DEF OnlyOf, Quiet
  <2>2. ASSUME NEW i \in DOMAIN idle PROVE Quiet(idle[i])'
    <3>1. idle[i] \in Conns /\ idle[i] # conn[c]
      BY <1>1, ConnRanges DEF Ownership
    <3>2. Quiet(idle[i])
      BY <1>1 DEF QuietConns
    <3>3. idle' = idle
      BY DEF OnlyOf, pool
    <3> QED
      BY <2>1, <3>1, <3>2, <3>3
  <2>3. ASSUME NEW k \in Conns, k > made PROVE Quiet(k)'
    <3>1. k # conn[c]
      BY <1>1, <2>3, ConnRanges
    <3> QED
      BY <1>1, <2>1, <2>3, <3>1 DEF QuietConns
  <2>4. ASSUME NEW k \in Conns, inbox[k] # << >>
        PROVE  /\ end[k] = "open"
               /\ \E d \in Clients : inbox[k] = <<d>> /\ pc'[d] = "head" /\ conn'[d] = k
    <3>1. PICK d \in Clients : inbox[k] = <<d>> /\ pc[d] = "head" /\ conn[d] = k
      BY <1>1, <2>4 DEF QuietConns
    <3>2. d # c
      BY <2>4, <3>1
    <3> QED
      BY <1>1, <2>4, <3>1, <3>2 DEF OnlyOf, QuietConns
  <2> QED
    BY <2>2, <2>3, <2>4 DEF QuietConns, OnlyOf, pool
<1>4. ASSUME NEW d \in Clients PROVE Exchange(d)'
  <2>1. CASE d = c
    BY <2>1
  <2>2. CASE d # c
    <3>1. pc[d] \in Holding => conn[d] \in Conns /\ conn[d] # conn[c]
      BY <1>1, <2>2, ConnRanges DEF Ownership
    <3> QED
      BY <2>2, <3>1, ExchangeFrame DEF OnlyOf
  <2> QED
    BY <2>1, <2>2
<1> QED
  BY <1>2, <1>3, <1>4 DEF ProxyInv, Exchanges

\* A task that ends drops its connection, unread bytes and all.
LEMMA DropStep ==
    ASSUME ProxyInv, NEW c \in Clients, NEW w \in {"done", "gone"},
           pc' = [pc EXCEPT ![c] = w], conn' = [conn EXCEPT ![c] = Nobody],
           out' = [out EXCEPT ![c] = << >>], UNCHANGED <<now, request, pool, received, dbuf, resp, inbox, end, sent>>,
           got' \in [Clients -> Seq(Symbols)], \A d \in Clients \ {c} : got'[d] = got[d],
           stream' \in [Conns -> Seq(Symbols)], \A k \in Conns : k # conn[c] => stream'[k] = stream[k],
           request[c].method = "CONNECT" => w = "done",
           pc[c] = "head" => inbox[conn[c]] = << >>,
           Relayed(c)'
    PROVE  ProxyInv'
<1>1. ProxyTypeOK /\ Exchange(c)
  BY DEF ProxyInv, Exchanges
<1>2. /\ pc'[c] = w /\ conn'[c] = Nobody /\ out'[c] = << >>
      /\ \A d \in Clients \ {c} : pc'[d] = pc[d] /\ conn'[d] = conn[d] /\ out'[d] = out[d]
  BY <1>1 DEF ProxyTypeOK
<1>3. OnlyOf(c)
  BY <1>2 DEF OnlyOf
<1>4. ProxyTypeOK'
  <2>1. << >> \in Seq(Symbols) /\ w \in Places /\ made' = made /\ made \in Nat /\ Nobody \in 0..made
    BY <1>1, ConnRanges, EmptySeq DEF Places, pool, Nobody
  <2> QED
    BY <1>1, <2>1 DEF ProxyTypeOK, pool
<1>5. SentOf(c)'
  <2>1. \A r : Message(c, r)' = Message(c, r)
    BY DEF Message
  <2> QED
    BY <1>1, <2>1 DEF Exchange, SentOf
<1>6. Exchange(c)'
  BY <1>2, <1>5 DEF Exchange, Early, Forwarding
<1>7. conn'[c] # Nobody <=> pc'[c] \in Holding
  BY <1>2 DEF Holding, Forwarding
<1> QED
  BY <1>2, <1>3, <1>4, <1>6, <1>7, TaskStep

LEMMA ReceiveRequestPreserves ==
    ASSUME ProxyInv, NEW c \in Clients, ReceiveRequest(c)
    PROVE  ProxyInv'
<1>1. ProxyTypeOK /\ Exchange(c)
  BY DEF ProxyInv, Exchanges
<1>2. CASE request[c].method = "CONNECT"
  <2>1. /\ got' = [got EXCEPT ![c] = <<HeadOf(c, NotAllowed)>>]
        /\ Ends(c)
        /\ UNCHANGED <<now, request, pool, received, dbuf, resp, upstream>>
    BY <1>2 DEF ReceiveRequest
  <2>2. <<HeadOf(c, NotAllowed)>> \in Seq(Symbols)
    <3>1. NotAllowed \in Response
      <4>1. NotAllowed.headers \in SUBSET FieldNames /\ NotAllowed.listed \in SUBSET FieldNames
        BY OwnFields DEF NotAllowed
      <4> QED
        BY <4>1 DEF NotAllowed, Response
    <3>2. HeadOf(c, NotAllowed) \in Symbols
      BY <3>1, SymbolTypes
    <3> QED
      BY <3>2
  <2>3. got' \in [Clients -> Seq(Symbols)] /\ \A d \in Clients \ {c} : got'[d] = got[d]
    BY <1>1, <2>1, <2>2 DEF ProxyTypeOK
  <2>4. Relayed(c)'
    BY <1>2, <2>1 DEF Relayed
  <2>5. pc[c] # "head"
    BY DEF ReceiveRequest
  <2> QED
    BY <1>1, <2>1, <2>3, <2>4, <2>5, DropStep DEF Ends, Goto, upstream, ProxyTypeOK
<1>3. CASE request[c].method # "CONNECT"
  <2>1. /\ pc[c] = "request"
        /\ received' = [received EXCEPT ![c] = @ + 1]
        /\ pc' = [pc EXCEPT ![c] = IF received[c] = request[c].body THEN "acquire" ELSE "request"]
        /\ UNCHANGED <<now, request, pool, conn, dbuf, resp, out, got, inbox, stream, end, sent>>
    BY <1>3 DEF ReceiveRequest, Goto, upstream
  <2>2. /\ pc'[c] \in {"acquire", "request"}
        /\ \A d \in Clients \ {c} : pc'[d] = pc[d]
    BY <1>1, <2>1 DEF ProxyTypeOK
  <2>3. ProxyTypeOK'
    <3>1. pc' \in [Clients -> Places]
      BY <1>1, <2>1 DEF ProxyTypeOK, Places, Early
    <3>2. received' \in [Clients -> Nat]
      BY <1>1, <2>1 DEF ProxyTypeOK
    <3> QED
      BY <1>1, <2>1, <3>1, <3>2 DEF ProxyTypeOK, pool
  <2>4. OnlyOf(c)
    BY <2>1, <2>2 DEF OnlyOf
  <2>5. Exchange(c)'
    <3>1. SentOf(c)' /\ Relayed(c)'
      BY <1>1, <2>1, EmptySeq DEF Exchange, SentOf, Relayed, Early
    <3> QED
      BY <1>1, <1>3, <2>1, <2>2, <3>1 DEF Exchange, Early, Forwarding
  <2>6. conn'[c] = conn[c] /\ conn[c] = Nobody
    BY <2>1 DEF ProxyInv, Ownership, Holding, Forwarding
  <2>7. conn'[c] # Nobody <=> pc'[c] \in Holding
    BY <2>2, <2>6 DEF Holding, Forwarding
  <2> QED
    BY <2>1, <2>3, <2>4, <2>5, <2>6, <2>7, TaskStep
<1> QED
  BY <1>2, <1>3

\* The ends of a task that nothing but Relayed has to be shown for.
LEMMA EndsPreserves ==
    ASSUME ProxyInv, NEW c \in Clients,
           ClientDisconnects(c) \/ ConnectFails(c) \/ SendFails(c) \/ ClientGone(c)
    PROVE  ProxyInv'
<1>1. ProxyTypeOK /\ Exchange(c)
  BY DEF ProxyInv, Exchanges
<1>2. PICK w \in {"done", "gone"} : pc' = [pc EXCEPT ![c] = w] /\ (pc[c] = "request" => w = "done")
  BY DEF ClientDisconnects, ConnectFails, SendFails, ClientGone, Ends, Goto
<1>3. /\ conn' = [conn EXCEPT ![c] = Nobody] /\ out' = [out EXCEPT ![c] = << >>]
      /\ UNCHANGED <<now, request, pool, received, dbuf, resp, got, inbox, stream, end, sent>>
      /\ pc[c] \in {"request", "connect", "send", "head"} \cup Forwarding
  BY DEF ClientDisconnects, ConnectFails, SendFails, ClientGone, Ends, upstream, Forwarding
<1>4. Relayed(c)'
  <2>1. ForwardedHeaders(c, resp[c])' = ForwardedHeaders(c, resp[c])
    BY <1>3 DEF ForwardedHeaders
  <2> QED
    BY <1>1, <1>3, <2>1 DEF Exchange, Relayed
<1>5. request[c].method = "CONNECT" => w = "done"
  BY <1>1, <1>2, <1>3 DEF Exchange, Forwarding
<1>6. pc[c] = "head" => inbox[conn[c]] = << >>
  <2>1. pc[c] = "head" => stream[conn[c]] # << >> /\ stream[conn[c]] = sent[c]
    BY <1>1 DEF ClientDisconnects, ConnectFails, SendFails, ClientGone, Exchange
  <2> QED
    BY <1>1, <2>1 DEF Exchange
<1> QED
  BY <1>1, <1>2, <1>3, <1>4, <1>5, <1>6, DropStep DEF ProxyTypeOK

-----------------------------------------------------------------------------
(* Forwarding.                                                             *)

\* The first n symbols of s, taken apart as ReadHead takes them.
LEMMA HeadSplit ==
    ASSUME NEW S, NEW s \in Seq(S), NEW n \in 1..Len(s)
    PROVE  LET rest == SubSeq(s, 2, n)
               w == SubSeq(s, n + 1, Len(s))
           IN  /\ rest \in Seq(S) /\ Len(rest) = n - 1 /\ FoundAt(rest, s, 1)
               /\ w \in Seq(S) /\ Len(w) = Len(s) - n /\ FoundAt(w, s, n)
<1> DEFINE rest == SubSeq(s, 2, n)
           w == SubSeq(s, n + 1, Len(s))
<1>1. Len(s) \in Nat /\ n \in Nat /\ n <= Len(s) /\ n >= 1
  BY LenProperties
<1>2. rest \in Seq(S) /\ Len(rest) = n - 1 /\ \A i \in 1..(n - 1) : rest[i] = s[1 + i]
  <2>1. /\ rest \in Seq(S) /\ Len(rest) = IF 2 <= n THEN n - 2 + 1 ELSE 0
        /\ \A i \in 1..(n - 2 + 1) : rest[i] = s[2 + i - 1]
    BY <1>1, Slice
  <2> HIDE DEF rest
  <2> QED
    BY <1>1, <2>1
<1>3. w \in Seq(S) /\ Len(w) = Len(s) - n /\ \A i \in 1..(Len(s) - n) : w[i] = s[n + i]
  BY <1>1, Slice
<1> QED
  BY <1>2, <1>3 DEF FoundAt

\* The header section for the client is made of known fields.
LEMMA ForwardedTypes ==
    ASSUME NEW c, NEW r \in Response
    PROVE  /\ ForwardedHeaders(c, r) \in SUBSET FieldNames
           /\ [r EXCEPT !.headers = ForwardedHeaders(c, r)] \in Response
<1>1. r.headers \in SUBSET FieldNames
  BY DEF Response
<1> DEFINE framing == CASE r.kind = "ContentLength" -> {"content-length"}
                        [] r.kind = "None" /\ request[c].method = "HEAD"
                             -> r.headers \cap {"content-length"}
                        [] r.kind = "Chunked" -> {"transfer-encoding"}
                        [] r.kind = "CloseDelimited" -> {"connection"}
                        [] OTHER -> {}
<1>2. framing \in SUBSET FieldNames
  BY OwnFields
<1>3. ForwardedHeaders(c, r)
        = ({h \in r.headers : h \notin HopByHop \cup r.listed} \ {"content-length", "transfer-encoding"})
              \cup framing
  BY DEF ForwardedHeaders
<1> HIDE DEF framing
<1>4. ForwardedHeaders(c, r) \in SUBSET FieldNames
  BY <1>1, <1>2, <1>3
<1> QED
  BY <1>4 DEF Response

\* The next symbol of s goes into the BufWriter o, behind what the client has.
LEMMA Buffered ==
    ASSUME NEW S, NEW g \in Seq(S), NEW o \in Seq(S), NEW s, NEW x \in S,
           FoundAt(o, s, Len(g)), x = s[Len(g) + Len(o) + 1]
    PROVE  LET u == Append(o, x)
           IN  u \in Seq(S) /\ Len(u) = Len(o) + 1 /\ FoundAt(u, s, Len(g))
<1>1. Len(g) \in Nat /\ Len(o) \in Nat
  BY LenProperties
<1>2. Append(o, x) = o \o <<x>>
  BY AppendIsConcat
<1>3. <<x>> \in Seq(S) /\ Len(<<x>>) = 1 /\ FoundAt(<<x>>, s, Len(g) + Len(o))
  BY <1>1, FoundOne
<1>4. /\ o \o <<x>> \in Seq(S) /\ Len(o \o <<x>>) = Len(o) + Len(<<x>>)
      /\ FoundAt(o \o <<x>>, s, Len(g))
  BY <1>1, <1>3, FoundConcat, Zenon
<1> QED
  BY <1>2, <1>3, <1>4, Zenon

\* Or what is in the BufWriter is pushed out to the client.
LEMMA Flushed ==
    ASSUME NEW S, NEW g \in Seq(S), NEW o \in Seq(S), NEW s, g # << >>,
           FoundAt(o, s, Len(g)), SameBody(g, s)
    PROVE  /\ g \o o \in Seq(S) /\ Len(g \o o) = Len(g) + Len(o)
           /\ g \o o # << >> /\ (g \o o)[1] = g[1]
           /\ SameBody(g \o o, s)
<1> DEFINE v == g \o o
<1>1. Len(g) \in Nat /\ Len(o) \in Nat /\ Len(g) > 0
  BY LenProperties, EmptySeq
<1>2. /\ v \in Seq(S) /\ Len(v) = Len(g) + Len(o)
      /\ \A i \in 1..(Len(g) + Len(o)) : v[i] = IF i <= Len(g) THEN g[i] ELSE o[i - Len(g)]
  BY ConcatProperties
<1> HIDE DEF v
<1>3. v # << >> /\ v[1] = g[1]
  BY <1>1, <1>2, EmptySeq
<1>4. ASSUME NEW i \in 2..Len(v) PROVE v[i] = s[i]
  <2>1. CASE i <= Len(g)
    BY <1>1, <1>2, <2>1 DEF SameBody
  <2>2. CASE i > Len(g)
    <3>1. i - Len(g) \in 1..Len(o) /\ Len(g) + (i - Len(g)) = i
      BY <1>1, <1>2, <2>2
    <3>2. v[i] = o[i - Len(g)]
      BY <1>1, <1>2, <2>2
    <3>3. o[i - Len(g)] = s[Len(g) + (i - Len(g))]
      BY <3>1 DEF FoundAt
    <3> QED
      BY <3>1, <3>2, <3>3
  <2> QED
    BY <1>1, <1>2, <2>1, <2>2
<1> QED
  BY <1>2, <1>3, <1>4 DEF v, SameBody

\* A write of the next symbol extends what is in the BufWriter and behind it.
LEMMA WriteForwards ==
    ASSUME NEW c \in Clients, NEW S, NEW x \in S, Write(c, x),
           out \in [Clients -> Seq(S)], got \in [Clients -> Seq(S)],
           NEW s, FoundAt(out[c], s, Len(got[c])), x = s[Len(got[c]) + Len(out[c]) + 1],
           got[c] # << >>, SameBody(got[c], s)
    PROVE  /\ out' \in [Clients -> Seq(S)] /\ got' \in [Clients -> Seq(S)]
           /\ \A d \in Clients \ {c} : out'[d] = out[d] /\ got'[d] = got[d]
           /\ FoundAt(out'[c], s, Len(got'[c]))
           /\ Len(got'[c]) + Len(out'[c]) = Len(got[c]) + Len(out[c]) + 1
           /\ got'[c] # << >> /\ got'[c][1] = got[c][1]
           /\ SameBody(got'[c], s)
<1>1. got[c] \in Seq(S) /\ out[c] \in Seq(S)
  OBVIOUS
<1>2. Len(got[c]) \in Nat /\ Len(out[c]) \in Nat
  BY <1>1, LenProperties
<1>3. CASE out' = [out EXCEPT ![c] = Append(@, x)] /\ UNCHANGED got
  <2>1. out'[c] = Append(out[c], x) /\ \A d \in Clients \ {c} : out'[d] = out[d]
    BY <1>3
  <2>2. /\ Append(out[c], x) \in Seq(S) /\ Len(Append(out[c], x)) = Len(out[c]) + 1
        /\ FoundAt(Append(out[c], x), s, Len(got[c]))
    BY <1>1, Buffered
  <2>3. out' \in [Clients -> Seq(S)]
    BY <1>3, <2>2
  <2> QED
    BY <1>2, <1>3, <2>1, <2>2, <2>3
<1>4. CASE /\ out' = [out EXCEPT ![c] = <<x>>]
           /\ got' = [got EXCEPT ![c] = @ \o out[c]]
  <2> DEFINE v == got[c] \o out[c]
  <2>1. /\ out'[c] = <<x>> /\ got'[c] = v
        /\ \A d \in Clients \ {c} : out'[d] = out[d] /\ got'[d] = got[d]
    BY <1>4
  <2>2. /\ v \in Seq(S) /\ Len(v) = Len(got[c]) + Len(out[c])
        /\ v # << >> /\ v[1] = got[c][1]
        /\ SameBody(v, s)
    BY <1>1, Flushed, Zenon
  <2>3. <<x>> \in Seq(S) /\ out' \in [Clients -> Seq(S)] /\ got' \in [Clients -> Seq(S)]
    BY <1>4, <2>2
  <2> HIDE DEF v
  <2>4. Len(<<x>>) = 1 /\ FoundAt(<<x>>, s, Len(v))
    <3>1. Len(v) \in Nat /\ x = s[Len(v) + 1]
      BY <1>2, <2>2
    <3> QED
      BY <3>1, FoundOne, Zenon
  <2> QED
    BY <1>2, <2>1, <2>2, <2>3, <2>4
<1> QED
  BY <1>3, <1>4 DEF Write

\* ReadBody: n symbols move from the connection to the decoder.
LEMMA LaidOutRead ==
    ASSUME NEW S, NEW g \in Seq(S), NEW o \in Seq(S), NEW w \in Seq(S), NEW s \in Seq(S),
           LaidOut(g, o, << >>, w, s), NEW n \in 1..Len(w)
    PROVE  /\ SubSeq(w, 1, n) \in Seq(S) /\ SubSeq(w, n + 1, Len(w)) \in Seq(S)
           /\ LaidOut(g, o, SubSeq(w, 1, n), SubSeq(w, n + 1, Len(w)), s)
<1> DEFINE p == Len(g) + Len(o)
           d2 == SubSeq(w, 1, n)
           w2 == SubSeq(w, n + 1, Len(w))
<1>1. Len(g) \in Nat /\ Len(o) \in Nat /\ Len(w) \in Nat /\ Len(s) \in Nat /\ n \in Nat /\ n <= Len(w)
  BY LenProperties
<1>2. Len(<< >>) = 0
  BY EmptySeq
<1>3. p \in Nat /\ p + 0 = p /\ FoundAt(w, s, p) /\ p + Len(w) = Len(s)
  BY <1>1, <1>2 DEF LaidOut
<1> HIDE DEF p
<1>4. d2 \in Seq(S) /\ Len(d2) = n /\ FoundAt(d2, s, p)
  BY <1>1, <1>3, FoundFront
<1>5. w2 \in Seq(S) /\ Len(w2) = Len(w) - n /\ FoundAt(w2, s, p + n)
  BY <1>1, <1>3, FoundDrop
<1> HIDE DEF d2, w2
<1>6. p + Len(d2) + Len(w2) = Len(s)
  <2>1. p + n + (Len(w) - n) = Len(s)
    BY <1>1, <1>3, SMTT(30)
  <2> QED
    BY <1>4, <1>5, <2>1, Zenon
<1>7. g # << >> /\ SameBody(g, s) /\ FoundAt(o, s, Len(g))
  BY DEF LaidOut
<1>8. LaidOut(g, o, d2, w2, s)
  BY <1>4, <1>5, <1>6, <1>7 DEF LaidOut, p
<1> QED
  BY <1>4, <1>5, <1>8 DEF d2, w2

\* Once the next symbol is written, the decoder and the connection hold the rest.
Written(g, o, s, d, w, S) ==
    \A g2, o2 \in Seq(S) :
        /\ Len(g2) + Len(o2) = Len(g) + Len(o) + 1
        /\ g2 # << >> /\ SameBody(g2, s) /\ FoundAt(o2, s, Len(g2))
        => LaidOut(g2, o2, d, w, s)

\* StreamBody: the first symbol of the decoder is written and consumed.
LEMMA LaidOutWrite ==
    ASSUME NEW S, NEW g \in Seq(S), NEW o \in Seq(S), NEW d \in Seq(S), NEW w \in Seq(S),
           NEW s \in Seq(S), LaidOut(g, o, d, w, s), d # << >>
    PROVE  /\ d[1] \in S /\ d[1] = s[Len(g) + Len(o) + 1] /\ Len(g) + Len(o) + 1 <= Len(s)
           /\ Tail(d) \in Seq(S) /\ Written(g, o, s, Tail(d), w, S)
<1> DEFINE p == Len(g) + Len(o)
<1>1. /\ Len(g) \in Nat /\ Len(o) \in Nat /\ Len(d) \in Nat /\ Len(w) \in Nat /\ Len(s) \in Nat
      /\ Len(d) >= 1
  BY LenProperties, EmptySeq
<1>2. p \in Nat /\ FoundAt(d, s, p) /\ FoundAt(w, s, p + Len(d)) /\ p + Len(d) + Len(w) = Len(s)
  BY <1>1 DEF LaidOut
<1>3. Len(g) + Len(o) + 1 = p + 1
  OBVIOUS
<1> HIDE DEF p
<1>4. d[1] \in S /\ d[1] = s[p + 1] /\ p + 1 <= Len(s)
  BY <1>1, <1>2, ElementOfSeq DEF FoundAt
<1>5. Tail(d) = SubSeq(d, 2, Len(d))
  BY TailIsSubSeq
<1>6. Tail(d) \in Seq(S) /\ Len(Tail(d)) = Len(d) - 1 /\ FoundAt(Tail(d), s, p + 1)
  <2>1. 1 \in Nat /\ 1 <= Len(d) /\ 1 + 1 = 2
    BY <1>1
  <2> DEFINE u == SubSeq(d, 2, Len(d))
  <2>2. u \in Seq(S) /\ Len(u) = Len(d) - 1 /\ FoundAt(u, s, p + 1)
    BY <1>2, <2>1, FoundDrop
  <2> QED
    BY <1>5, <2>2
<1>7. ASSUME NEW g2 \in Seq(S), NEW o2 \in Seq(S), Len(g2) + Len(o2) = p + 1,
             g2 # << >>, SameBody(g2, s), FoundAt(o2, s, Len(g2))
      PROVE  LaidOut(g2, o2, Tail(d), w, s)
  <2>1. p + 1 + Len(Tail(d)) = p + Len(d)
    BY <1>1, <1>2, <1>6
  <2>2. FoundAt(Tail(d), s, Len(g2) + Len(o2))
    BY <1>6, <1>7
  <2>3. FoundAt(w, s, Len(g2) + Len(o2) + Len(Tail(d)))
    BY <1>2, <1>7, <2>1
  <2>4. Len(g2) + Len(o2) + Len(Tail(d)) + Len(w) = Len(s)
    BY <1>2, <1>7, <2>1
  <2> QED
    BY <1>7, <2>2, <2>3, <2>4, Zenon DEF LaidOut
<1> QED
  BY <1>3, <1>4, <1>6, <1>7 DEF Written

\* CopyUntilClose: the first symbol on the connection is read and written.
LEMMA LaidOutCopy ==
    ASSUME NEW S, NEW g \in Seq(S), NEW o \in Seq(S), NEW d \in Seq(S), NEW w \in Seq(S),
           NEW s \in Seq(S), LaidOut(g, o, d, w, s), d = << >>, w # << >>
    PROVE  /\ w[1] \in S /\ w[1] = s[Len(g) + Len(o) + 1]
           /\ SubSeq(w, 2, Len(w)) \in Seq(S) /\ Written(g, o, s, d, SubSeq(w, 2, Len(w)), S)
<1> DEFINE p == Len(g) + Len(o)
           w2 == SubSeq(w, 2, Len(w))
<1>1. /\ Len(g) \in Nat /\ Len(o) \in Nat /\ Len(w) \in Nat /\ Len(s) \in Nat
      /\ Len(w) >= 1 /\ Len(d) = 0
  BY LenProperties, EmptySeq
<1>2. p \in Nat /\ p + 0 = p /\ FoundAt(w, s, p) /\ p + Len(w) = Len(s)
  BY <1>1 DEF LaidOut
<1>3. Len(g) + Len(o) + 1 = p + 1
  OBVIOUS
<1> HIDE DEF p
<1>4. w[1] \in S /\ w[1] = s[p + 1]
  BY <1>1, <1>2, ElementOfSeq DEF FoundAt
<1>5. w2 \in Seq(S) /\ Len(w2) = Len(w) - 1 /\ FoundAt(w2, s, p + 1)
  <2>1. 1 \in Nat /\ 1 <= Len(w) /\ 1 + 1 = 2
    BY <1>1
  <2> QED
    BY <1>2, <2>1, FoundDrop
<1> HIDE DEF w2
<1>6. ASSUME NEW g2 \in Seq(S), NEW o2 \in Seq(S), Len(g2) + Len(o2) = p + 1,
             g2 # << >>, SameBody(g2, s), FoundAt(o2, s, Len(g2))
      PROVE  LaidOut(g2, o2, d, w2, s)
  <2>1. FoundAt(d, s, Len(g2) + Len(o2))
    BY FoundNone
  <2>2. FoundAt(w2, s, Len(g2) + Len(o2) + Len(d))
    BY <1>1, <1>2, <1>5, <1>6
  <2>3. Len(g2) + Len(o2) + Len(d) + Len(w2) = Len(s)
    <3>1. p \in Nat /\ Len(w) \in Nat /\ Len(s) \in Nat /\ p + Len(w) = Len(s)
      BY <1>1, <1>2
    <3>2. Len(g2) + Len(o2) + Len(d) = p + 1
      BY <1>1, <1>6, <3>1
    <3>3. (p + 1) + (Len(w) - 1) = Len(s)
      <4>1. \A a, b, m \in Nat : a + b = m => (a + 1) + (b - 1) = m
        OBVIOUS
      <4> QED
        BY <3>1, <4>1, Zenon
    <3> QED
      BY <1>5, <3>2, <3>3, Zenon
  <2> QED
    BY <1>6, <2>1, <2>2, <2>3, Zenon DEF LaidOut
<1> QED
  BY <1>3, <1>4, <1>5, <1>6 DEF w2, Written

\* Finish: the last flush.
LEMMA LaidOutFlush ==
    ASSUME NEW S, NEW g \in Seq(S), NEW o \in Seq(S), NEW d \in Seq(S), NEW w \in Seq(S),
           NEW s \in Seq(S), LaidOut(g, o, d, w, s)
    PROVE  /\ g \o o \in Seq(S) /\ (g \o o)[1] = g[1] /\ Len(g \o o) = Len(g) + Len(o)
           /\ LaidOut(g \o o, << >>, d, w, s)
<1>1. Len(g) \in Nat /\ Len(o) \in Nat /\ Len(d) \in Nat /\ Len(w) \in Nat /\ Len(s) \in Nat
      /\ Len(<< >>) = 0
  BY LenProperties, EmptySeq
<1>2. /\ g # << >> /\ SameBody(g, s) /\ FoundAt(o, s, Len(g))
      /\ FoundAt(d, s, Len(g) + Len(o)) /\ FoundAt(w, s, Len(g) + Len(o) + Len(d))
      /\ Len(g) + Len(o) + Len(d) + Len(w) = Len(s)
  BY DEF LaidOut
<1> DEFINE v == g \o o
<1>3. v \in Seq(S) /\ Len(v) = Len(g) + Len(o) /\ v # << >> /\ v[1] = g[1] /\ SameBody(v, s)
  BY <1>2, Flushed
<1> HIDE DEF v
<1>4. FoundAt(<< >>, s, Len(v))
  BY FoundNone
<1>5. Len(v) + Len(<< >>) = Len(g) + Len(o)
  BY <1>1, <1>3
<1>6. LaidOut(v, << >>, d, w, s)
  BY <1>2, <1>3, <1>4, <1>5, Zenon DEF LaidOut
<1> QED
  BY <1>3, <1>6 DEF v

\* The state of a task that forwards.
LEMMA ForwardingFacts ==
    ASSUME ProxyInv, NEW c \in Clients, pc[c] \in Forwarding
    PROVE  /\ got[c] \in Seq(Symbols) /\ out[c] \in Seq(Symbols) /\ dbuf[c] \in Seq(Symbols)
           /\ sent[c] \in Seq(Symbols) /\ stream[conn[c]] \in Seq(Symbols)
           /\ conn[c] \in Conns /\ request[c].method # "CONNECT"
           /\ InFlight(c) /\ Relayed(c) /\ got[c] # << >>
<1>1. ProxyTypeOK /\ Exchange(c) /\ Ownership
  BY DEF ProxyInv, Exchanges
<1>2. conn[c] \in Conns
  BY <1>1, ConnRanges DEF Ownership, Holding
<1> QED
  BY <1>1, <1>2 DEF ProxyTypeOK, Exchange, InFlight, LaidOut, Forwarding

\* A step of a task that goes on forwarding: the buffers still hold the message.
LEMMA ForwardStep ==
    ASSUME ProxyInv, NEW c \in Clients, pc[c] \in Forwarding, NEW w \in Forwarding,
           pc' = [pc EXCEPT ![c] = w],
           UNCHANGED <<now, request, pool, received, conn, resp, inbox, end, sent>>,
           out' \in [Clients -> Seq(Symbols)], got' \in [Clients -> Seq(Symbols)],
           dbuf' \in [Clients -> Seq(Symbols)], stream' \in [Conns -> Seq(Symbols)],
           \A d \in Clients \ {c} : out'[d] = out[d] /\ got'[d] = got[d] /\ dbuf'[d] = dbuf[d],
           \A k \in Conns : k # conn[c] => stream'[k] = stream[k],
           LaidOut(got'[c], out'[c], dbuf'[c], stream'[conn[c]], sent[c]),
           got'[c][1] = got[c][1],
           w = "body" => pc[c] = "body",
           w = "until_close" => pc[c] = "until_close" /\ dbuf'[c] = << >>,
           w \in {"finish", "release"} => Len(got'[c]) + Len(out'[c]) = Len(sent[c])
    PROVE  ProxyInv'
<1>1. ProxyTypeOK /\ Exchange(c) /\ Ownership
  BY DEF ProxyInv, Exchanges
<1>2. /\ request[c].method # "CONNECT" /\ Relayed(c) /\ got[c] # << >>
      /\ sent[c] \in Seq(Symbols)
  BY ForwardingFacts
<1>3. pc'[c] = w /\ \A d \in Clients \ {c} : pc'[d] = pc[d]
  BY <1>1 DEF ProxyTypeOK
<1>4. OnlyOf(c)
  BY <1>3 DEF OnlyOf
<1>5. ProxyTypeOK'
  <2>1. pc' \in [Clients -> Places]
    BY <1>1 DEF ProxyTypeOK, Places
  <2> QED
    BY <1>1, <2>1 DEF ProxyTypeOK, pool
<1>6. Relayed(c)'
  <2>1. ForwardedHeaders(c, resp[c])' = ForwardedHeaders(c, resp[c])
    BY DEF ForwardedHeaders
  <2>2. SameBody(got'[c], sent[c])
    BY DEF LaidOut
  <2>3. Len(got'[c]) <= Len(sent[c])
    <3>1. /\ got'[c] \in Seq(Symbols) /\ out'[c] \in Seq(Symbols) /\ dbuf'[c] \in Seq(Symbols)
      OBVIOUS
    <3>2. stream'[conn[c]] \in Seq(Symbols)
      BY ForwardingFacts
    <3>3. /\ Len(got'[c]) \in Nat /\ Len(out'[c]) \in Nat /\ Len(dbuf'[c]) \in Nat
          /\ Len(stream'[conn[c]]) \in Nat /\ Len(sent[c]) \in Nat
      BY <1>2, <3>1, <3>2, LenProperties
    <3>4. Len(got'[c]) + Len(out'[c]) + Len(dbuf'[c]) + Len(stream'[conn[c]]) = Len(sent[c])
      BY DEF LaidOut
    <3>5. \A g, o, d, v, n \in Nat : g + o + d + v = n => g <= n
      OBVIOUS
    <3> QED
      BY <3>3, <3>4, <3>5, ZenonT(60)
  <2> QED
    BY <1>2, <2>1, <2>2, <2>3 DEF Relayed
<1>7. SentOf(c)'
  <2>1. \A r : Message(c, r)' = Message(c, r)
    BY DEF Message
  <2> QED
    BY <1>1, <2>1 DEF Exchange, SentOf
<1>8. InFlight(c)'
  BY DEF InFlight
<1>9. Exchange(c)'
  BY <1>1, <1>2, <1>3, <1>6, <1>7, <1>8 DEF Exchange, Forwarding, Early
<1>10. conn'[c] = conn[c] /\ (conn'[c] # Nobody <=> pc'[c] \in Holding)
  BY <1>1, <1>3 DEF Ownership, Holding
<1>11. pc[c] # "head"
  BY DEF Forwarding
<1> QED
  BY <1>4, <1>5, <1>9, <1>10, <1>11, TaskStep

\* Where a message ends: at the last symbol of what the upstream sent there is
\* nothing more to come, whatever tells the proxy so.
LEMMA MessageEnds ==
    ASSUME ProxyInv, FinalOnly, NEW c \in Clients, pc[c] \in Forwarding
    PROVE  /\ sent[c] # << >> /\ resp[c] \in Responses /\ resp[c] \in Response
           /\ sent[c][1] = HeadOf(c, resp[c])
           /\ Len(sent[c]) <= Len(Message(c, resp[c]))
           /\ \A p \in 1..Len(sent[c]) : sent[c][p] = Message(c, resp[c])[p]
           /\ \A p \in 2..Len(sent[c]) : Completes(resp[c], sent[c][p], p - 1) /\ resp[c].kind \in {"ContentLength", "Chunked"}
                                           => p = Len(sent[c])
           /\ resp[c].kind = "ContentLength" /\ resp[c].body = 0 => Len(sent[c]) = 1
<1> DEFINE r == resp[c]
           m == Message(c, r)
           n == IF r.kind = "None" THEN 0 ELSE r.body
           s == sent[c]
<1>1. Exchange(c)
  BY DEF ProxyInv, Exchanges
<1>2. s \in Seq(Symbols) /\ got[c] \in Seq(Symbols) /\ Relayed(c) /\ got[c] # << >> /\ request[c].method # "CONNECT"
  BY ForwardingFacts
<1>3. Len(s) \in Nat /\ Len(got[c]) \in Nat /\ Len(got[c]) > 0
  BY <1>2, LenProperties, EmptySeq
<1>4. Len(s) >= 1 /\ r = s[1].r
  BY <1>2, <1>3 DEF Relayed
<1>5. s # << >>
  BY <1>4, EmptySeq
<1>6. r \in Responses /\ Len(s) <= Len(m) /\ FoundAt(s, m, 0)
  BY <1>1, <1>4, <1>5 DEF Exchange, SentOf
<1>7. r \in Response /\ r.kind \in {"None", "ContentLength", "Chunked", "CloseDelimited"}
  BY <1>6, ProxyAssumption DEF Response
<1>8. /\ m \in Seq(Symbols) /\ n \in Nat
      /\ Len(m) = 1 + n + (IF r.kind = "Chunked" THEN 1 ELSE 0)
      /\ m[1] = HeadOf(c, r)
      /\ \A i \in 2..(n + 1) : m[i].t = "data"
  BY <1>6, MessagePositions
<1>9. r.kind \in {"ContentLength", "Chunked"} => n = r.body
  OBVIOUS
<1> HIDE DEF m, n, r, s
<1>10. \A p \in 1..Len(s) : s[p] = m[p]
  BY <1>3, <1>6 DEF FoundAt
<1>11. ASSUME NEW p \in 2..Len(s), Completes(r, s[p], p - 1), r.kind \in {"ContentLength", "Chunked"}
       PROVE  p = Len(s)
  <2>1. CASE r.kind = "ContentLength"
    <3>1. p - 1 = n
      BY <1>9, <1>11, <2>1 DEF Completes
    <3> QED
      BY <1>3, <1>6, <1>8, <2>1, <3>1
  <2>2. CASE r.kind = "Chunked"
    <3>1. m[p].t = "last"
      BY <1>3, <1>10, <1>11, <2>2 DEF Completes
    <3>2. p \notin 2..(n + 1)
      BY <1>8, <3>1
    <3> QED
      BY <1>3, <1>6, <1>8, <2>2, <3>2
  <2> QED
    BY <1>11, <2>1, <2>2
<1>12. ASSUME r.kind = "ContentLength", r.body = 0 PROVE Len(s) = 1
  <2>1. n = 0 /\ Len(m) = 1 + n + 0
    BY <1>8, <1>9, <1>12
  <2>2. Len(s) <= 1
    BY <1>3, <1>6, <2>1
  <2>3. \A k \in Nat : k >= 1 /\ k <= 1 => k = 1
    OBVIOUS
  <2> QED
    BY <1>3, <1>4, <2>2, <2>3, Zenon
<1>13. s[1] = HeadOf(c, r)
  BY <1>3, <1>4, <1>8, <1>10
<1> QED
  BY <1>5, <1>6, <1>7, <1>10, <1>11, <1>12, <1>13, Zenon DEF r, s, m

LEMMA StreamBodyPreserves ==
    ASSUME ProxyInv, FinalOnly, NEW c \in Clients, StreamBody(c)
    PROVE  ProxyInv'
<1> DEFINE x == dbuf[c][1]
           s == sent[c]
           p == Len(got[c]) + Len(out[c])
<1>1. ProxyTypeOK /\ Exchange(c)
  BY DEF ProxyInv, Exchanges
<1>2. /\ pc[c] = "body" /\ dbuf[c] # << >> /\ Write(c, x)
      /\ dbuf' = [dbuf EXCEPT ![c] = Tail(@)]
      /\ pc' = [pc EXCEPT ![c] = IF Completes(resp[c], x, Pieces(c) + 1) THEN "finish" ELSE "body"]
      /\ UNCHANGED <<now, request, pool, received, conn, resp, inbox, stream, end, sent>>
  BY DEF StreamBody, Goto, upstream
<1>3. pc[c] \in Forwarding
  BY <1>2 DEF Forwarding
<1>4. /\ got[c] \in Seq(Symbols) /\ out[c] \in Seq(Symbols) /\ dbuf[c] \in Seq(Symbols)
      /\ s \in Seq(Symbols) /\ stream[conn[c]] \in Seq(Symbols)
      /\ LaidOut(got[c], out[c], dbuf[c], stream[conn[c]], s) /\ got[c] # << >>
  BY <1>3, ForwardingFacts DEF InFlight
<1>5. /\ x \in Symbols /\ x = s[p + 1] /\ p + 1 <= Len(s)
      /\ Tail(dbuf[c]) \in Seq(Symbols)
      /\ Written(got[c], out[c], s, Tail(dbuf[c]), stream[conn[c]], Symbols)
  BY <1>2, <1>4, LaidOutWrite, Zenon
<1>6. FoundAt(out[c], s, Len(got[c])) /\ SameBody(got[c], s)
  BY <1>4 DEF LaidOut
<1>7. out \in [Clients -> Seq(Symbols)] /\ got \in [Clients -> Seq(Symbols)]
  BY <1>1 DEF ProxyTypeOK
<1>8. p \in Nat /\ p >= 1 /\ Len(s) \in Nat /\ Pieces(c) + 1 = p
  <2>1. Len(got[c]) \in Nat \ {0} /\ Len(out[c]) \in Nat /\ Len(s) \in Nat
    BY <1>4, LenProperties, EmptySeq
  <2>2. \A g \in Nat \ {0}, o \in Nat : g + o \in Nat /\ g + o >= 1 /\ (g + o - 1) + 1 = g + o
    OBVIOUS
  <2> QED
    BY <2>1, <2>2, Zenon DEF Pieces
<1> HIDE DEF x, s
<1>9. /\ out' \in [Clients -> Seq(Symbols)] /\ got' \in [Clients -> Seq(Symbols)]
      /\ \A d \in Clients \ {c} : out'[d] = out[d] /\ got'[d] = got[d]
      /\ FoundAt(out'[c], s, Len(got'[c]))
      /\ Len(got'[c]) + Len(out'[c]) = p + 1
      /\ got'[c] # << >> /\ got'[c][1] = got[c][1]
      /\ SameBody(got'[c], s)
  BY <1>2, <1>4, <1>5, <1>6, <1>7, WriteForwards
<1>10. /\ dbuf' \in [Clients -> Seq(Symbols)] /\ dbuf'[c] = Tail(dbuf[c])
       /\ \A d \in Clients \ {c} : dbuf'[d] = dbuf[d]
  BY <1>1, <1>2, <1>5 DEF ProxyTypeOK
<1>11. LaidOut(got'[c], out'[c], dbuf'[c], stream'[conn[c]], s)
  BY <1>2, <1>5, <1>9, <1>10 DEF Written
<1> DEFINE w == IF Completes(resp[c], x, p) THEN "finish" ELSE "body"
<1>12. pc' = [pc EXCEPT ![c] = w] /\ w \in Forwarding
  BY <1>2, <1>8 DEF Forwarding, x
<1>13. ASSUME w = "finish" PROVE Len(got'[c]) + Len(out'[c]) = Len(s)
  <2>1. \A n, k \in Nat : n >= 1 /\ n + 1 <= k => (n + 1) - 1 = n /\ n + 1 \in 2..k
    OBVIOUS
  <2>2. (p + 1) - 1 = p /\ p + 1 \in 2..Len(s)
    BY <1>5, <1>8, <2>1, Zenon
  <2>5. Completes(resp[c], s[p + 1], (p + 1) - 1)
    BY <1>5, <1>13, <2>2, Zenon
  <2>3. resp[c].kind \in {"ContentLength", "Chunked"}
    BY <1>1, <1>2 DEF Exchange
  <2>4. p + 1 = Len(s)
    BY <1>3, <2>2, <2>3, <2>5, MessageEnds, Zenon DEF s
  <2> QED
    BY <1>9, <2>4
<1> HIDE DEF p
<1>14. w = "body" \/ w = "finish"
  OBVIOUS
<1> HIDE DEF w
<1>15. stream' \in [Conns -> Seq(Symbols)] /\ stream' = stream
  BY <1>1, <1>2 DEF ProxyTypeOK
<1> QED
  BY <1>2, <1>3, <1>9, <1>10, <1>11, <1>12, <1>13, <1>14, <1>15, ForwardStep DEF s

\* The bytes that a read takes off the connection.
LEMMA ReadsEffect ==
    ASSUME ProxyTypeOK, NEW c \in Clients, conn[c] \in Conns, NEW n \in 1..Len(stream[conn[c]]), Reads(c, n)
    PROVE  /\ stream'[conn[c]] = SubSeq(stream[conn[c]], n + 1, Len(stream[conn[c]]))
           /\ \A k \in Conns : k # conn[c] => stream'[k] = stream[k]
           /\ SubSeq(stream[conn[c]], n + 1, Len(stream[conn[c]])) \in Seq(Symbols)
           /\ stream' \in [Conns -> Seq(Symbols)]
<1> DEFINE q == stream[conn[c]]
<1>1. stream \in [Conns -> Seq(Symbols)] /\ q \in Seq(Symbols)
  BY DEF ProxyTypeOK
<1>2. stream' = [stream EXCEPT ![conn[c]] = SubSeq(q, n + 1, Len(q))]
  BY DEF Reads
<1>3. SubSeq(q, n + 1, Len(q)) \in Seq(Symbols)
  BY <1>1, HeadSplit
<1> QED
  BY <1>1, <1>2, <1>3

LEMMA ReadBodyPreserves ==
    ASSUME ProxyInv, NEW c \in Clients, ReadBody(c)
    PROVE  ProxyInv'
<1> DEFINE q == stream[conn[c]]
           s == sent[c]
<1>1. ProxyTypeOK /\ Exchange(c)
  BY DEF ProxyInv, Exchanges
<1>2. PICK n \in 1..Len(q) : Reads(c, n) /\ dbuf' = [dbuf EXCEPT ![c] = SubSeq(q, 1, n)]
  BY DEF ReadBody
<1>3. /\ pc[c] = "body" /\ dbuf[c] = << >>
      /\ UNCHANGED <<now, request, pool, pc, received, conn, resp, out, got, inbox, end, sent>>
  BY DEF ReadBody
<1>4. pc[c] \in Forwarding /\ "body" \in Forwarding
  BY <1>3 DEF Forwarding
<1>5. /\ got[c] \in Seq(Symbols) /\ out[c] \in Seq(Symbols) /\ conn[c] \in Conns
      /\ s \in Seq(Symbols) /\ q \in Seq(Symbols)
      /\ LaidOut(got[c], out[c], << >>, q, s)
  BY <1>3, <1>4, ForwardingFacts DEF InFlight
<1>6. /\ SubSeq(q, 1, n) \in Seq(Symbols)
      /\ LaidOut(got[c], out[c], SubSeq(q, 1, n), SubSeq(q, n + 1, Len(q)), s)
  BY <1>5, LaidOutRead
<1>7. /\ stream'[conn[c]] = SubSeq(q, n + 1, Len(q))
      /\ \A k \in Conns : k # conn[c] => stream'[k] = stream[k]
      /\ stream' \in [Conns -> Seq(Symbols)]
  BY <1>1, <1>2, <1>5, ReadsEffect
<1>8. /\ dbuf' \in [Clients -> Seq(Symbols)] /\ dbuf'[c] = SubSeq(q, 1, n)
      /\ \A d \in Clients \ {c} : dbuf'[d] = dbuf[d]
  BY <1>1, <1>2, <1>6 DEF ProxyTypeOK
<1>9. pc' = [pc EXCEPT ![c] = "body"]
  BY <1>1, <1>3 DEF ProxyTypeOK
<1>10. out' \in [Clients -> Seq(Symbols)] /\ got' \in [Clients -> Seq(Symbols)]
  BY <1>1, <1>3 DEF ProxyTypeOK
<1>11. LaidOut(got'[c], out'[c], dbuf'[c], stream'[conn[c]], s)
  BY <1>3, <1>6, <1>7, <1>8
<1> QED
  BY <1>3, <1>4, <1>7, <1>8, <1>9, <1>10, <1>11, ForwardStep, ZenonT(60)

LEMMA CopyUntilClosePreserves ==
    ASSUME ProxyInv, NEW c \in Clients, CopyUntilClose(c)
    PROVE  ProxyInv'
<1> DEFINE q == stream[conn[c]]
           s == sent[c]
           p == Len(got[c]) + Len(out[c])
<1>1. ProxyTypeOK /\ Exchange(c)
  BY DEF ProxyInv, Exchanges
<1>2. /\ pc[c] = "until_close" /\ q # << >> /\ Reads(c, 1) /\ Write(c, q[1])
      /\ UNCHANGED <<now, request, pool, pc, received, conn, dbuf, resp, inbox, end, sent>>
  BY DEF CopyUntilClose
<1>3. pc[c] \in Forwarding /\ "until_close" \in Forwarding
  BY <1>2 DEF Forwarding
<1>4. dbuf[c] = << >>
  BY <1>1, <1>2 DEF Exchange
<1>5. /\ got[c] \in Seq(Symbols) /\ out[c] \in Seq(Symbols) /\ conn[c] \in Conns
      /\ s \in Seq(Symbols) /\ q \in Seq(Symbols) /\ got[c] # << >>
      /\ LaidOut(got[c], out[c], dbuf[c], q, s) /\ dbuf[c] \in Seq(Symbols)
  BY <1>3, <1>4, ForwardingFacts DEF InFlight
<1>6. /\ q[1] \in Symbols /\ q[1] = s[p + 1]
      /\ Written(got[c], out[c], s, dbuf[c], SubSeq(q, 2, Len(q)), Symbols)
  <2>1. q # << >>
    BY <1>2
  <2> HIDE DEF q, s, p
  <2>2. /\ q[1] \in Symbols /\ q[1] = s[Len(got[c]) + Len(out[c]) + 1]
        /\ SubSeq(q, 2, Len(q)) \in Seq(Symbols)
        /\ Written(got[c], out[c], s, dbuf[c], SubSeq(q, 2, Len(q)), Symbols)
    BY <1>4, <1>5, <2>1, LaidOutCopy, Zenon
  <2> QED
    BY <2>2 DEF p
<1>7. /\ stream'[conn[c]] = SubSeq(q, 2, Len(q))
      /\ \A k \in Conns : k # conn[c] => stream'[k] = stream[k]
      /\ stream' \in [Conns -> Seq(Symbols)]
  <2>1. 1 \in 1..Len(q) /\ 1 + 1 = 2
    BY <1>2, <1>5, LenProperties, EmptySeq
  <2> QED
    BY <1>1, <1>2, <1>5, <2>1, ReadsEffect
<1>8. out \in [Clients -> Seq(Symbols)] /\ got \in [Clients -> Seq(Symbols)]
  BY <1>1 DEF ProxyTypeOK
<1>9. FoundAt(out[c], s, Len(got[c])) /\ SameBody(got[c], s)
  BY <1>5 DEF LaidOut
<1> HIDE DEF q, s
<1>10. /\ out' \in [Clients -> Seq(Symbols)] /\ got' \in [Clients -> Seq(Symbols)]
       /\ \A d \in Clients \ {c} : out'[d] = out[d] /\ got'[d] = got[d]
       /\ FoundAt(out'[c], s, Len(got'[c]))
       /\ Len(got'[c]) + Len(out'[c]) = p + 1
       /\ got'[c] # << >> /\ got'[c][1] = got[c][1]
       /\ SameBody(got'[c], s)
  BY <1>2, <1>5, <1>6, <1>8, <1>9, WriteForwards
<1>11. LaidOut(got'[c], out'[c], dbuf'[c], stream'[conn[c]], s)
  BY <1>2, <1>4, <1>6, <1>7, <1>10 DEF Written
<1>12. pc' = [pc EXCEPT ![c] = "until_close"] /\ dbuf' \in [Clients -> Seq(Symbols)]
  BY <1>1, <1>2 DEF ProxyTypeOK
<1>13. dbuf'[c] = << >> /\ \A d \in Clients \ {c} : dbuf'[d] = dbuf[d]
  BY <1>2, <1>4
<1>14. /\ pc[c] = "until_close"
       /\ UNCHANGED <<now, request, pool, received, conn, resp, inbox, end, sent>>
  BY <1>2
<1> HIDE DEF p
<1> QED
  BY <1>3, <1>7, <1>10, <1>11, <1>12, <1>13, <1>14, ForwardStep DEF s

\* Nothing behind the decoder's end: what went out is all that was sent.
LEMMA LaidOutAll ==
    ASSUME NEW S, NEW g \in Seq(S), NEW o \in Seq(S), NEW d \in Seq(S), NEW w \in Seq(S),
           NEW s \in Seq(S), LaidOut(g, o, d, w, s)
    PROVE  /\ d = << >> /\ w = << >> => Len(g) + Len(o) = Len(s)
           /\ Len(g) + Len(o) = Len(s) => d = << >> /\ w = << >>
           /\ Len(s) = 1 => Len(g) + Len(o) = Len(s)
<1> DEFINE lg == Len(g)
           lo == Len(o)
           ld == Len(d)
           lw == Len(w)
           ls == Len(s)
<1>1. lg \in Nat /\ lo \in Nat /\ ld \in Nat /\ lw \in Nat /\ ls \in Nat /\ lg # 0
  BY LenProperties, EmptySeq DEF LaidOut
<1>2. (d = << >> <=> ld = 0) /\ (w = << >> <=> lw = 0)
  BY EmptySeq
<1>3. lg + lo + ld + lw = ls
  BY DEF LaidOut
<1> HIDE DEF lg, lo, ld, lw, ls
<1>4. /\ ld = 0 /\ lw = 0 => lg + lo = ls
      /\ lg + lo = ls => ld = 0 /\ lw = 0
      /\ ls = 1 => lg + lo = ls
  BY <1>1, <1>3
<1> QED
  BY <1>2, <1>4 DEF lg, lo, ls

LEMMA NothingBehind ==
    ASSUME ProxyInv, NEW c \in Clients, pc[c] \in Forwarding
    PROVE  /\ dbuf[c] = << >> /\ stream[conn[c]] = << >> => Len(got[c]) + Len(out[c]) = Len(sent[c])
           /\ Len(got[c]) + Len(out[c]) = Len(sent[c]) => dbuf[c] = << >> /\ stream[conn[c]] = << >>
           /\ Len(sent[c]) = 1 => Len(got[c]) + Len(out[c]) = Len(sent[c])
<1> DEFINE g == got[c]
           o == out[c]
           d == dbuf[c]
           w == stream[conn[c]]
           s == sent[c]
<1>1. /\ g \in Seq(Symbols) /\ o \in Seq(Symbols) /\ d \in Seq(Symbols)
      /\ s \in Seq(Symbols) /\ w \in Seq(Symbols)
      /\ LaidOut(g, o, d, w, s)
  BY ForwardingFacts DEF InFlight
<1> HIDE DEF g, o, d, w, s
<1>2. /\ d = << >> /\ w = << >> => Len(g) + Len(o) = Len(s)
      /\ Len(g) + Len(o) = Len(s) => d = << >> /\ w = << >>
      /\ Len(s) = 1 => Len(g) + Len(o) = Len(s)
  BY <1>1, LaidOutAll, Zenon
<1> QED
  BY <1>2 DEF g, o, d, w, s

\* A step that only moves the task on to its last flush.
LEMMA ToFinish ==
    ASSUME ProxyInv, NEW c \in Clients, pc[c] \in Forwarding,
           pc' = [pc EXCEPT ![c] = "finish"],
           UNCHANGED <<now, request, pool, received, conn, dbuf, resp, out, got, inbox, stream, end, sent>>,
           Len(got[c]) + Len(out[c]) = Len(sent[c])
    PROVE  ProxyInv'
<1>1. ProxyTypeOK
  BY DEF ProxyInv
<1>2. LaidOut(got[c], out[c], dbuf[c], stream[conn[c]], sent[c])
  BY ForwardingFacts DEF InFlight
<1>3. /\ out' \in [Clients -> Seq(Symbols)] /\ got' \in [Clients -> Seq(Symbols)]
      /\ dbuf' \in [Clients -> Seq(Symbols)] /\ stream' \in [Conns -> Seq(Symbols)]
  BY <1>1 DEF ProxyTypeOK
<1>4. "finish" \in Forwarding
  BY DEF Forwarding
<1> QED
  BY <1>2, <1>3, <1>4, ForwardStep

LEMMA EmptyBodyPreserves ==
    ASSUME ProxyInv, FinalOnly, NEW c \in Clients, EmptyBody(c)
    PROVE  ProxyInv'
<1>1. /\ pc[c] = "body" /\ resp[c].kind = "ContentLength" /\ resp[c].body = 0
      /\ pc' = [pc EXCEPT ![c] = "finish"]
      /\ UNCHANGED <<now, request, pool, received, conn, dbuf, resp, out, got, inbox, stream, end, sent>>
  BY DEF EmptyBody, Goto, task, upstream
<1>2. pc[c] \in Forwarding
  BY <1>1 DEF Forwarding
<1>3. Len(sent[c]) = 1
  BY <1>1, <1>2, MessageEnds
<1>4. Len(got[c]) + Len(out[c]) = Len(sent[c])
  BY <1>2, <1>3, NothingBehind
<1> QED
  BY <1>1, <1>2, <1>4, ToFinish

LEMMA UpstreamEndedPreserves ==
    ASSUME ProxyInv, NEW c \in Clients, UpstreamEnded(c)
    PROVE  ProxyInv'
<1>1. ProxyTypeOK /\ Exchange(c) /\ QuietConns /\ Ownership
  BY DEF ProxyInv, Exchanges
<1>2. /\ pc[c] \in {"head", "body", "until_close"} /\ stream[conn[c]] = << >> /\ end[conn[c]] # "open"
      /\ UNCHANGED <<now, request, pool, received, dbuf, resp, got, inbox, stream, end, sent>>
  BY DEF UpstreamEnded, upstream
<1>3. CASE pc[c] = "until_close" /\ end[conn[c]] = "fin"
  <2>1. pc' = [pc EXCEPT ![c] = "finish"] /\ UNCHANGED <<conn, out>>
    BY <1>3 DEF UpstreamEnded, Goto
  <2>2. pc[c] \in Forwarding
    BY <1>3 DEF Forwarding
  <2>3. dbuf[c] = << >>
    BY <1>1, <1>3 DEF Exchange
  <2>4. Len(got[c]) + Len(out[c]) = Len(sent[c])
    BY <1>2, <2>2, <2>3, NothingBehind
  <2> QED
    BY <1>2, <2>1, <2>2, <2>4, ToFinish
<1>4. CASE ~(pc[c] = "until_close" /\ end[conn[c]] = "fin")
  <2>1. /\ pc' = [pc EXCEPT ![c] = "done"] /\ conn' = [conn EXCEPT ![c] = Nobody]
        /\ out' = [out EXCEPT ![c] = << >>]
    BY <1>4 DEF UpstreamEnded, Ends, Goto
  <2>2. Relayed(c)'
    <3>1. ForwardedHeaders(c, resp[c])' = ForwardedHeaders(c, resp[c])
      BY <1>2 DEF ForwardedHeaders
    <3> QED
      BY <1>1, <1>2, <3>1 DEF Exchange, Relayed
  <2>3. conn[c] \in Conns
    BY <1>1, <1>2, ConnRanges DEF Ownership, Holding, Forwarding
  <2>4. inbox[conn[c]] = << >>
    BY <1>1, <1>2, <2>3 DEF QuietConns
  <2> QED
    BY <1>1, <1>2, <2>1, <2>2, <2>4, DropStep DEF ProxyTypeOK
<1> QED
  BY <1>3, <1>4

LEMMA FinishPreserves ==
    ASSUME ProxyInv, NEW c \in Clients, Finish(c)
    PROVE  ProxyInv'
<1> DEFINE v == got[c] \o out[c]
           s == sent[c]
<1>1. ProxyTypeOK /\ Exchange(c)
  BY DEF ProxyInv, Exchanges
<1>2. /\ pc[c] = "finish" /\ got' = [got EXCEPT ![c] = v]
      /\ UNCHANGED <<now, request, pool, received, dbuf, resp, inbox, stream, end, sent>>
  BY DEF Finish, upstream
<1>3. pc[c] \in Forwarding /\ "release" \in Forwarding
  BY <1>2 DEF Forwarding
<1>4. /\ got[c] \in Seq(Symbols) /\ out[c] \in Seq(Symbols) /\ dbuf[c] \in Seq(Symbols)
      /\ s \in Seq(Symbols) /\ stream[conn[c]] \in Seq(Symbols)
      /\ LaidOut(got[c], out[c], dbuf[c], stream[conn[c]], s)
      /\ Relayed(c) /\ got[c] # << >> /\ request[c].method # "CONNECT"
  BY <1>3, ForwardingFacts DEF InFlight
<1>5. /\ v \in Seq(Symbols) /\ v[1] = got[c][1] /\ Len(v) = Len(got[c]) + Len(out[c])
      /\ LaidOut(v, << >>, dbuf[c], stream[conn[c]], s)
  BY <1>4, LaidOutFlush, Zenon
<1>6. Len(v) = Len(s)
  BY <1>1, <1>2, <1>5 DEF Exchange
<1> HIDE DEF v
<1>7. /\ got' \in [Clients -> Seq(Symbols)] /\ got'[c] = v
      /\ \A d \in Clients \ {c} : got'[d] = got[d]
  BY <1>1, <1>2, <1>5 DEF ProxyTypeOK
<1>8. CASE CanReuse(resp[c])
  <2>1. pc' = [pc EXCEPT ![c] = "release"] /\ out' = [out EXCEPT ![c] = << >>] /\ UNCHANGED conn
    BY <1>8 DEF Finish, Goto
  <2>2. << >> \in Seq(Symbols) /\ Len(<< >>) = 0
    BY EmptySeq
  <2>3. /\ out' \in [Clients -> Seq(Symbols)] /\ out'[c] = << >>
        /\ \A d \in Clients \ {c} : out'[d] = out[d]
    BY <1>1, <2>1, <2>2 DEF ProxyTypeOK
  <2>4. Len(got'[c]) + Len(out'[c]) = Len(s)
    <3>1. Len(s) \in Nat
      BY <1>4, LenProperties
    <3>2. \A n \in Nat : n + 0 = n
      OBVIOUS
    <3> QED
      BY <1>6, <1>7, <2>2, <2>3, <3>1, <3>2, Zenon
  <2>5. LaidOut(got'[c], out'[c], dbuf'[c], stream'[conn[c]], s)
    BY <1>2, <1>5, <1>7, <2>3
  <2>6. dbuf' \in [Clients -> Seq(Symbols)] /\ stream' \in [Conns -> Seq(Symbols)]
    BY <1>1, <1>2 DEF ProxyTypeOK
  <2>7. got'[c][1] = got[c][1]
    BY <1>5, <1>7
  <2>8. /\ UNCHANGED <<now, request, pool, received, conn, resp, inbox, end, sent>>
        /\ dbuf' = dbuf /\ stream' = stream
    BY <1>2, <2>1
  <2> QED
    BY <1>3, <1>7, <2>1, <2>3, <2>4, <2>5, <2>6, <2>7, <2>8, ForwardStep
<1>9. CASE ~CanReuse(resp[c])
  <2>1. /\ pc' = [pc EXCEPT ![c] = "done"] /\ conn' = [conn EXCEPT ![c] = Nobody]
        /\ out' = [out EXCEPT ![c] = << >>]
    BY <1>9 DEF Finish, Ends, Goto
  <2>2. Relayed(c)'
    <3>1. ForwardedHeaders(c, resp[c])' = ForwardedHeaders(c, resp[c])
      BY <1>2 DEF ForwardedHeaders
    <3>2. SameBody(v, s) /\ Len(v) <= Len(s)
      <4>1. Len(s) \in Nat
        BY <1>4, LenProperties
      <4>2. SameBody(v, s)
        BY <1>5 DEF LaidOut
      <4>3. \A n \in Nat : n <= n
        OBVIOUS
      <4> QED
        BY <1>6, <4>1, <4>2, <4>3, Zenon
    <3> QED
      BY <1>2, <1>4, <1>5, <1>7, <3>1, <3>2 DEF Relayed
  <2> QED
    BY <1>1, <1>2, <1>4, <1>7, <2>1, <2>2, DropStep DEF ProxyTypeOK
<1> QED
  BY <1>8, <1>9

\* The state of a task whose response has begun to arrive.
LEMMA HeadArrived ==
    ASSUME ProxyInv, FinalOnly, NEW c \in Clients, pc[c] = "head", stream[conn[c]] # << >>
    PROVE  /\ conn[c] \in Conns /\ inbox[conn[c]] = << >>
           /\ stream[conn[c]] = sent[c] /\ sent[c] \in Seq(Symbols)
           /\ got[c] = << >> /\ out[c] = << >> /\ dbuf[c] = << >>
           /\ sent[c][1].r \in Responses /\ sent[c][1].r \in Response
           /\ sent[c][1] = HeadOf(c, sent[c][1].r) /\ sent[c][1] \in Symbols
           /\ request[c].method # "CONNECT"
           /\ sent[c][1].r.kind = "None" => Len(sent[c]) = 1
<1> DEFINE s == sent[c]
           r == s[1].r
           m == Message(c, r)
<1>1. ProxyTypeOK /\ Exchange(c) /\ Ownership
  BY DEF ProxyInv, Exchanges
<1>2. conn[c] \in Conns
  BY <1>1, ConnRanges DEF Ownership, Holding
<1>3. /\ stream[conn[c]] = s /\ s # << >> /\ inbox[conn[c]] = << >> /\ SentOf(c)
      /\ got[c] = << >> /\ out[c] = << >> /\ dbuf[c] = << >> /\ request[c].method # "CONNECT"
  BY <1>1 DEF Exchange
<1>4. s \in Seq(Symbols) /\ Len(s) \in Nat /\ Len(s) >= 1
  BY <1>1, <1>3, LenProperties, EmptySeq DEF ProxyTypeOK
<1>5. r \in Responses /\ Len(s) <= Len(m) /\ FoundAt(s, m, 0)
  BY <1>3 DEF SentOf
<1>6. r \in Response
  BY <1>5, ProxyAssumption
<1> DEFINE k == IF r.kind = "None" THEN 0 ELSE r.body
<1>7. m[1] = HeadOf(c, r) /\ (r.kind = "None" => Len(m) = 1)
  <2>1. m[1] = HeadOf(c, r) /\ Len(m) = 1 + k + (IF r.kind = "Chunked" THEN 1 ELSE 0)
    BY <1>5, MessagePositions
  <2>2. r.kind = "None" => k = 0
    OBVIOUS
  <2> HIDE DEF m, r, k
  <2> QED
    BY <2>1, <2>2
<1> HIDE DEF m, r
<1>8. s[1] = m[1] /\ s[1] \in Symbols
  <2>1. 1 \in 1..Len(s) /\ 0 + 1 = 1
    BY <1>4
  <2>2. s[1] = m[0 + 1]
    BY <1>5, <2>1, Zenon DEF FoundAt
  <2> QED
    BY <1>4, <2>1, <2>2, ElementOfSeq
<1>9. r.kind = "None" => Len(s) = 1
  <2>1. \A a, b \in Nat : a >= 1 /\ a <= b /\ b = 1 => a = 1
    OBVIOUS
  <2>2. ASSUME r.kind = "None" PROVE Len(s) = 1
    <3>1. Len(m) = 1 /\ Len(m) \in Nat
      BY <1>7, <2>2
    <3> QED
      BY <1>4, <1>5, <2>1, <3>1, Zenon
  <2> QED
    BY <2>2
<1> QED
  BY <1>2, <1>3, <1>4, <1>5, <1>6, <1>7, <1>8, <1>9 DEF r

\* Right after the head: what came with it is in one buffer, the rest under way.
LEMMA LaidOutHead ==
    ASSUME NEW S, NEW s \in Seq(S), NEW n \in 1..Len(s), NEW h \in S
    PROVE  /\ SubSeq(s, 2, n) \in Seq(S) /\ SubSeq(s, n + 1, Len(s)) \in Seq(S) /\ <<h>> \in Seq(S)
           /\ LaidOut(<<h>>, SubSeq(s, 2, n), << >>, SubSeq(s, n + 1, Len(s)), s)
           /\ LaidOut(<<h>>, << >>, SubSeq(s, 2, n), SubSeq(s, n + 1, Len(s)), s)
           /\ Len(s) = 1 => SubSeq(s, 2, n) = << >> /\ SubSeq(s, n + 1, Len(s)) = << >>
<1> DEFINE rest == SubSeq(s, 2, n)
           w == SubSeq(s, n + 1, Len(s))
           g == <<h>>
           e == << >>
<1>1. Len(s) \in Nat /\ n \in Nat /\ n <= Len(s) /\ n >= 1
  BY LenProperties
<1>2. /\ rest \in Seq(S) /\ Len(rest) = n - 1 /\ FoundAt(rest, s, 1)
      /\ w \in Seq(S) /\ Len(w) = Len(s) - n /\ FoundAt(w, s, n)
  BY HeadSplit
<1>3. g \in Seq(S) /\ Len(g) = 1 /\ g # << >> /\ SameBody(g, s)
  BY DEF SameBody
<1>4. \A p : Len(e) = 0 /\ FoundAt(e, s, p)
  BY FoundNone
<1>5. Len(s) = 1 => rest = << >> /\ w = << >>
  <2>1. Len(s) = 1 => Len(rest) = 0 /\ Len(w) = 0
    BY <1>1, <1>2
  <2> QED
    BY <1>2, <2>1, EmptySeq
<1> DEFINE lr == Len(rest)
           lw == Len(w)
           le == Len(e)
           lg == Len(g)
           ls == Len(s)
<1>6. lr = n - 1 /\ lw = ls - n /\ le = 0 /\ lg = 1 /\ ls \in Nat
  BY <1>1, <1>2, <1>3, <1>4
<1> HIDE DEF rest, w, g, e, lr, lw, le, lg, ls
<1>7. /\ lg + lr + le = n /\ lg + le + lr = n /\ lg + lr + le + lw = ls /\ lg + le + lr + lw = ls
      /\ lg + le = 1
  BY <1>1, <1>6
<1>8. LaidOut(g, rest, e, w, s)
  BY <1>2, <1>3, <1>4, <1>7, Zenon DEF LaidOut, lr, lw, le, lg, ls
<1>9. LaidOut(g, e, rest, w, s)
  BY <1>2, <1>3, <1>4, <1>7, Zenon DEF LaidOut, lr, lw, le, lg, ls
<1> QED
  BY <1>2, <1>3, <1>5, <1>8, <1>9 DEF rest, w, g, e

LEMMA ReadHeadPreserves ==
    ASSUME ProxyInv, FinalOnly, NEW c \in Clients, ReadHead(c)
    PROVE  ProxyInv'
<1> DEFINE q == stream[conn[c]]
           h == q[1]
           r == h.r
           rest(n) == SubSeq(q, 2, n)
           close == r.kind = "CloseDelimited"
           h2 == [h EXCEPT !.r = [r EXCEPT !.headers = ForwardedHeaders(c, r)]]
           w == IF close THEN "until_close" ELSE IF r.kind = "None" THEN "finish" ELSE "body"
<1>1. ProxyTypeOK /\ Exchange(c) /\ Ownership
  BY DEF ProxyInv, Exchanges
<1>2. /\ pc[c] = "head"
      /\ UNCHANGED <<now, request, pool, inbox, end, sent>>
  BY DEF ReadHead
<1>3. PICK n \in 1..Len(q) :
        IF h.t # "head" \/ ~HeadEncodes(c, r)
        THEN Reads(c, n) /\ Ends(c) /\ UNCHANGED <<received, dbuf, resp, got>>
        ELSE /\ Reads(c, n)
             /\ resp' = [resp EXCEPT ![c] = r]
             /\ got' = [got EXCEPT ![c] = Append(@, h2)]
             /\ out' = [out EXCEPT ![c] = IF close THEN TakeRemaining(rest(n)) ELSE << >>]
             /\ dbuf' = [dbuf EXCEPT ![c] = IF close THEN << >> ELSE rest(n)]
             /\ pc' = [pc EXCEPT ![c] = w]
             /\ UNCHANGED <<received, conn>>
  BY Zenon DEF ReadHead, Goto
<1>4. q # << >>
  <2>1. Len(<< >>) = 0 /\ 1..0 = {}
    BY EmptySeq
  <2> QED
    BY <1>3, <2>1
<1>5. /\ conn[c] \in Conns /\ inbox[conn[c]] = << >>
      /\ q = sent[c] /\ q \in Seq(Symbols)
      /\ got[c] = << >> /\ out[c] = << >> /\ dbuf[c] = << >>
      /\ r \in Responses /\ r \in Response /\ h = HeadOf(c, r) /\ h \in Symbols
      /\ request[c].method # "CONNECT"
      /\ r.kind = "None" => Len(q) = 1
  BY <1>2, <1>4, HeadArrived, Zenon
<1>6. /\ stream'[conn[c]] = SubSeq(q, n + 1, Len(q))
      /\ \A k \in Conns : k # conn[c] => stream'[k] = stream[k]
      /\ stream' \in [Conns -> Seq(Symbols)]
  <2>1. Reads(c, n)
    BY <1>3
  <2> QED
    BY <1>1, <1>5, <2>1, ReadsEffect
<1>7. CASE h.t # "head" \/ ~HeadEncodes(c, r)
  <2>1. /\ pc' = [pc EXCEPT ![c] = "done"] /\ conn' = [conn EXCEPT ![c] = Nobody]
        /\ out' = [out EXCEPT ![c] = << >>] /\ UNCHANGED <<received, dbuf, resp, got>>
    BY <1>3, <1>7 DEF Ends, Goto
  <2>2. Relayed(c)'
    BY <1>5, <2>1 DEF Relayed
  <2> QED
    BY <1>1, <1>2, <1>5, <1>6, <2>1, <2>2, DropStep DEF ProxyTypeOK
<1>8. CASE ~(h.t # "head" \/ ~HeadEncodes(c, r))
  <2>1. /\ resp' = [resp EXCEPT ![c] = r]
        /\ got' = [got EXCEPT ![c] = Append(@, h2)]
        /\ out' = [out EXCEPT ![c] = IF close THEN rest(n) ELSE << >>]
        /\ dbuf' = [dbuf EXCEPT ![c] = IF close THEN << >> ELSE rest(n)]
        /\ pc' = [pc EXCEPT ![c] = w]
        /\ UNCHANGED <<received, conn>>
    BY <1>3, <1>8, Zenon DEF TakeRemaining
  <2>2. h2 \in Symbols /\ h2.req = c /\ h2.t = "head" /\ h2.r.headers = ForwardedHeaders(c, r)
    <3>1. [r EXCEPT !.headers = ForwardedHeaders(c, r)] \in Response
      BY <1>5, ForwardedTypes
    <3>2. h.req = c /\ h.t = "head"
      BY <1>5 DEF HeadOf
    <3>3. [r EXCEPT !.headers = ForwardedHeaders(c, r)].headers = ForwardedHeaders(c, r)
      BY <1>5 DEF Response
    <3> QED
      BY <1>5, <3>1, <3>2, <3>3 DEF Symbols
  <2>3. Append(<< >>, h2) = <<h2>>
    OBVIOUS
  <2>4. /\ rest(n) \in Seq(Symbols) /\ SubSeq(q, n + 1, Len(q)) \in Seq(Symbols) /\ <<h2>> \in Seq(Symbols)
        /\ LaidOut(<<h2>>, rest(n), << >>, SubSeq(q, n + 1, Len(q)), q)
        /\ LaidOut(<<h2>>, << >>, rest(n), SubSeq(q, n + 1, Len(q)), q)
        /\ Len(q) = 1 => rest(n) = << >> /\ SubSeq(q, n + 1, Len(q)) = << >>
    <3>1. q \in Seq(Symbols) /\ h2 \in Symbols /\ n \in 1..Len(q)
      BY <1>3, <1>5, <2>2
    <3> HIDE DEF h2, q
    <3> QED
      BY <3>1, LaidOutHead, Zenon
  <2> DEFINE u == rest(n)
  <2> HIDE DEF h2, u
  <2>5. /\ pc'[c] = w /\ conn'[c] = conn[c] /\ resp'[c] = r /\ got'[c] = <<h2>>
        /\ out'[c] = (IF close THEN u ELSE << >>) /\ dbuf'[c] = (IF close THEN << >> ELSE u)
        /\ \A d \in Clients \ {c} :
              /\ pc'[d] = pc[d] /\ conn'[d] = conn[d] /\ dbuf'[d] = dbuf[d]
              /\ resp'[d] = resp[d] /\ out'[d] = out[d] /\ got'[d] = got[d]
    BY <1>1, <1>5, <2>1, <2>3 DEF ProxyTypeOK, u
  <2>6. OnlyOf(c)
    BY <1>2, <1>6, <2>5 DEF OnlyOf
  <2>7. ProxyTypeOK'
    <3>1. pc' \in [Clients -> Places]
      <4>1. w \in Places
        BY DEF Places, Forwarding
      <4> QED
        BY <1>1, <2>1, <4>1 DEF ProxyTypeOK
    <3>2. got' \in [Clients -> Seq(Symbols)]
      BY <1>1, <1>5, <2>1, <2>3, <2>4 DEF ProxyTypeOK
    <3>3. resp' \in [Clients -> Response \cup {NoResponse}]
      BY <1>1, <1>5, <2>1 DEF ProxyTypeOK
    <3>4. out' \in [Clients -> Seq(Symbols)] /\ dbuf' \in [Clients -> Seq(Symbols)]
      BY <1>1, <2>1, <2>4, EmptySeq DEF ProxyTypeOK
    <3> QED
      BY <1>1, <1>2, <1>6, <2>1, <3>1, <3>2, <3>3, <3>4 DEF ProxyTypeOK, pool
  <2>8. LaidOut(got'[c], out'[c], dbuf'[c], stream'[conn[c]], q)
    BY <1>6, <2>4, <2>5 DEF u
  <2>9. Relayed(c)'
    <3>1. \A x : ForwardedHeaders(c, x)' = ForwardedHeaders(c, x)
      BY <1>2 DEF ForwardedHeaders
    <3>2. Len(<<h2>>) = 1 /\ <<h2>>[1] = h2 /\ SameBody(<<h2>>, q)
      BY <2>4 DEF LaidOut
    <3>3. 1 <= Len(q)
      BY <1>3, <1>5, LenProperties
    <3> QED
      BY <1>2, <1>5, <2>2, <2>5, <3>1, <3>2, <3>3 DEF Relayed
  <2>10. SentOf(c)'
    <3>1. \A x : Message(c, x)' = Message(c, x)
      BY DEF Message
    <3> QED
      BY <1>1, <1>2, <3>1 DEF Exchange, SentOf
  <2>11. InFlight(c)'
    BY <1>2, <1>5, <2>5, <2>8 DEF InFlight
  <2>12. w = "finish" => Len(got'[c]) + Len(out'[c]) = Len(q)
    <3>1. ASSUME w = "finish" PROVE out'[c] = << >> /\ Len(q) = 1
      BY <1>5, <2>5, <3>1
    <3>2. Len(<< >>) = 0 /\ Len(<<h2>>) = 1 /\ 1 + 0 = 1
      BY EmptySeq
    <3> QED
      BY <2>5, <3>1, <3>2, Zenon
  <2>13. Exchange(c)'
    <3>1. r.kind \in {"None", "ContentLength", "Chunked", "CloseDelimited"}
      BY <1>5 DEF Response
    <3>2. request'[c].method # "CONNECT" /\ sent'[c] = q
      BY <1>2, <1>5
    <3>3. w \in {"until_close", "finish", "body"}
      OBVIOUS
    <3>4. pc'[c] \notin Early \cup {"head"} /\ pc'[c] # "release"
      BY <2>5, <3>3 DEF Early
    <3>5. pc'[c] = "body" => resp'[c].kind \in {"ContentLength", "Chunked"}
      BY <2>5, <3>1
    <3>6. pc'[c] = "until_close" => resp'[c].kind = "CloseDelimited" /\ dbuf'[c] = << >>
      BY <2>5
    <3>7. pc'[c] = "finish" => Len(got'[c]) + Len(out'[c]) = Len(sent'[c])
      BY <2>5, <2>12, <3>2
    <3> QED
      BY <2>9, <2>10, <2>11, <3>2, <3>4, <3>5, <3>6, <3>7, Zenon DEF Exchange, Early
  <2>14. conn'[c] # Nobody <=> pc'[c] \in Holding
    BY <1>1, <1>2, <2>5 DEF Ownership, Holding, Forwarding
  <2> QED
    BY <1>5, <2>5, <2>6, <2>7, <2>13, <2>14, TaskStep
<1> QED
  BY <1>7, <1>8

-----------------------------------------------------------------------------
(* The pool.                                                               *)

\* A step that takes connections out of the pool, or puts the connection of a
\* task that ends into it, and leaves everything on the connections alone.
LEMMA PoolStep ==
    ASSUME ProxyInv, ProxyTypeOK', Ownership',
           UNCHANGED <<now, request, dbuf, resp, got, upstream>>, made' >= made,
           \A i \in DOMAIN idle' : Quiet(idle'[i]),
           \A d \in Clients : pc[d] = "head" => pc'[d] = pc[d] /\ conn'[d] = conn[d],
           \A d \in Clients : \/ pc'[d] = pc[d] /\ conn'[d] = conn[d] /\ out'[d] = out[d]
                              \/ Exchange(d)'
    PROVE  ProxyInv'
<1>1. ProxyTypeOK /\ Ownership /\ QuietConns /\ Exchanges
  BY DEF ProxyInv
<1>2. inbox' = inbox /\ stream' = stream /\ end' = end /\ sent' = sent
  BY DEF upstream
<1>3. \A k : Quiet(k)' = Quiet(k)
  BY <1>2 DEF Quiet
<1>4. QuietConns'
  <2>1. \A i \in DOMAIN idle' : inbox'[idle'[i]] = << >> /\ stream'[idle'[i]] = << >>
    BY <1>2 DEF Quiet
  <2>2. \A k \in Conns : k > made' => inbox'[k] = << >> /\ stream'[k] = << >>
    <3>1. \A k \in Conns : k > made' => k > made
      BY <1>1, ProxyAssumption DEF ProxyTypeOK, Conns
    <3> QED
      BY <1>1, <1>2, <3>1 DEF QuietConns, Quiet
  <2>3. \A k \in Conns : inbox'[k] # << >> =>
           /\ end'[k] = "open"
           /\ \E d \in Clients : inbox'[k] = <<d>> /\ pc'[d] = "head" /\ conn'[d] = k
    BY <1>1, <1>2 DEF QuietConns
  <2> QED
    BY <2>1, <2>2, <2>3 DEF QuietConns, Quiet
<1>5. ASSUME NEW d \in Clients, pc'[d] = pc[d], conn'[d] = conn[d], out'[d] = out[d] PROVE Exchange(d)'
  BY <1>2, <1>5, ExchangeFrame
<1>6. Exchanges'
  BY <1>5 DEF Exchanges
<1> QED
  BY <1>4, <1>6 DEF ProxyInv

\* A task without a connection yet: its exchange has not begun.
LEMMA EarlyExchange ==
    ASSUME ProxyInv, NEW c \in Clients, pc[c] \in {"acquire", "connect"},
           UNCHANGED <<request, dbuf, out, got, sent>>,
           pc'[c] \in {"connect", "send"}, pc'[c] = "send" => Quiet(conn[c])'
    PROVE  Exchange(c)'
<1>1. Exchange(c)
  BY DEF ProxyInv, Exchanges
<1>2. /\ got[c] = << >> /\ out[c] = << >> /\ dbuf[c] = << >> /\ sent[c] = << >>
      /\ request[c].method # "CONNECT"
  BY <1>1 DEF Exchange, Early
<1>3. SentOf(c)' /\ Relayed(c)'
  BY <1>2 DEF SentOf, Relayed
<1> QED
  BY <1>2, <1>3 DEF Exchange, Early, Forwarding

\* The first n elements.
LEMMA FrontPart ==
    ASSUME NEW S, NEW s \in Seq(S), NEW n \in Nat, n <= Len(s)
    PROVE  /\ SubSeq(s, 1, n) \in Seq(S) /\ Len(SubSeq(s, 1, n)) = n
           /\ DOMAIN SubSeq(s, 1, n) = 1..n /\ \A i \in 1..n : SubSeq(s, 1, n)[i] = s[i]
<1>1. SubSeq(s, 1, n) \in Seq(S) /\ Len(SubSeq(s, 1, n)) = n /\ \A i \in 1..n : SubSeq(s, 1, n)[i] = s[i]
  BY LenProperties, Slice
<1> QED
  BY <1>1, LenProperties

\* A set of numbers up to n has a largest one: the position that try_acquire
\* stops at exists.
LEMMA LastOfNumbers ==
    ASSUME NEW n \in Nat, NEW V \in SUBSET (1..n), V # {}
    PROVE  (CHOOSE i \in V : \A j \in V : j <= i) \in V
<1> DEFINE T == {k \in Nat : \E i \in V : k = n - i}
           R == OpToRel(<, Nat)
<1>1. T \subseteq Nat /\ T # {}
  <2>1. PICK i \in V : TRUE
    OBVIOUS
  <2>2. n - i \in Nat
    BY <2>1
  <2>3. n - i \in T
    BY <2>1, <2>2
  <2> QED
    BY <2>3
<1>2. PICK m \in T : \A y \in T : ~(<<y, m>> \in R)
  <2>1. IsWellFoundedOn(R, Nat)
    BY NatLessThanWellFounded
  <2> HIDE DEF T, R
  <2> QED
    BY <1>1, <2>1, WFMin
<1>3. \A y \in T : ~(y < m)
  <2>1. \A y \in Nat : y < m => <<y, m>> \in R
    BY <1>1, <1>2 DEF OpToRel
  <2> QED
    BY <1>1, <1>2, <2>1
<1>4. PICK i \in V : m = n - i
  BY <1>2
<1>5. ASSUME NEW j \in V PROVE j <= i
  <2>1. n - j \in T
    OBVIOUS
  <2>2. ~(n - j < n - i)
    BY <1>3, <1>4, <2>1
  <2> QED
    BY <2>2
<1>6. \E x \in V : \A j \in V : j <= x
  BY <1>5
<1> QED
  BY <1>6, Zenon

LEMMA TryAcquirePreserves ==
    ASSUME ProxyInv, NEW c \in Clients, TryAcquire(c)
    PROVE  ProxyInv'
<1> DEFINE valid == {i \in DOMAIN idle : IsValid(idle[i])}
           top == CHOOSE i \in valid : \A j \in valid : j <= i
<1>1. ProxyTypeOK /\ Ownership /\ QuietConns
  BY DEF ProxyInv
<1>2. /\ pc[c] = "acquire"
      /\ UNCHANGED <<now, request, created, made, received, dbuf, resp, out, got, upstream>>
  BY DEF TryAcquire
<1>3. /\ made \in Nat /\ DOMAIN idle = 1..Len(idle) /\ Len(idle) \in Nat
      /\ \A i \in DOMAIN idle : idle[i] \in 1..made
      /\ \A k \in 1..made : k \in Conns /\ k # Nobody
  BY <1>1, ConnRanges
<1>4. conn[c] = Nobody
  BY <1>1, <1>2 DEF Ownership, Holding, Forwarding
<1>5. MaxPerHost \in Nat /\ Len(idle) <= MaxPerHost /\ made' >= made
  BY <1>1, <1>2, <1>3, ProxyAssumption DEF Ownership
<1>6. CASE valid = {}
  <2>1. /\ idle' = << >> /\ pc' = [pc EXCEPT ![c] = "connect"] /\ UNCHANGED <<conn, last_used>>
    BY <1>6 DEF TryAcquire, Goto
  <2>2. /\ pc'[c] = "connect" /\ \A d \in Clients \ {c} : pc'[d] = pc[d]
    BY <1>1, <2>1 DEF ProxyTypeOK
  <2>3. idle' \in Seq(1..made) /\ Len(idle') = 0 /\ DOMAIN idle' = {}
    BY <2>1, EmptySeq
  <2>4. ProxyTypeOK'
    <3>1. pc' \in [Clients -> Places]
      BY <1>1, <2>1 DEF ProxyTypeOK, Places, Early
    <3> QED
      BY <1>1, <1>2, <2>1, <2>3, <3>1 DEF ProxyTypeOK, upstream
  <2>5. Ownership'
    BY <1>1, <1>2, <1>5, <2>1, <2>2, <2>3 DEF Ownership, Holding, Forwarding
  <2>6. Exchange(c)'
    BY <1>2, <2>2, EarlyExchange DEF upstream
  <2> QED
    BY <1>2, <1>5, <2>1, <2>2, <2>3, <2>4, <2>5, <2>6, PoolStep
<1>7. CASE valid # {}
  <2>1. /\ idle' = SubSeq(idle, 1, top - 1)
        /\ conn' = [conn EXCEPT ![c] = idle[top]]
        /\ last_used' = [last_used EXCEPT ![idle[top]] = now]
        /\ pc' = [pc EXCEPT ![c] = "send"]
    BY <1>7, Zenon DEF TryAcquire, Goto
  <2>2. top \in DOMAIN idle
    <3>1. valid \in SUBSET (1..Len(idle))
      BY <1>3
    <3> HIDE DEF valid
    <3>2. top \in valid
      BY <1>3, <1>7, <3>1, LastOfNumbers, Zenon
    <3> QED
      BY <1>3, <3>1, <3>2
  <2> HIDE DEF top, valid
  <2>3. top \in 1..Len(idle) /\ idle[top] \in 1..made /\ idle[top] \in Conns /\ idle[top] # Nobody
    BY <1>3, <2>2
  <2>4. /\ idle' \in Seq(1..made) /\ Len(idle') = top - 1 /\ DOMAIN idle' = 1..(top - 1)
        /\ \A i \in 1..(top - 1) : idle'[i] = idle[i]
    <3>1. idle \in Seq(1..made) /\ top - 1 \in Nat /\ top - 1 <= Len(idle)
      BY <1>1, <1>3, <2>3 DEF ProxyTypeOK
    <3> DEFINE t == top - 1
    <3> HIDE DEF t
    <3>2. idle \in Seq(1..made) /\ t \in Nat /\ t <= Len(idle)
      BY <3>1 DEF t
    <3>3. /\ SubSeq(idle, 1, t) \in Seq(1..made) /\ Len(SubSeq(idle, 1, t)) = t
          /\ DOMAIN SubSeq(idle, 1, t) = 1..t /\ \A i \in 1..t : SubSeq(idle, 1, t)[i] = idle[i]
      BY <3>2, FrontPart, Zenon
    <3> QED
      BY <2>1, <3>3, Zenon DEF t
  <2>5. /\ pc'[c] = "send" /\ conn'[c] = idle[top]
        /\ \A d \in Clients \ {c} : pc'[d] = pc[d] /\ conn'[d] = conn[d]
    BY <1>1, <2>1 DEF ProxyTypeOK
  <2>6. \A i \in DOMAIN idle' : i \in DOMAIN idle /\ idle'[i] = idle[i] /\ i # top
    BY <1>3, <2>3, <2>4
  <2>7. ProxyTypeOK'
    <3>1. pc' \in [Clients -> Places]
      BY <1>1, <2>1 DEF ProxyTypeOK, Places, Early
    <3>2. conn' \in [Clients -> 0..made]
      <4>1. idle[top] \in 0..made
        BY <1>3, <2>3
      <4>2. conn \in [Clients -> 0..made]
        BY <1>1 DEF ProxyTypeOK
      <4> QED
        BY <2>1, <4>1, <4>2, Zenon
    <3>3. last_used' \in [Conns -> Nat]
      <4>1. last_used \in [Conns -> Nat] /\ now \in Nat
        BY <1>1 DEF ProxyTypeOK
      <4> QED
        BY <2>1, <4>1
    <3> QED
      BY <1>1, <1>2, <2>4, <3>1, <3>2, <3>3 DEF ProxyTypeOK, upstream
  <2>8. Ownership'
    <3>1. Len(idle') <= MaxPerHost
      BY <1>3, <1>5, <2>3, <2>4
    <3>2. \A i, j \in DOMAIN idle' : idle'[i] = idle'[j] => i = j
      BY <1>1, <2>6 DEF Ownership
    <3>3. \A i \in DOMAIN idle' : \A d \in Clients : conn'[d] # idle'[i]
      BY <1>1, <2>2, <2>5, <2>6 DEF Ownership
    <3>4. \A d \in Clients : conn'[d] # Nobody <=> pc'[d] \in Holding
      BY <1>1, <2>3, <2>5 DEF Ownership, Holding
    <3>5. \A d, e \in Clients : conn'[d] = conn'[e] /\ conn'[d] # Nobody => d = e
      BY <1>1, <2>2, <2>5 DEF Ownership
    <3> QED
      BY <3>1, <3>2, <3>3, <3>4, <3>5 DEF Ownership
  <2>9. \A i \in DOMAIN idle' : Quiet(idle'[i])
    BY <1>1, <2>6 DEF QuietConns
  <2>10. Exchange(c)'
    <3>1. Quiet(idle[top])
      BY <1>1, <2>2 DEF QuietConns
    <3>2. Quiet(conn[c])'
      BY <1>2, <2>5, <3>1 DEF Quiet, upstream
    <3> QED
      BY <1>2, <2>5, <3>2, EarlyExchange DEF upstream
  <2> QED
    BY <1>2, <1>5, <2>5, <2>7, <2>8, <2>9, <2>10, PoolStep
<1> QED
  BY <1>6, <1>7

LEMMA CreateConnectionPreserves ==
    ASSUME ProxyInv, NEW c \in Clients, CreateConnection(c)
    PROVE  ProxyInv'
<1> DEFINE k == made + 1
<1>1. ProxyTypeOK /\ Ownership /\ QuietConns
  BY DEF ProxyInv
<1>2. /\ pc[c] = "connect" /\ made < MaxConns /\ made' = k
      /\ conn' = [conn EXCEPT ![c] = k] /\ pc' = [pc EXCEPT ![c] = "send"]
      /\ created' = [created EXCEPT ![k] = now] /\ last_used' = [last_used EXCEPT ![k] = now]
      /\ UNCHANGED <<now, request, idle, received, dbuf, resp, out, got, upstream>>
  BY DEF CreateConnection, Goto
<1>3. /\ made \in Nat /\ MaxConns \in Nat
      /\ \A i \in DOMAIN idle : idle[i] \in 1..made
      /\ \A d \in Clients : conn[d] \in 0..made
  BY <1>1, ConnRanges
<1>4. k \in Conns /\ k # Nobody /\ k > made /\ k \in 0..k /\ 0..made \subseteq 0..k /\ 1..made \subseteq 1..k
      /\ k \in 0..MaxConns /\ made' >= made
  BY <1>2, <1>3 DEF Conns, Nobody
<1>5. /\ pc'[c] = "send" /\ conn'[c] = k
      /\ \A d \in Clients \ {c} : pc'[d] = pc[d] /\ conn'[d] = conn[d]
  BY <1>1, <1>2 DEF ProxyTypeOK
<1>6. (\A i \in DOMAIN idle : idle[i] # k) /\ \A d \in Clients : conn[d] # k
  BY <1>3
<1> HIDE DEF k
<1>7. ProxyTypeOK'
  <2>1. pc' \in [Clients -> Places]
    BY <1>1, <1>2 DEF ProxyTypeOK, Places, Early
  <2>2. conn' \in [Clients -> 0..k]
    <3>1. conn \in [Clients -> 0..k]
      BY <1>1, <1>4 DEF ProxyTypeOK
    <3> QED
      BY <1>2, <1>4, <3>1, Zenon
  <2>3. created' \in [Conns -> Nat] /\ last_used' \in [Conns -> Nat]
    BY <1>1, <1>2 DEF ProxyTypeOK
  <2>4. idle \in Seq(1..k)
    <3>1. idle \in Seq(1..made)
      BY <1>1 DEF ProxyTypeOK
    <3>2. Len(idle) \in Nat /\ idle \in [1..Len(idle) -> 1..made]
      BY <3>1, LenProperties
    <3>3. idle \in [1..Len(idle) -> 1..k]
      BY <1>4, <3>2
    <3> QED
      BY <3>2, <3>3, SeqDef
  <2> QED
    BY <1>1, <1>2, <1>4, <2>1, <2>2, <2>3, <2>4 DEF ProxyTypeOK, upstream
<1>8. Ownership'
  <2>1. \A i \in DOMAIN idle : \A d \in Clients : conn'[d] # idle[i]
    BY <1>1, <1>5, <1>6 DEF Ownership
  <2>2. \A d \in Clients : conn'[d] # Nobody <=> pc'[d] \in Holding
    BY <1>1, <1>4, <1>5 DEF Ownership, Holding
  <2>3. \A d, e \in Clients : conn'[d] = conn'[e] /\ conn'[d] # Nobody => d = e
    BY <1>1, <1>5, <1>6 DEF Ownership
  <2> QED
    BY <1>1, <1>2, <2>1, <2>2, <2>3 DEF Ownership
<1>9. Exchange(c)'
  <2>1. Quiet(k)
    BY <1>1, <1>4 DEF QuietConns
  <2>2. Quiet(conn[c])'
    BY <1>2, <1>5, <2>1 DEF Quiet, upstream
  <2> QED
    BY <1>2, <1>5, <2>2, EarlyExchange DEF upstream
<1>10. \A i \in DOMAIN idle' : Quiet(idle'[i])
  BY <1>1, <1>2 DEF QuietConns
<1> QED
  BY <1>2, <1>4, <1>5, <1>7, <1>8, <1>9, <1>10, PoolStep

\* A task whose exchange is forwarded to its end leaves a quiet connection, and
\* only such a connection goes back to the pool.
LEMMA ReleasePreserves ==
    ASSUME ProxyInv, NEW c \in Clients, Release(c)
    PROVE  ProxyInv'
<1> DEFINE k == conn[c]
<1>1. ProxyTypeOK /\ Ownership /\ QuietConns /\ Exchange(c)
  BY DEF ProxyInv, Exchanges
<1>2. /\ pc[c] = "release"
      /\ last_used' = [last_used EXCEPT ![k] = now]
      /\ idle' = idle \/ (Len(idle) < MaxPerHost /\ idle' = Append(idle, k))
      /\ pc' = [pc EXCEPT ![c] = "done"] /\ conn' = [conn EXCEPT ![c] = Nobody]
      /\ out' = [out EXCEPT ![c] = << >>]
      /\ UNCHANGED <<now, request, created, made, received, dbuf, resp, got, upstream>>
  BY DEF Release, Ends, Goto
<1>3. /\ made \in Nat /\ MaxPerHost \in Nat /\ Len(idle) \in Nat /\ DOMAIN idle = 1..Len(idle)
      /\ \A i \in DOMAIN idle : idle[i] \in 1..made
      /\ k \in 1..made /\ k \in Conns /\ k # Nobody
  <2>1. k # Nobody
    BY <1>1, <1>2 DEF Ownership, Holding, Forwarding
  <2> QED
    BY <1>1, <2>1, ConnRanges, ProxyAssumption
<1>4. Quiet(k)
  <2>1. inbox[k] = << >>
    <3>1. \A d \in Clients : conn[d] = k => d = c
      BY <1>1, <1>3 DEF Ownership
    <3> QED
      BY <1>1, <1>2, <1>3, <3>1 DEF QuietConns
  <2>2. stream[k] = << >>
    <3>1. pc[c] \in Forwarding /\ Len(got[c]) + Len(out[c]) = Len(sent[c])
      BY <1>1, <1>2 DEF Exchange, Forwarding
    <3> QED
      BY <3>1, NothingBehind, Zenon
  <2> QED
    BY <2>1, <2>2 DEF Quiet
<1>5. /\ pc'[c] = "done" /\ conn'[c] = Nobody /\ out'[c] = << >>
      /\ \A d \in Clients \ {c} : pc'[d] = pc[d] /\ conn'[d] = conn[d] /\ out'[d] = out[d]
  BY <1>1, <1>2 DEF ProxyTypeOK
<1>6. /\ idle' \in Seq(1..made) /\ Len(idle') <= MaxPerHost
      /\ \A i \in DOMAIN idle' :
            (i \in DOMAIN idle /\ idle'[i] = idle[i]) \/ (i = Len(idle) + 1 /\ idle'[i] = k)
  <2>1. idle \in Seq(1..made) /\ Len(idle) <= MaxPerHost
    BY <1>1 DEF ProxyTypeOK, Ownership
  <2>2. CASE idle' = idle
    BY <2>1, <2>2, Zenon
  <2>3. CASE Len(idle) < MaxPerHost /\ idle' = Append(idle, k)
    <3>1. /\ Append(idle, k) \in Seq(1..made) /\ Len(Append(idle, k)) = Len(idle) + 1
          /\ \A i \in 1..Len(idle) : Append(idle, k)[i] = idle[i]
          /\ Append(idle, k)[Len(idle) + 1] = k
      BY <1>3, <2>1, AppendProperties
    <3>2. DOMAIN idle' = 1..(Len(idle) + 1)
      BY <2>3, <3>1, LenProperties
    <3>3. \A i \in 1..(Len(idle) + 1) : i \in 1..Len(idle) \/ i = Len(idle) + 1
      BY <1>3
    <3>4. Len(idle) + 1 <= MaxPerHost
      BY <1>3, <2>3
    <3> QED
      <4>1. \A i \in 1..Len(idle) : i \in DOMAIN idle
        BY <1>3
      <4> QED
        BY <2>3, <3>1, <3>2, <3>3, <3>4, <4>1
  <2> QED
    BY <1>2, <2>2, <2>3
<1> HIDE DEF k
<1>7. ProxyTypeOK'
  <2>1. pc' \in [Clients -> Places]
    BY <1>1, <1>2 DEF ProxyTypeOK, Places, Early
  <2>2. conn' \in [Clients -> 0..made]
    <3>1. conn \in [Clients -> 0..made] /\ Nobody \in 0..made
      BY <1>1, <1>3 DEF ProxyTypeOK, Nobody
    <3> QED
      BY <1>2, <3>1, Zenon
  <2>3. out' \in [Clients -> Seq(Symbols)] /\ last_used' \in [Conns -> Nat]
    BY <1>1, <1>2, EmptySeq DEF ProxyTypeOK
  <2> QED
    BY <1>1, <1>2, <1>6, <2>1, <2>2, <2>3 DEF ProxyTypeOK, upstream
<1>8. Ownership'
  <2>1. \A i \in DOMAIN idle : idle[i] # k /\ idle[i] # Nobody
    BY <1>1, <1>3, ConnRanges DEF Ownership, k
  <2>2. \A i, j \in DOMAIN idle' : idle'[i] = idle'[j] => i = j
    BY <1>1, <1>6, <2>1 DEF Ownership
  <2>3. \A i \in DOMAIN idle' : \A d \in Clients : conn'[d] # idle'[i]
    <3>1. \A d \in Clients \ {c} : conn[d] # k
      BY <1>1, <1>3 DEF Ownership, k
    <3> QED
      BY <1>1, <1>3, <1>5, <1>6, <2>1, <3>1 DEF Ownership
  <2>4. \A d \in Clients : conn'[d] # Nobody <=> pc'[d] \in Holding
    BY <1>1, <1>5 DEF Ownership, Holding, Forwarding
  <2>5. \A d, e \in Clients : conn'[d] = conn'[e] /\ conn'[d] # Nobody => d = e
    BY <1>1, <1>5 DEF Ownership
  <2> QED
    BY <1>6, <2>2, <2>3, <2>4, <2>5 DEF Ownership
<1>9. Exchange(c)'
  <2>1. SentOf(c)' /\ Relayed(c)'
    <3>1. \A x : ForwardedHeaders(c, x)' = ForwardedHeaders(c, x)
      BY <1>2 DEF ForwardedHeaders
    <3>2. \A r : Message(c, r)' = Message(c, r)
      BY DEF Message
    <3> QED
      BY <1>1, <1>2, <3>1, <3>2 DEF Exchange, SentOf, Relayed, upstream
  <2> QED
    BY <1>5, <2>1 DEF Exchange, Early, Forwarding
<1>10. \A i \in DOMAIN idle' : Quiet(idle'[i])
  BY <1>1, <1>4, <1>6 DEF QuietConns
<1>11. made' >= made /\ \A d \in Clients : pc[d] = "head" => d # c
  BY <1>2, <1>3
<1> QED
  BY <1>2, <1>5, <1>7, <1>8, <1>9, <1>10, <1>11, PoolStep

\* The kept connections are some of the idle ones, each at most once.
LEMMA CleanupExpiredPreserves ==
    ASSUME ProxyInv, CleanupExpired
    PROVE  ProxyInv'
<1> DEFINE valid == {i \in DOMAIN idle : IsValid(idle[i])}
           n == Cardinality(valid)
<1>1. ProxyTypeOK /\ Ownership /\ QuietConns
  BY DEF ProxyInv
<1>2. UNCHANGED <<now, request, created, last_used, made, pc, task, upstream>>
  BY DEF CleanupExpired
<1>3. PICK at \in [1..n -> valid] :
         /\ \A i, j \in 1..n : i < j => at[i] < at[j]
         /\ idle' = [i \in 1..n |-> idle[at[i]]]
  BY Zenon DEF CleanupExpired
<1>4. /\ made \in Nat /\ Len(idle) \in Nat /\ DOMAIN idle = 1..Len(idle) /\ made' >= made
      /\ \A i \in DOMAIN idle : idle[i] \in 1..made
  BY <1>1, <1>2, ConnRanges
<1>5. n \in Nat /\ n <= Len(idle)
  <2>1. valid \in SUBSET (1..Len(idle))
    BY <1>4
  <2> HIDE DEF valid
  <2>2. IsFiniteSet(1..Len(idle)) /\ Cardinality(1..Len(idle)) = Len(idle)
    <3>1. ASSUME NEW m \in Nat PROVE IsFiniteSet(1..m) /\ Cardinality(1..m) = m
      <4>1. /\ IsFiniteSet(1..m) /\ 1 \in Int /\ m \in Int
            /\ Cardinality(1..m) = IF 1 > m THEN 0 ELSE m - 1 + 1
        BY FS_Interval
      <4> QED
        BY <4>1
    <3> QED
      BY <1>4, <3>1, Zenon
  <2>3. IsFiniteSet(valid) /\ Cardinality(valid) <= Cardinality(1..Len(idle))
    BY <2>1, <2>2, FS_Subset
  <2> QED
    BY <2>2, <2>3, FS_CardinalityType
<1>6. \A i \in 1..n : at[i] \in DOMAIN idle
  BY <1>3
<1> HIDE DEF n, valid
<1>7. \A i, j \in 1..n : at[i] = at[j] => i = j
  <2>1. SUFFICES ASSUME NEW i \in 1..n, NEW j \in 1..n, at[i] = at[j], i # j PROVE FALSE
    OBVIOUS
  <2>2. at[i] \in Int /\ ~(at[i] < at[i])
    BY <1>4, <1>6
  <2>3. i < j \/ j < i
    BY <1>5, <2>1
  <2> QED
    BY <1>3, <2>1, <2>2, <2>3
<1>8. /\ idle' \in Seq(1..made) /\ Len(idle') = n /\ DOMAIN idle' = 1..n
      /\ \A i \in 1..n : idle'[i] = idle[at[i]]
  <2>1. \A i \in 1..n : idle[at[i]] \in 1..made
    BY <1>4, <1>6
  <2> QED
    BY <1>3, <1>5, <2>1
<1>9. ProxyTypeOK'
  BY <1>1, <1>2, <1>8 DEF ProxyTypeOK, upstream, task
<1>10. Ownership'
  <2>1. Len(idle') <= MaxPerHost
    BY <1>1, <1>4, <1>5, <1>8, ProxyAssumption DEF Ownership
  <2>2. \A i, j \in DOMAIN idle' : idle'[i] = idle'[j] => i = j
    BY <1>1, <1>6, <1>7, <1>8 DEF Ownership
  <2>3. \A i \in DOMAIN idle' : \A d \in Clients : conn[d] # idle'[i]
    BY <1>1, <1>6, <1>8 DEF Ownership
  <2> QED
    BY <1>1, <1>2, <2>1, <2>2, <2>3 DEF Ownership, task
<1>11. \A i \in DOMAIN idle' : Quiet(idle'[i])
  BY <1>1, <1>6, <1>8 DEF QuietConns
<1> QED
  BY <1>2, <1>4, <1>9, <1>10, <1>11, PoolStep DEF task

-----------------------------------------------------------------------------
(* The upstream, the request on its way to it, and the clock.              *)

\* A step that changes no task and no connection: the clock, and an upstream
\* that closes a connection without answering.
LEMMA QuietStep ==
    ASSUME ProxyInv, ProxyTypeOK', UNCHANGED <<request, pool, pc, task, inbox, stream, sent>>,
           \A k \in Conns : inbox[k] # << >> => end'[k] = end[k]
    PROVE  ProxyInv'
<1>1. ProxyTypeOK /\ Ownership /\ QuietConns /\ Exchanges
  BY DEF ProxyInv
<1>2. Ownership'
  BY <1>1 DEF Ownership, pool, task
<1>3. QuietConns'
  BY <1>1 DEF QuietConns, Quiet, pool, task
<1>4. \A c \in Clients : Exchange(c)'
  BY ExchangeFrame DEF task
<1> QED
  BY <1>2, <1>3, <1>4 DEF ProxyInv, Exchanges

LEMMA TickPreserves ==
    ASSUME ProxyInv, Tick
    PROVE  ProxyInv'
<1>1. ProxyTypeOK'
  BY DEF ProxyInv, ProxyTypeOK, Tick, pool, task, upstream
<1> QED
  BY <1>1, QuietStep DEF Tick, upstream

LEMMA CloseIdlePreserves ==
    ASSUME ProxyInv, NEW k \in Conns, CloseIdle(k)
    PROVE  ProxyInv'
<1>1. ProxyTypeOK'
  BY DEF ProxyInv, ProxyTypeOK, CloseIdle, pool, task
<1>2. \A l \in Conns : inbox[l] # << >> => end'[l] = end[l]
  BY DEF ProxyInv, ProxyTypeOK, CloseIdle
<1> QED
  BY <1>1, <1>2, QuietStep DEF CloseIdle

\* A step that only concerns one connection, which the task of c holds.
LEMMA ConnStep ==
    ASSUME ProxyInv, NEW c \in Clients, ProxyTypeOK', Exchange(c)',
           conn[c] # Nobody, pc'[c] = "head", pc[c] \in Holding,
           UNCHANGED <<now, request, pool, task>>,
           \A d \in Clients \ {c} : pc'[d] = pc[d] /\ sent'[d] = sent[d],
           \A k \in Conns : k # conn[c] => inbox'[k] = inbox[k] /\ stream'[k] = stream[k] /\ end'[k] = end[k],
           inbox'[conn[c]] # << >> => inbox'[conn[c]] = <<c>> /\ end'[conn[c]] = "open"
    PROVE  ProxyInv'
<1>1. ProxyTypeOK /\ Ownership /\ QuietConns /\ Exchanges
  BY DEF ProxyInv
<1>2. UNCHANGED <<idle, made, conn, dbuf, resp, out, got>>
  BY DEF pool, task
<1>3. /\ made \in Nat /\ conn[c] \in 1..made /\ conn[c] \in Conns
      /\ \A i \in DOMAIN idle : idle[i] \in Conns /\ idle[i] # conn[c]
  BY <1>1, ConnRanges DEF Ownership
<1>4. Ownership'
  <2>1. \A d \in Clients : pc'[d] \in Holding <=> pc[d] \in Holding
    BY DEF Holding
  <2> QED
    BY <1>1, <1>2, <2>1 DEF Ownership
<1>5. QuietConns'
  <2>1. \A i \in DOMAIN idle : inbox'[idle[i]] = << >> /\ stream'[idle[i]] = << >>
    BY <1>1, <1>3 DEF QuietConns, Quiet
  <2>2. \A k \in Conns : k > made => inbox'[k] = << >> /\ stream'[k] = << >>
    <3>1. \A k \in Conns : k > made => k # conn[c]
      BY <1>3
    <3> QED
      BY <1>1, <3>1 DEF QuietConns, Quiet
  <2>3. ASSUME NEW k \in Conns, inbox'[k] # << >>
        PROVE  /\ end'[k] = "open"
               /\ \E d \in Clients : inbox'[k] = <<d>> /\ pc'[d] = "head" /\ conn[d] = k
    <3>1. CASE k = conn[c]
      BY <2>3, <3>1
    <3>2. CASE k # conn[c]
      <4>1. inbox[k] # << >> /\ inbox'[k] = inbox[k] /\ end'[k] = end[k]
        BY <2>3, <3>2
      <4>2. PICK d \in Clients : inbox[k] = <<d>> /\ pc[d] = "head" /\ conn[d] = k
        BY <1>1, <4>1 DEF QuietConns
      <4>3. d # c
        BY <3>2, <4>2
      <4> QED
        BY <1>1, <4>1, <4>2, <4>3 DEF QuietConns
    <3> QED
      BY <3>1, <3>2
  <2> QED
    BY <1>2, <2>1, <2>2, <2>3 DEF QuietConns, Quiet
<1>6. ASSUME NEW d \in Clients \ {c} PROVE Exchange(d)'
  <2>1. pc[d] \in Holding => conn[d] \in Conns /\ conn[d] # conn[c]
    BY <1>1, ConnRanges DEF Ownership
  <2> QED
    BY <1>2, <2>1, ExchangeFrame
<1> QED
  BY <1>4, <1>5, <1>6 DEF ProxyInv, Exchanges

LEMMA SendRequestPreserves ==
    ASSUME ProxyInv, NEW c \in Clients, SendRequest(c)
    PROVE  ProxyInv'
<1> DEFINE k == conn[c]
<1>1. ProxyTypeOK /\ Ownership /\ Exchange(c)
  BY DEF ProxyInv, Exchanges
<1>2. /\ pc[c] = "send" /\ pc' = [pc EXCEPT ![c] = "head"]
      /\ inbox' = IF end[k] = "open" THEN [inbox EXCEPT ![k] = Append(@, c)] ELSE inbox
      /\ UNCHANGED <<now, request, pool, task, stream, end, sent>>
  BY DEF SendRequest, Goto
<1>3. k # Nobody /\ k \in Conns
  <2>1. k # Nobody
    BY <1>1, <1>2 DEF Ownership, Holding
  <2> QED
    BY <1>1, <2>1, ConnRanges
<1>4. /\ inbox[k] = << >> /\ stream[k] = << >> /\ sent[c] = << >>
      /\ got[c] = << >> /\ out[c] = << >> /\ dbuf[c] = << >> /\ request[c].method # "CONNECT"
  BY <1>1, <1>2 DEF Exchange, Early, Quiet
<1> HIDE DEF k
<1>5. /\ pc'[c] = "head" /\ \A d \in Clients \ {c} : pc'[d] = pc[d]
      /\ inbox' \in [Conns -> Seq(Clients)]
      /\ \A l \in Conns : l # k => inbox'[l] = inbox[l]
      /\ inbox'[k] # << >> => inbox'[k] = <<c>> /\ end[k] = "open"
  <2>1. inbox \in [Conns -> Seq(Clients)] /\ pc \in [Clients -> Places]
    BY <1>1 DEF ProxyTypeOK
  <2>2. Append(<< >>, c) = <<c>> /\ <<c>> \in Seq(Clients)
    OBVIOUS
  <2> QED
    BY <1>2, <1>3, <1>4, <2>1, <2>2
<1>6. ProxyTypeOK'
  <2>1. pc' \in [Clients -> Places]
    BY <1>1, <1>2 DEF ProxyTypeOK, Places
  <2> QED
    BY <1>1, <1>2, <1>5, <2>1 DEF ProxyTypeOK, pool, task
<1>7. Exchange(c)'
  <2>1. SentOf(c)' /\ Relayed(c)'
    BY <1>2, <1>4 DEF SentOf, Relayed, task
  <2>2. stream'[conn'[c]] = sent'[c] /\ sent'[c] = << >>
    BY <1>2, <1>4 DEF task, k
  <2> QED
    BY <1>2, <1>4, <1>5, <2>1, <2>2 DEF Exchange, Early, Forwarding, task
<1>8. pc[c] \in Holding
  BY <1>2 DEF Holding
<1> QED
  BY <1>2, <1>3, <1>5, <1>6, <1>7, <1>8, ConnStep DEF k

\* What Answer does when the request of c is at the upstream.
LEMMA AnswerTo ==
    ASSUME ProxyInv, FinalOnly, NEW k \in Conns, Answer(k)
    PROVE  \E c \in Clients, r \in Responses, n \in Nat :
              /\ inbox[k] = <<c>> /\ pc[c] = "head" /\ conn[c] = k
              /\ n <= Len(Message(c, r)) /\ end[k] = "open" /\ Fits(c, r)
              /\ stream' = [stream EXCEPT ![k] = SubSeq(Message(c, r), 1, n)]
              /\ sent' = [sent EXCEPT ![c] = SubSeq(Message(c, r), 1, n)]
              /\ inbox' = [inbox EXCEPT ![k] = << >>]
              /\ end' \in [Conns -> {"open", "fin", "reset"}]
              /\ \A l \in Conns : l # k => end'[l] = end[l]
              /\ end'[k] = "reset" => r.kind \in Resettable
              /\ UNCHANGED <<now, request, pool, pc, task>>
<1>1. ProxyTypeOK /\ QuietConns /\ inbox[k] # << >> /\ end[k] = "open"
  BY DEF ProxyInv, Answer
<1>2. PICK c \in Clients : inbox[k] = <<c>> /\ pc[c] = "head" /\ conn[c] = k
  BY <1>1 DEF QuietConns
<1>3. <<c>>[1] = c /\ Tail(<<c>>) = << >>
  OBVIOUS
<1>4. PICK r \in {x \in Responses : Fits(inbox[k][1], x)} :
         \E n \in 0..Len(Message(inbox[k][1], r)) :
              /\ stream' = [stream EXCEPT ![k] = @ \o SubSeq(Message(inbox[k][1], r), 1, n)]
              /\ sent' = [sent EXCEPT ![inbox[k][1]] = SubSeq(Message(inbox[k][1], r), 1, n)]
              /\ IF n < Len(Message(inbox[k][1], r))
                 THEN \E how \in {"fin"} \cup (IF r.kind \in Resettable THEN {"reset"} ELSE {}) :
                         end' = [end EXCEPT ![k] = how]
                 ELSE end' = [end EXCEPT ![k] = IF CanReuse(r) THEN "open" ELSE "fin"]
  BY Zenon DEF Answer
<1>5. inbox' = [inbox EXCEPT ![k] = Tail(@)] /\ UNCHANGED <<now, request, pool, pc, task>>
  BY DEF Answer
<1>6. r \in Responses /\ Fits(c, r)
  BY <1>2, <1>3, <1>4
<1> DEFINE m == Message(c, r)
<1>7. PICK n \in 0..Len(m) :
              /\ stream' = [stream EXCEPT ![k] = @ \o SubSeq(m, 1, n)]
              /\ sent' = [sent EXCEPT ![c] = SubSeq(m, 1, n)]
              /\ \E how \in {"open", "fin"} \cup (IF r.kind \in Resettable THEN {"reset"} ELSE {}) :
                         end' = [end EXCEPT ![k] = how]
  <2>1. inbox[k][1] = c
    BY <1>2, <1>3
  <2>2. PICK n \in 0..Len(m) :
              /\ stream' = [stream EXCEPT ![k] = @ \o SubSeq(m, 1, n)]
              /\ sent' = [sent EXCEPT ![c] = SubSeq(m, 1, n)]
              /\ IF n < Len(m)
                 THEN \E how \in {"fin"} \cup (IF r.kind \in Resettable THEN {"reset"} ELSE {}) :
                         end' = [end EXCEPT ![k] = how]
                 ELSE end' = [end EXCEPT ![k] = IF CanReuse(r) THEN "open" ELSE "fin"]
    BY <1>4, <2>1, Zenon
  <2>3. \E how \in {"open", "fin"} \cup (IF r.kind \in Resettable THEN {"reset"} ELSE {}) :
                         end' = [end EXCEPT ![k] = how]
    BY <2>2, Zenon
  <2> QED
    BY <2>2, <2>3, Zenon
<1>8. m \in Seq(Symbols) /\ Len(m) \in Nat
  BY <1>6, MessagePositions, LenProperties
<1> HIDE DEF m
<1>9. n \in Nat /\ n <= Len(m) /\ SubSeq(m, 1, n) \in Seq(Symbols)
  BY <1>7, <1>8, FrontPart
<1>10. stream[k] = << >>
  BY <1>1, <1>2 DEF ProxyInv, Exchanges, Exchange
<1>11. << >> \o SubSeq(m, 1, n) = SubSeq(m, 1, n)
  BY <1>9, ConcatEmptySeq
<1>12. /\ end' \in [Conns -> {"open", "fin", "reset"}]
       /\ \A l \in Conns : l # k => end'[l] = end[l]
       /\ end'[k] = "reset" => r.kind \in Resettable
  BY <1>1, <1>7 DEF ProxyTypeOK
<1>13. /\ stream' = [stream EXCEPT ![k] = SubSeq(m, 1, n)]
       /\ inbox' = [inbox EXCEPT ![k] = << >>]
  BY <1>2, <1>3, <1>5, <1>7, <1>10, <1>11
<1> QED
  BY <1>1, <1>2, <1>5, <1>6, <1>7, <1>9, <1>12, <1>13, Zenon DEF m

LEMMA AnswerPreserves ==
    ASSUME ProxyInv, FinalOnly, NEW k \in Conns, Answer(k)
    PROVE  ProxyInv'
<1>1. PICK c \in Clients, r \in Responses, n \in Nat :
              /\ inbox[k] = <<c>> /\ pc[c] = "head" /\ conn[c] = k
              /\ n <= Len(Message(c, r)) /\ end[k] = "open" /\ Fits(c, r)
              /\ stream' = [stream EXCEPT ![k] = SubSeq(Message(c, r), 1, n)]
              /\ sent' = [sent EXCEPT ![c] = SubSeq(Message(c, r), 1, n)]
              /\ inbox' = [inbox EXCEPT ![k] = << >>]
              /\ end' \in [Conns -> {"open", "fin", "reset"}]
              /\ \A l \in Conns : l # k => end'[l] = end[l]
              /\ end'[k] = "reset" => r.kind \in Resettable
              /\ UNCHANGED <<now, request, pool, pc, task>>
  BY AnswerTo, Zenon
<1>2. ProxyTypeOK /\ Ownership /\ Exchange(c)
  BY DEF ProxyInv, Exchanges
<1> DEFINE m == Message(c, r)
           s == SubSeq(m, 1, n)
<1>3. m \in Seq(Symbols) /\ m[1] = HeadOf(c, r)
  BY MessagePositions
<1>4. HeadOf(c, r).r = r
  BY DEF HeadOf
<1> HIDE DEF m
<1>5. s \in Seq(Symbols) /\ Len(s) = n /\ \A i \in 1..n : s[i] = m[i]
  BY <1>1, <1>3, FrontPart DEF m
<1> HIDE DEF s
<1>6. s # << >> => s[1] = HeadOf(c, r)
  <2>1. s # << >> => 1 \in 1..n
    BY <1>5, EmptySeq
  <2> QED
    BY <1>3, <1>5, <2>1
<1>7. FoundAt(s, m, 0)
  <2>1. \A i \in 1..n : 0 + i = i
    BY <1>1
  <2> QED
    BY <1>5, <2>1 DEF FoundAt
<1>8. /\ stream' \in [Conns -> Seq(Symbols)] /\ stream'[k] = s
      /\ sent' \in [Clients -> Seq(Symbols)] /\ sent'[c] = s
      /\ inbox' \in [Conns -> Seq(Clients)] /\ inbox'[k] = << >>
      /\ \A d \in Clients \ {c} : sent'[d] = sent[d]
      /\ \A l \in Conns : l # k => inbox'[l] = inbox[l] /\ stream'[l] = stream[l]
  <2>1. << >> \in Seq(Clients)
    BY EmptySeq
  <2>2. stream' = [stream EXCEPT ![k] = s] /\ sent' = [sent EXCEPT ![c] = s] /\ inbox' = [inbox EXCEPT ![k] = << >>]
    BY <1>1 DEF s, m
  <2> QED
    BY <1>2, <1>5, <2>1, <2>2 DEF ProxyTypeOK
<1>9. ProxyTypeOK'
  BY <1>1, <1>2, <1>8 DEF ProxyTypeOK, pool, task
<1>10. /\ got[c] = << >> /\ out[c] = << >> /\ dbuf[c] = << >> /\ request[c].method # "CONNECT"
  BY <1>1, <1>2 DEF Exchange
<1>11. Exchange(c)'
  <2>1. Relayed(c)'
    BY <1>1, <1>10 DEF Relayed, task
  <2>2. SentOf(c)'
    <3>1. \A x : Message(c, x)' = Message(c, x)
      BY DEF Message
    <3>2. s # << >> => s[1].r = r
      BY <1>4, <1>6
    <3>3. Len(s) <= Len(m)
      BY <1>1, <1>5 DEF m
    <3> QED
      BY <1>7, <1>8, <3>1, <3>2, <3>3 DEF SentOf, m
  <2>3. stream'[conn'[c]] = sent'[c] /\ inbox'[conn'[c]] = << >> /\ pc'[c] = "head"
    BY <1>1, <1>8 DEF task
  <2> QED
    BY <1>1, <1>10, <2>1, <2>2, <2>3 DEF Exchange, Early, Forwarding, task
<1>12. conn[c] # Nobody /\ pc[c] \in Holding /\ pc'[c] = "head"
  BY <1>1, <1>2 DEF Ownership, Holding
<1> QED
  BY <1>1, <1>8, <1>9, <1>11, <1>12, ConnStep

-----------------------------------------------------------------------------
(* The invariant, and the properties that follow from it.                  *)

LEMMA InitProxyInv == Init => ProxyInv
<1> SUFFICES ASSUME Init PROVE ProxyInv
  OBVIOUS
<1>1. /\ made = 0 /\ idle = << >> /\ Len(idle) = 0 /\ DOMAIN idle = {}
      /\ \A S : << >> \in Seq(S)
  BY EmptySeq DEF Init
<1>2. ProxyTypeOK
  <2>1. 0 \in 0..MaxConns /\ Nobody \in 0..0 /\ idle \in Seq(1..0)
    BY <1>1, ProxyAssumption DEF Nobody
  <2>2. /\ pc \in [Clients -> Places] /\ resp \in [Clients -> Response \cup {NoResponse}]
        /\ end \in [Conns -> {"open", "fin", "reset"}]
    BY DEF Init, Places, Early
  <2>3. /\ dbuf \in [Clients -> Seq(Symbols)] /\ out \in [Clients -> Seq(Symbols)]
        /\ got \in [Clients -> Seq(Symbols)] /\ sent \in [Clients -> Seq(Symbols)]
        /\ inbox \in [Conns -> Seq(Clients)] /\ stream \in [Conns -> Seq(Symbols)]
    BY <1>1 DEF Init
  <2> QED
    BY <1>1, <2>1, <2>2, <2>3 DEF Init, ProxyTypeOK
<1>3. Ownership
  BY <1>1, ProxyAssumption DEF Init, Ownership, Holding, Forwarding
<1>4. QuietConns
  BY <1>1 DEF Init, QuietConns, Quiet
<1>5. ASSUME NEW c \in Clients PROVE Exchange(c)
  <2>1. /\ pc[c] = "request" /\ got[c] = << >> /\ out[c] = << >> /\ dbuf[c] = << >> /\ sent[c] = << >>
    BY DEF Init
  <2>2. SentOf(c) /\ Relayed(c)
    BY <2>1 DEF SentOf, Relayed
  <2> QED
    BY <2>1, <2>2 DEF Exchange, Early, Forwarding
<1> QED
  BY <1>2, <1>3, <1>4, <1>5 DEF ProxyInv, Exchanges

LEMMA NextProxyInv ==
    ASSUME FinalOnly, ProxyInv, [Next]_vars
    PROVE  ProxyInv'
<1>1. ASSUME NEW c \in Clients, Task(c) PROVE ProxyInv'
  <2>1. CASE ReceiveRequest(c)
    BY <2>1, ReceiveRequestPreserves
  <2>2. CASE TryAcquire(c)
    BY <2>2, TryAcquirePreserves
  <2>3. CASE CreateConnection(c)
    BY <2>3, CreateConnectionPreserves
  <2>4. CASE ConnectFails(c) \/ SendFails(c)
    BY <2>4, EndsPreserves
  <2>5. CASE SendRequest(c)
    BY <2>5, SendRequestPreserves
  <2>6. CASE ReadHead(c)
    BY <2>6, ReadHeadPreserves
  <2>7. CASE StreamBody(c)
    BY <2>7, StreamBodyPreserves
  <2>8. CASE EmptyBody(c)
    BY <2>8, EmptyBodyPreserves
  <2>9. CASE ReadBody(c)
    BY <2>9, ReadBodyPreserves
  <2>10. CASE CopyUntilClose(c)
    BY <2>10, CopyUntilClosePreserves
  <2>11. CASE UpstreamEnded(c)
    BY <2>11, UpstreamEndedPreserves
  <2>12. CASE Finish(c)
    BY <2>12, FinishPreserves
  <2>13. CASE Release(c)
    BY <2>13, ReleasePreserves
  <2> QED
    BY <1>1, <2>1, <2>2, <2>3, <2>4, <2>5, <2>6, <2>7, <2>8, <2>9, <2>10, <2>11, <2>12, <2>13 DEF Task
<1>2. ASSUME NEW c \in Clients, ClientDisconnects(c) \/ ClientGone(c) PROVE ProxyInv'
  BY <1>2, EndsPreserves
<1>3. ASSUME NEW k \in Conns, Answer(k) PROVE ProxyInv'
  BY <1>3, AnswerPreserves
<1>4. ASSUME NEW k \in Conns, CloseIdle(k) PROVE ProxyInv'
  BY <1>4, CloseIdlePreserves
<1>5. CASE CleanupExpired
  BY <1>5, CleanupExpiredPreserves
<1>6. CASE Tick
  BY <1>6, TickPreserves
<1>7. CASE UNCHANGED vars
  <2>1. ProxyTypeOK'
    BY <1>7 DEF ProxyInv, ProxyTypeOK, vars, pool, task, upstream
  <2> QED
    BY <1>7, <2>1, QuietStep DEF vars, upstream
<1> QED
  BY <1>1, <1>2, <1>3, <1>4, <1>5, <1>6, <1>7 DEF Next

\* The state of the proxy stays within its types: connection numbers are those
\* of connections that were made, buffers hold symbols of messages, and a task
\* is at one of the points that handle_client and stream_response_on_connection
\* have.
THEOREM ProxyTypes ==
    ASSUME FinalOnly
    PROVE  Spec => []ProxyTypeOK
<1>1. ProxyInv => ProxyTypeOK
  BY DEF ProxyInv
<1>2. ProxyInv /\ [Next]_vars => ProxyInv'
  BY NextProxyInv
<1> QED
  BY <1>1, <1>2, InitProxyInv, PTL DEF Spec

\* For every number of clients, connections and pool size: try_acquire, release
\* and cleanup_expired keep the pool's connections distinct and at most
\* max_connections_per_host, no task holds one of them, and none of them has an
\* unanswered request or an unread byte.
THEOREM PoolIsDisciplined ==
    ASSUME FinalOnly
    PROVE  Spec => []PoolDiscipline
<1>1. ProxyInv => PoolDiscipline
  BY DEF ProxyInv, Ownership, QuietConns, Quiet, PoolDiscipline
<1>2. ProxyInv /\ [Next]_vars => ProxyInv'
  BY NextProxyInv
<1> QED
  BY <1>1, <1>2, InitProxyInv, PTL DEF Spec

\* Sequences that agree behind their first symbols.
LEMMA SameTails ==
    ASSUME NEW S, NEW g \in Seq(S), NEW s \in Seq(S), g # << >>, Len(g) <= Len(s), SameBody(g, s)
    PROVE  /\ IsPrefix(Tail(g), Tail(s))
           /\ Len(g) = Len(s) => Tail(g) = Tail(s)
<1> DEFINE a == Tail(g)
           b == Tail(s)
           n == Len(g) - 1
           l == Len(s) - 1
<1>1. Len(g) \in Nat /\ Len(s) \in Nat /\ Len(g) >= 1 /\ Len(s) >= 1 /\ s # << >>
  BY LenProperties, EmptySeq
<1>2. n \in Nat /\ l \in Nat /\ n <= l
  BY <1>1
<1>3. a \in Seq(S) /\ Len(a) = n /\ \A i \in 1..n : a[i] = g[i + 1]
  BY <1>1, HeadTailProperties
<1>4. b \in Seq(S) /\ Len(b) = l /\ \A i \in 1..l : b[i] = s[i + 1]
  BY <1>1, HeadTailProperties
<1>5. \A i \in 1..n : a[i] = b[i]
  <2>1. SUFFICES ASSUME NEW i \in 1..n PROVE a[i] = b[i]
    OBVIOUS
  <2>2. i \in 1..l /\ i + 1 \in 2..Len(g)
    BY <1>1, <1>2
  <2>3. g[i + 1] = s[i + 1]
    BY <2>2 DEF SameBody
  <2> QED
    BY <1>3, <1>4, <2>2, <2>3, Zenon
<1>6. Len(g) = Len(s) => n = l
  OBVIOUS
<1> HIDE DEF a, b, n, l
<1>7. /\ SubSeq(a, 1, n) \in Seq(S) /\ Len(SubSeq(a, 1, n)) = n
      /\ \A i \in 1..n : SubSeq(a, 1, n)[i] = a[i]
  <2>1. n <= Len(a)
    BY <1>2, <1>3
  <2> QED
    BY <1>2, <1>3, <2>1, FrontPart, Zenon
<1>8. /\ SubSeq(b, 1, n) \in Seq(S) /\ Len(SubSeq(b, 1, n)) = n
      /\ \A i \in 1..n : SubSeq(b, 1, n)[i] = b[i]
  <2>1. n <= Len(b)
    BY <1>2, <1>4
  <2> QED
    BY <1>2, <1>4, <2>1, FrontPart, Zenon
<1>9. SubSeq(a, 1, n) = SubSeq(b, 1, n)
  BY <1>2, <1>5, <1>7, <1>8, SeqEqual
<1>10. IsPrefix(a, b)
  BY <1>2, <1>3, <1>4, <1>9 DEF IsPrefix
<1>11. n = l => a = b
  BY <1>3, <1>4, <1>5, SeqEqual
<1> QED
  BY <1>6, <1>10, <1>11 DEF a, b

\* Whatever the pool does and wherever the upstream breaks off, the bytes a
\* client gets from stream_response_on_connection are a front of the one
\* response that the upstream sent for its own request.
THEOREM ClientsGetTheirOwnResponse ==
    ASSUME FinalOnly
    PROVE  Spec => []OwnResponse
<1>1. ProxyInv => OwnResponse
  <2>1. SUFFICES ASSUME ProxyInv, NEW c \in Clients, got[c] # << >>, request[c].method # "CONNECT"
                 PROVE  got[c][1].req = c /\ IsPrefix(Tail(got[c]), Tail(sent[c]))
    BY DEF OwnResponse
  <2>2. Relayed(c) /\ got[c] \in Seq(Symbols) /\ sent[c] \in Seq(Symbols)
    BY <2>1 DEF ProxyInv, Exchanges, Exchange, ProxyTypeOK
  <2>3. Len(got[c]) <= Len(sent[c]) /\ SameBody(got[c], sent[c]) /\ got[c][1].req = c
    BY <2>1, <2>2 DEF Relayed
  <2> QED
    BY <2>1, <2>2, <2>3, SameTails, Zenon
<1>2. ProxyInv /\ [Next]_vars => ProxyInv'
  BY NextProxyInv
<1> QED
  BY <1>1, <1>2, InitProxyInv, PTL DEF Spec

-----------------------------------------------------------------------------
(* Bodies that end with the connection.                                    *)

\* A step of the task of c leaves the tasks of the others alone, what was sent
\* and how connections ended; got only grows at the end of a read or a write.
LEMMA TaskIsLocal ==
    ASSUME ProxyTypeOK, NEW c \in Clients, Task(c) \/ ClientDisconnects(c) \/ ClientGone(c)
    PROVE  /\ UNCHANGED <<request, end, sent>>
           /\ \A d \in Clients \ {c} :
                 pc'[d] = pc[d] /\ conn'[d] = conn[d] /\ resp'[d] = resp[d] /\ got'[d] = got[d]
<1> USE DEF ProxyTypeOK, Goto, Ends, task, upstream
<1>1. CASE ReceiveRequest(c)
  BY <1>1 DEF ReceiveRequest
<1>2. CASE TryAcquire(c)
  BY <1>2 DEF TryAcquire
<1>3. CASE CreateConnection(c)
  BY <1>3 DEF CreateConnection
<1>4. CASE ConnectFails(c)
  BY <1>4 DEF ConnectFails
<1>5. CASE SendRequest(c)
  BY <1>5 DEF SendRequest
<1>6. CASE SendFails(c)
  BY <1>6 DEF SendFails
<1>7. CASE ReadHead(c)
  BY <1>7, SMTT(30) DEF ReadHead
<1>8. CASE StreamBody(c)
  BY <1>8 DEF StreamBody, Write
<1>9. CASE EmptyBody(c)
  BY <1>9 DEF EmptyBody
<1>10. CASE ReadBody(c)
  BY <1>10 DEF ReadBody
<1>11. CASE CopyUntilClose(c)
  BY <1>11 DEF CopyUntilClose, Write
<1>12. CASE UpstreamEnded(c)
  BY <1>12 DEF UpstreamEnded
<1>13. CASE Finish(c)
  BY <1>13 DEF Finish
<1>14. CASE Release(c)
  BY <1>14 DEF Release
<1>15. CASE ClientDisconnects(c) \/ ClientGone(c)
  BY <1>15 DEF ClientDisconnects, ClientGone
<1> QED
  BY <1>1, <1>2, <1>3, <1>4, <1>5, <1>6, <1>7, <1>8, <1>9, <1>10, <1>11, <1>12, <1>13, <1>14, <1>15
     DEF Task

\* What has to be shown of the task that makes the step.
LEMMA ClosingStep ==
    ASSUME CloseInv, NEW c \in Clients, UNCHANGED <<request, end, sent>>,
           \A d \in Clients \ {c} :
              pc'[d] = pc[d] /\ conn'[d] = conn[d] /\ resp'[d] = resp[d] /\ got'[d] = got[d],
           conn'[c] \in {conn[c], Nobody} \/ sent[c] = << >>,
           pc'[c] = "release" => resp'[c].kind # "CloseDelimited",
           pc'[c] = "done" /\ resp'[c].kind = "CloseDelimited" =>
              \/ got'[c] = << >> \/ request[c].method = "CONNECT"
              \/ Len(got'[c]) = Len(sent[c])
    PROVE  CloseInv'
<1>1. \A d \in Clients : Closing(d)
  BY DEF CloseInv
<1>2. ASSUME NEW d \in Clients \ {c} PROVE Closing(d)'
  BY <1>1 DEF Closing
<1>3. Closing(c)'
  BY <1>1 DEF Closing
<1> QED
  BY <1>2, <1>3 DEF CloseInv

LEMMA TaskCloseInv ==
    ASSUME FinalOnly, "CloseDelimited" \notin Resettable, ProxyInv, CloseInv,
           NEW c \in Clients, Task(c) \/ ClientDisconnects(c) \/ ClientGone(c)
    PROVE  CloseInv'
<1>1. ProxyTypeOK /\ Exchange(c) /\ Closing(c) /\ Ownership
  BY DEF ProxyInv, Exchanges, CloseInv
<1>2. /\ UNCHANGED <<request, end, sent>>
      /\ \A d \in Clients \ {c} :
            pc'[d] = pc[d] /\ conn'[d] = conn[d] /\ resp'[d] = resp[d] /\ got'[d] = got[d]
  BY <1>1, TaskIsLocal
<1>3. /\ pc \in [Clients -> Places] /\ conn \in [Clients -> 0..made] /\ got \in [Clients -> Seq(Symbols)]
  BY <1>1 DEF ProxyTypeOK
<1>4. pc[c] \in Early \cup {"head"} => got[c] = << >>
  BY <1>1 DEF Exchange
<1>5. CASE ReceiveRequest(c) /\ request[c].method = "CONNECT"
  <2>1. pc'[c] = "done" /\ conn'[c] = Nobody
    BY <1>3, <1>5 DEF ReceiveRequest, Ends, Goto
  <2> QED
    BY <1>2, <1>5, <2>1, ClosingStep
<1>6. CASE (ReceiveRequest(c) /\ request[c].method # "CONNECT") \/ SendRequest(c)
  <2>1. pc'[c] \in {"acquire", "request", "head"} /\ conn'[c] = conn[c]
    BY <1>3, <1>6 DEF ReceiveRequest, SendRequest, Goto, task
  <2> QED
    BY <1>2, <2>1, ClosingStep
<1>7. CASE TryAcquire(c) \/ CreateConnection(c)
  <2>1. pc[c] \in {"acquire", "connect"} /\ pc'[c] \in {"send", "connect"}
    BY <1>3, <1>7 DEF TryAcquire, CreateConnection, Goto
  <2>2. sent[c] = << >>
    BY <1>1, <2>1 DEF Exchange, Early
  <2> QED
    BY <1>2, <2>1, <2>2, ClosingStep
<1>8. CASE ConnectFails(c) \/ SendFails(c) \/ ClientDisconnects(c)
  <2>1. pc[c] \in Early /\ pc'[c] = "done" /\ conn'[c] = Nobody /\ got' = got
    BY <1>3, <1>8 DEF ConnectFails, SendFails, ClientDisconnects, Ends, Goto, Early
  <2> QED
    BY <1>2, <1>4, <2>1, ClosingStep
<1>9. CASE ClientGone(c)
  <2>1. pc'[c] = "gone" /\ conn'[c] = Nobody
    BY <1>3, <1>9 DEF ClientGone, Goto
  <2> QED
    BY <1>2, <2>1, ClosingStep
<1>10. CASE ReadHead(c)
  <2>1. \/ pc'[c] = "done" /\ conn'[c] = Nobody /\ got' = got /\ pc[c] = "head"
        \/ pc'[c] \in {"until_close", "finish", "body"} /\ conn' = conn
    BY <1>3, <1>10 DEF ReadHead, Ends, Goto
  <2> QED
    BY <1>2, <1>4, <2>1, ClosingStep
<1>11. CASE StreamBody(c) \/ EmptyBody(c) \/ ReadBody(c) \/ CopyUntilClose(c)
  <2>1. pc'[c] \in {"finish", "body", "until_close"} /\ conn' = conn
    BY <1>3, <1>11 DEF StreamBody, EmptyBody, ReadBody, CopyUntilClose, Goto, task
  <2> QED
    BY <1>2, <2>1, ClosingStep
<1>12. CASE UpstreamEnded(c)
  <2>1. CASE pc[c] = "until_close" /\ end[conn[c]] = "fin"
    <3>1. pc'[c] = "finish" /\ conn' = conn
      BY <1>3, <1>12, <2>1 DEF UpstreamEnded, Goto
    <3> QED
      BY <1>2, <3>1, ClosingStep
  <2>2. CASE ~(pc[c] = "until_close" /\ end[conn[c]] = "fin")
    <3>1. /\ pc'[c] = "done" /\ conn'[c] = Nobody /\ UNCHANGED <<got, resp>>
          /\ pc[c] \in {"head", "body", "until_close"} /\ end[conn[c]] # "open"
      BY <1>3, <1>12, <2>2 DEF UpstreamEnded, Ends, Goto
    <3>2. CASE pc[c] = "head"
      BY <1>2, <1>4, <3>1, <3>2, ClosingStep
    <3>3. CASE pc[c] = "body"
      <4>1. resp[c].kind # "CloseDelimited"
        BY <1>1, <3>3 DEF Exchange
      <4> QED
        BY <1>2, <3>1, <4>1, ClosingStep
    <3>4. CASE pc[c] = "until_close"
      <4>1. conn[c] # Nobody /\ conn[c] \in Conns /\ pc[c] \in Forwarding
        BY <1>1, <3>4, ConnRanges DEF Ownership, Holding, Forwarding
      <4>2. end[conn[c]] = "reset"
        BY <1>1, <2>2, <3>1, <3>4, <4>1 DEF ProxyTypeOK
      <4>3. sent[c] # << >> /\ sent[c][1] = HeadOf(c, resp[c])
        BY <4>1, MessageEnds
      <4>4. sent[c][1].r = resp[c]
        BY <4>3 DEF HeadOf
      <4>5. resp[c].kind = "CloseDelimited"
        BY <1>1, <3>4 DEF Exchange
      <4> QED
        BY <1>1, <4>1, <4>2, <4>3, <4>4, <4>5 DEF Closing
    <3> QED
      BY <3>1, <3>2, <3>3, <3>4
  <2> QED
    BY <2>1, <2>2
<1>13. CASE Finish(c)
  <2>1. pc[c] = "finish" /\ resp' = resp /\ got' = [got EXCEPT ![c] = @ \o out[c]]
    BY <1>13 DEF Finish
  <2>2. Len(got'[c]) = Len(sent[c])
    <3>1. got[c] \in Seq(Symbols) /\ out[c] \in Seq(Symbols) /\ got'[c] = got[c] \o out[c]
      BY <1>1, <1>3, <2>1 DEF ProxyTypeOK
    <3>2. Len(got[c] \o out[c]) = Len(got[c]) + Len(out[c])
      BY <3>1, ConcatProperties
    <3> QED
      BY <1>1, <2>1, <3>1, <3>2 DEF Exchange
  <2>3. \/ pc'[c] = "release" /\ CanReuse(resp[c]) /\ conn' = conn
        \/ pc'[c] = "done" /\ conn'[c] = Nobody
    BY <1>3, <1>13 DEF Finish, Ends, Goto
  <2> QED
    BY <1>2, <2>1, <2>2, <2>3, ClosingStep DEF CanReuse
<1>14. CASE Release(c)
  <2>1. pc[c] = "release" /\ pc'[c] = "done" /\ conn'[c] = Nobody /\ resp' = resp
    BY <1>3, <1>14 DEF Release, Ends, Goto
  <2>2. resp[c].kind # "CloseDelimited"
    BY <1>1, <2>1 DEF Closing
  <2> QED
    BY <1>2, <2>1, <2>2, ClosingStep
<1> QED
  BY <1>5, <1>6, <1>7, <1>8, <1>9, <1>10, <1>11, <1>12, <1>13, <1>14 DEF Task

LEMMA AnswerCloseInv ==
    ASSUME FinalOnly, ProxyInv, CloseInv, NEW k \in Conns, Answer(k)
    PROVE  CloseInv'
<1>1. PICK c \in Clients, r \in Responses, n \in Nat :
              /\ inbox[k] = <<c>> /\ pc[c] = "head" /\ conn[c] = k
              /\ n <= Len(Message(c, r)) /\ end[k] = "open" /\ Fits(c, r)
              /\ stream' = [stream EXCEPT ![k] = SubSeq(Message(c, r), 1, n)]
              /\ sent' = [sent EXCEPT ![c] = SubSeq(Message(c, r), 1, n)]
              /\ inbox' = [inbox EXCEPT ![k] = << >>]
              /\ end' \in [Conns -> {"open", "fin", "reset"}]
              /\ \A l \in Conns : l # k => end'[l] = end[l]
              /\ end'[k] = "reset" => r.kind \in Resettable
              /\ UNCHANGED <<now, request, pool, pc, task>>
  BY AnswerTo, Zenon
<1>2. ProxyTypeOK /\ Ownership /\ \A d \in Clients : Closing(d)
  BY DEF ProxyInv, CloseInv
<1>3. pc' = pc /\ conn' = conn /\ resp' = resp /\ got' = got /\ request' = request
  BY <1>1 DEF task
<1> DEFINE s == SubSeq(Message(c, r), 1, n)
<1>4. sent'[c] = s /\ \A d \in Clients \ {c} : sent'[d] = sent[d]
  BY <1>1, <1>2 DEF ProxyTypeOK
<1>5. s # << >> => s[1].r = r
  <2>1. Message(c, r) \in Seq(Symbols) /\ Message(c, r)[1] = HeadOf(c, r)
    BY MessagePositions
  <2>2. s \in Seq(Symbols) /\ Len(s) = n /\ \A i \in 1..n : s[i] = Message(c, r)[i]
    BY <1>1, <2>1, FrontPart
  <2> HIDE DEF s
  <2>3. s # << >> => 1 \in 1..n
    BY <2>2, EmptySeq
  <2> QED
    BY <2>1, <2>2, <2>3 DEF HeadOf
<1> HIDE DEF s
<1>6. Closing(c)'
  BY <1>1, <1>3, <1>4, <1>5 DEF Closing
<1>7. ASSUME NEW d \in Clients \ {c} PROVE Closing(d)'
  <2>1. conn[d] # Nobody => conn[d] \in Conns /\ conn[d] # k
    BY <1>1, <1>2, ConnRanges DEF Ownership
  <2> QED
    BY <1>1, <1>2, <1>3, <1>4, <2>1 DEF Closing
<1> QED
  BY <1>6, <1>7 DEF CloseInv

LEMMA NextCloseInv ==
    ASSUME FinalOnly, "CloseDelimited" \notin Resettable, ProxyInv, CloseInv, [Next]_vars
    PROVE  CloseInv'
<1>1. ASSUME NEW c \in Clients, Task(c) \/ ClientDisconnects(c) \/ ClientGone(c) PROVE CloseInv'
  BY <1>1, TaskCloseInv
<1>2. ASSUME NEW k \in Conns, Answer(k) PROVE CloseInv'
  BY <1>2, AnswerCloseInv
<1>3. ASSUME NEW k \in Conns, CloseIdle(k) PROVE CloseInv'
  <2>1. /\ UNCHANGED <<request, pc, conn, resp, got, sent>>
        /\ end' = [end EXCEPT ![k] = "fin"]
    BY <1>3 DEF CloseIdle, task
  <2>2. \A d \in Clients : conn[d] # Nobody => conn[d] \in Conns /\ (end'[conn[d]] = "reset" => end[conn[d]] = "reset")
    BY <2>1, ConnRanges DEF ProxyInv, ProxyTypeOK
  <2> QED
    BY <2>1, <2>2 DEF CloseInv, Closing
<1>4. CASE CleanupExpired \/ Tick \/ UNCHANGED vars
  <2>1. UNCHANGED <<request, pc, conn, resp, got, sent, end>>
    BY <1>4 DEF CleanupExpired, Tick, vars, task, upstream
  <2> QED
    BY <2>1 DEF CloseInv, Closing
<1> QED
  BY <1>1, <1>2, <1>3, <1>4 DEF Next

\* The framing fields that the client reads are those of the body kind.
LEMMA FramingFields ==
    ASSUME NEW c \in Clients, NEW r \in Response
    PROVE  LET h == ForwardedHeaders(c, r)
           IN  /\ r.kind = "Chunked" => "transfer-encoding" \in h /\ "content-length" \notin h
               /\ r.kind = "ContentLength" => "content-length" \in h /\ "transfer-encoding" \notin h
               /\ r.kind = "CloseDelimited" => "content-length" \notin h /\ "transfer-encoding" \notin h
<1> DEFINE rest == {h \in r.headers : h \notin HopByHop \cup r.listed} \ {"content-length", "transfer-encoding"}
<1>1. "content-length" \notin rest /\ "transfer-encoding" \notin rest
  OBVIOUS
<1> HIDE DEF rest
<1>2. r.kind = "Chunked" => ForwardedHeaders(c, r) = rest \cup {"transfer-encoding"}
  BY DEF ForwardedHeaders, rest
<1>3. r.kind = "ContentLength" => ForwardedHeaders(c, r) = rest \cup {"content-length"}
  BY DEF ForwardedHeaders, rest
<1>4. r.kind = "CloseDelimited" => ForwardedHeaders(c, r) = rest \cup {"connection"}
  BY DEF ForwardedHeaders, rest
<1> QED
  BY <1>1, <1>2, <1>3, <1>4

\* What a client has of a message, and when that is all of it.
LEMMA WholeMessage ==
    ASSUME FinalOnly, NEW c \in Clients, NEW r \in Responses, NEW g \in Seq(Symbols), g # << >>,
           NEW s \in Seq(Symbols), Len(g) <= Len(s), SameBody(g, s), g[1].t = "head",
           Len(s) <= Len(Message(c, r)), FoundAt(s, Message(c, r), 0),
           \/ r.kind = "None"
           \/ r.kind = "Chunked" /\ \E i \in DOMAIN g : g[i].t = "last"
           \/ r.kind = "ContentLength" /\ Len(g) - 1 >= r.body
    PROVE  Tail(g) = Tail(Message(c, r))
<1> DEFINE m == Message(c, r)
           n == IF r.kind = "None" THEN 0 ELSE r.body
<1>1. /\ m \in Seq(Symbols) /\ n \in Nat
      /\ Len(m) = 1 + n + (IF r.kind = "Chunked" THEN 1 ELSE 0)
      /\ \A i \in 2..(n + 1) : m[i].t = "data"
  BY MessagePositions
<1>2. r.kind = "None" => n = 0
  OBVIOUS
<1>3. r.kind = "ContentLength" => n = r.body
  OBVIOUS
<1> HIDE DEF m, n
<1>4. /\ Len(g) \in Nat /\ Len(s) \in Nat /\ Len(m) \in Nat /\ Len(g) >= 1 /\ DOMAIN g = 1..Len(g)
      /\ Len(s) <= Len(m) /\ FoundAt(s, m, 0)
  BY <1>1, LenProperties, EmptySeq DEF m
<1>5. Len(g) <= Len(m)
  BY <1>4
<1>6. \A i \in 2..Len(g) : g[i] = m[i]
  <2>1. SUFFICES ASSUME NEW i \in 2..Len(g) PROVE g[i] = m[i]
    OBVIOUS
  <2>2. i \in 1..Len(s) /\ 0 + i = i
    BY <1>4
  <2>3. s[i] = m[0 + i]
    BY <1>4, <2>2, Zenon DEF FoundAt
  <2>4. g[i] = s[i]
    BY DEF SameBody
  <2> QED
    BY <2>2, <2>3, <2>4
<1>7. Len(g) = Len(m)
  <2>1. CASE r.kind = "None"
    BY <1>1, <1>2, <1>4, <1>5, <2>1
  <2>2. CASE r.kind = "ContentLength" /\ Len(g) - 1 >= r.body
    <3>1. Len(m) = 1 + n + 0 /\ Len(g) - 1 >= n
      BY <1>1, <1>3, <2>2
    <3>2. \A a, b \in Nat : a <= b /\ b = 1 + n + 0 /\ a - 1 >= n => a = b
      BY <1>1
    <3> QED
      BY <1>4, <1>5, <3>1, <3>2, Zenon
  <2>3. CASE r.kind = "Chunked" /\ \E i \in DOMAIN g : g[i].t = "last"
    <3>1. PICK i \in 1..Len(g) : g[i].t = "last"
      BY <1>4, <2>3
    <3>2. i # 1
      BY <3>1
    <3>3. i \in 2..Len(g)
      BY <1>4, <3>2
    <3>4. i \notin 2..(n + 1)
      BY <1>1, <1>6, <3>1, <3>3
    <3>5. i >= n + 2
      BY <1>1, <1>4, <3>3, <3>4
    <3>6. Len(m) = n + 2
      BY <1>1, <2>3
    <3>7. \A a, b \in Nat : a <= b /\ b = n + 2 /\ i <= a => a = b
      BY <1>1, <3>5, <3>3
    <3>8. i <= Len(g)
      BY <1>4, <3>3
    <3> QED
      BY <1>4, <1>5, <3>6, <3>7, <3>8, Zenon
  <2> QED
    BY <2>1, <2>2, <2>3
<1>8. SameBody(g, m)
  BY <1>6 DEF SameBody
<1>9. Tail(g) = Tail(m)
  BY <1>1, <1>5, <1>7, <1>8, SameTails, Zenon
<1> QED
  BY <1>9 DEF m

\* A response that a client takes for complete, by the header section that
\* stream_response_on_connection sent it, is the whole response of the upstream.
\* A body that ends with the connection is told from a broken one only by how
\* the connection ended, so the upstream must not reset such a connection
\* unnoticed: that is the second hypothesis.
THEOREM CompleteResponsesAreWhole ==
    ASSUME FinalOnly, "CloseDelimited" \notin Resettable
    PROVE  Spec => []CompleteMeansWhole
<1>1. ASSUME ProxyInv, CloseInv PROVE CompleteMeansWhole
  <2>1. SUFFICES ASSUME NEW c \in Clients, TakenForComplete(c)
                 PROVE  Tail(got[c]) = (IF resp[c].kind = "CloseDelimited" THEN Tail(sent[c])
                                        ELSE Tail(Message(c, resp[c])))
    BY DEF CompleteMeansWhole
  <2> DEFINE r == resp[c]
             g == got[c]
             s == sent[c]
             h == g[1].r.headers
  <2>2. g # << >> /\ request[c].method # "CONNECT"
    BY <2>1 DEF TakenForComplete
  <2>3. Relayed(c) /\ SentOf(c) /\ g \in Seq(Symbols) /\ s \in Seq(Symbols)
    BY <1>1 DEF ProxyInv, Exchanges, Exchange, ProxyTypeOK
  <2>4. /\ Len(g) <= Len(s) /\ r = s[1].r /\ g[1].t = "head" /\ SameBody(g, s)
        /\ h = ForwardedHeaders(c, r)
    BY <2>2, <2>3 DEF Relayed
  <2>5. s # << >>
    <3>1. Len(g) \in Nat /\ Len(g) # 0
      BY <2>2, <2>3, LenProperties, EmptySeq
    <3>2. Len(s) \in Nat
      BY <2>3, LenProperties
    <3>3. Len(s) # 0
      BY <2>4, <3>1, <3>2
    <3> QED
      BY <3>3, EmptySeq
  <2>6. r \in Responses /\ Len(s) <= Len(Message(c, r)) /\ FoundAt(s, Message(c, r), 0)
    BY <2>3, <2>4, <2>5 DEF SentOf
  <2>7. r \in Response /\ r.kind \in {"None", "ContentLength", "Chunked", "CloseDelimited"}
    BY <2>6, ProxyAssumption DEF Response
  <2>8. /\ r.kind = "Chunked" => "transfer-encoding" \in h /\ "content-length" \notin h
        /\ r.kind = "ContentLength" => "content-length" \in h /\ "transfer-encoding" \notin h
        /\ r.kind = "CloseDelimited" => "content-length" \notin h /\ "transfer-encoding" \notin h
    BY <2>4, <2>7, FramingFields
  <2>9. CASE r.kind = "CloseDelimited"
    <3>1. pc[c] = "done"
      BY <2>1, <2>8, <2>9 DEF TakenForComplete
    <3>2. Len(g) = Len(s)
      BY <1>1, <2>2, <2>9, <3>1 DEF CloseInv, Closing
    <3>3. Tail(g) = Tail(s)
      BY <2>2, <2>3, <2>4, <3>2, SameTails, Zenon
    <3> QED
      BY <2>9, <3>3
  <2>10. CASE r.kind # "CloseDelimited"
    <3>1. \/ r.kind = "None"
          \/ r.kind = "Chunked" /\ \E i \in DOMAIN g : g[i].t = "last"
          \/ r.kind = "ContentLength" /\ Len(g) - 1 >= r.body
      BY <2>1, <2>7, <2>8, <2>10 DEF TakenForComplete
    <3> HIDE DEF g, r, s
    <3>2. Tail(g) = Tail(Message(c, r))
      BY <2>2, <2>3, <2>4, <2>6, <3>1, WholeMessage, Zenon
    <3> QED
      BY <2>10, <3>2 DEF g, r
  <2> QED
    BY <2>9, <2>10
<1>2. Init => CloseInv
  BY DEF Init, CloseInv, Closing
<1>3. ProxyInv /\ [Next]_vars => ProxyInv'
  BY NextProxyInv
<1>4. ProxyInv /\ CloseInv /\ [Next]_vars => CloseInv'
  BY NextCloseInv
<1>5. ProxyInv /\ CloseInv => CompleteMeansWhole
  BY <1>1
<1> QED
  BY <1>2, <1>3, <1>4, <1>5, InitProxyInv, PTL DEF Spec
=============================================================================
