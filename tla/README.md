# A TLA+ verification of shiguredo_http11

`shiguredo_http11` is a sans-I/O HTTP/1.1 library in Rust: the caller owns the
socket, feeds bytes to a decoder and calls it until it says it needs more. What
can go wrong in it is therefore not in threads but in *sequences of calls*: where
the network cuts the bytes, which operations the caller interleaves with the feeds,
what an error or an interrupted call leaves behind, what of one message survives
into the next. Two of its examples, a server on io_uring with kernel TLS and a
reverse proxy with a connection pool, add real concurrency and failure around it.
Tests sample such sequences. The modules here enumerate them on small instances
with TLC, and TLAPS proves part of the results for every alphabet, every input and
every setting of the limits.

Paths are relative to the repository (`src/src/decoder/...` is the crate's
`src/decoder/...`).

## 1. Inventory

| Component | State | Operations | Interacts with |
|---|---|---|---|
| decode buffer, `decoder/buffer.rs` | `buf`, `pending` (open write frame) | `feed`, `feed_unchecked`, `mut_buf`, `advance_buf`, `available_buf`, `remaining` | shared by reference with both decoders; parsers drain it from the front |
| chunk-size line, `decoder/body.rs` 361-471, 579-728 | none | hex size, chunk extensions | called by the body decoder |
| body decoder, `decoder/body.rs`, `phase.rs` | phase with its `remaining`, `body_consumed`, `trailers`, `trailer_count`, `declared_trailers` | `peek_body`, `consume_body`, `progress`, `reset` | works on the buffer and the phase of the decoder that owns it |
| framing, `decoder/body.rs` 1210-1400, `determine_body_kind` | none | Transfer-Encoding, Content-Length, status, method to `BodyKind` | decides the phase after a head |
| request decoder, `decoder/request.rs` | the above, `start_line`, `headers`, and for `decode()`: head, body kind, body so far | `decode_headers`, the body operations, `decode`, `take_remaining`, `reset` | composes buffer, framing, body decoder |
| response decoder, `decoder/response.rs` | as request, `request_method` | as request, `set_request_method`, `mark_eof` | as request |
| caller's loop, `decoder/mod.rs` docs | where it is | the documented use of both APIs | sees only returned values |
| message heads and encoder, `decoder/head.rs`, `request.rs`, `response.rs`, `encoder.rs` | headers and body of a message | `add_header`, `set_header`, `encode`, `encode_headers`, chunk encoding | inverse of the decoders; the proxy calls `encode_response_headers` |
| decompression, `compression.rs` | the caller's `Decompressor` | `peek_body_decompressed` | between `peek_body` and the caller |
| multipart, `multipart.rs` | buffer, `pos`, `boundary_scan_offset`, state | `feed`, `next_part`, `build` | stand-alone |
| value types: range, etag, conditional, cache, date, uri, host, auth, accept, content type and disposition, cookie | none | parse, format, compare, evaluate | stand-alone; host and request-target checks are used by encoder and decoder |
| io_uring server, `examples/http11_server_io_uring` | slab of connections (TLS, decoder, queued writes), the ring | one handler per completion: accept, read, write, setsockopt, close | a `RequestDecoder` per connection; rustls and the kernel outside |
| reverse proxy, `examples/http11_reverse_proxy` | pool of idle upstream connections under a lock, a task per client | receive, acquire, connect, send, read head, stream body, release, cleanup | a request and a response decoder and the encoder per exchange |

Hard behaviours, each listed with its line under `hazards` in `PROJECT.json`:

- a cut anywhere: between CR and LF, inside a chunk's closing CRLF (handled in two
  places), inside a line whose length is limited;
- "need more data" against "go on": an answer that is wrong in one direction makes
  the caller wait for ever for bytes it already has, in the other it spins;
- an error in the middle of several drains, and the next call after it;
- state kept between calls of `decode()` that other calls change under it;
- counters that span messages (`body_consumed`, `trailer_count`) or must not;
- bytes that arrive early and belong to a later message or to a tunnel;
- two framing headers, repeated fields, list values, which read differently give
  another message boundary;
- the limits: buffer, line, count, body, `usize`;
- completions that arrive in the kernel's order and name a connection by a slab key
  that is used again; short writes; bytes left in TLS when the socket is handed over;
- a pool shared by tasks, connections that die in it, responses that break off;
- arithmetic at the edges of dates, ranges and delta-seconds, and values that must
  be written so that they are read back the same.

What makes each component correct:

- *buffer*: a FIFO of confirmed bytes, whatever happens with write frames; never
  above the limit unless the unchecked feed is used.
- *chunk-size line*: accepts the grammar, refuses the rest, no wrap-around.
- *body decoder*: decodes a body as if it had arrived in one piece; no input lost,
  repeated or invented; within the limits also after errors; only announced and
  permitted trailers, each once; never asks for data it has.
- *framing*: one boundary, that of RFC 9112 section 6.3, for every combination of
  fields.
- *decoders*: messages on one connection are kept apart; no `unwrap()` fails;
  bytes behind a tunnel are untouched; the first error is the one the bytes have.
- *caller's loop*: gets everything out, waits only when it must, every call ends.
- *encoder*: what it lets through, the decoder frames as it was meant.
- *multipart*: the parts of the whole input, wherever it is cut.
- *value types*: accept their grammar, mean what the reference definition means,
  read back what they write.
- *io_uring server*: a completion reaches the connection it belongs to; responses
  whole and in order; nobody is forgotten.
- *reverse proxy*: each client gets the response to its own request, complete only
  if it is; connections in the pool are idle and clean; every task ends.

## 2. Modules

| Module | Models |
|---|---|
| `ByteQueue` | abstract specification: a FIFO of confirmed bytes |
| `DecodeBuffer` | `buffer.rs`; refines `ByteQueue` |
| `Lines` | `find_line`, UTF-8 check, `parse_header_line` over byte symbols |
| `ChunkLine` | the chunk-size line parser as operators |
| `BodyDecoder` | `BodyDecoder`, all phases; EXTENDS `ChunkLine` |
| `Framing` | framing rules of both decoders as operators |
| `HeadDecoder` | what both decoders share: `decode_headers` step by step, `decode()`, `take_remaining`; EXTENDS `BodyDecoder`, `Framing` |
| `RequestDecoder` | `RequestDecoder`; EXTENDS `HeadDecoder` |
| `ResponseDecoder` | `ResponseDecoder`; EXTENDS `HeadDecoder` |
| `CallerLoop` | the documented loops around a `RequestDecoder` |
| `WholeBody` | reference: the chunked body that a byte string contains as a whole, as a recursive function; runs and proofs use it |
| `WholeHead` | reference: the messages that a byte string contains, by recursion on it; only TLC uses it |
| `Messages` | head predicates, header builders, body framing of the encoder; EXTENDS `Framing` |
| `Text` | `validate.rs` and the string operations of Rust that the value types use |
| `Ranges`, `EntityTags`, `Dates`, `CacheControl`, `Cookies` | the value types of those names and the conditions on them; EXTEND `Text` |
| `Hosts`, `Uris`, `Targets` | hosts; URIs, resolution, normalization; request targets and Host on both sides |
| `Parameters`, `Credentials` | content type, disposition, the Accept family; base64 and authentication |
| `FramingRules`, `ValueLaws` | references: the chunk-size grammar and RFC 9112 section 6.3 on joined values; what every value type promises |
| `Multipart` | the incremental parser and the builder |
| `UringServer` | the event loop, the ring, the kernel's side of it |
| `ReverseProxy` | client tasks, pool, upstream, clock |
| `MC*` | instances; properties that compare with a reference; `MCValues` enumerates the inputs of the pure algorithms |
| `SliceLemmas`, `*_proofs` | proofs |

Correspondence. A call is one action, or, where the code loops over lines, one
action per iteration: `call` says which loop is running (`"headers"`,
`"trailers"`), `decoding` where `decode()` is, and no operation of the caller is
possible meanwhile, as `&mut self` guarantees. The `DecodePhase` is `phase`, its
payload `remaining`. Errors keep what the code has drained or changed before it
returns them; a call after an error is allowed, because the code allows it. Calls
in the wrong phase return `"Misuse"` and change nothing. `body`, `given`, `heads`,
`done`, `taken`, `failed` are history: what the caller has been given.

Data. `wire` is what the peer sends, `sent` how much of it was fed. A byte is a
symbol. CR, LF, hex digits, whitespace and delimiters are symbols of their own,
because parsing depends on them; a whole start line or header field is *one*
symbol, whose parts are given by the constants `StartLine` and `Field`, so that
length limits count symbols and cuts fall between a line and its CR, between CR
and LF and between lines. Comma lists are sequences of elements. `NonUtf8`,
`Token`, `QdText`, `Escapable` are character classes. `usize` is `0..UsizeMax`.

The limits of `DecoderLimits` are constants: `MaxBuffer`, `MaxHeaders`,
`MaxHeaderLine`, `MaxBody`, `MaxChunkLine`. `feed` refuses what does not fit; in
the decoders' modules a refused feed is a feed that does not happen.

In `Text` and the modules above it a header field value is a sequence of symbols,
a symbol being a character or a word that is compared as a whole. A parser returns
the set of its results, one or none. Widths are constants (`U16Max`, `U64Max`,
`I64Max`), small where only the edge matters: `U64Max` is 12, so that two digits
overflow.

In `UringServer` an action of the server handles one completion, whole: the code
between two completions runs on one thread. Submissions go to `inflight`, the
kernel's actions move them to `cq` in any order, linked socket options in theirs.
What clients send is a script of symbols (`IsScript`: the two parts of the handshake,
then requests of two parts each, in the place of any of them something that is
refused), cut anywhere by reads; a client finishes the handshake after the server's
flight has come. `running` becomes
false where an error leaves `main`. In `ReverseProxy` an action is what a task does
between two awaits on something another actor can change; pool operations are
single actions because the lock is held for exactly those. The decoders are used
as the decoder modules show them to behave: head, pieces of the body, last chunk.

`DecodeBuffer` models the write frame. It is shown there that for the parser a
frame is no different from a feed, so the other modules have `Feed` alone. Every
decoding operation asserts `pending == 0`, so no frame is open while one runs.

## 3. Runs

Passing runs:

- **decode_buffer** (`MCDecodeBuffer.cfg`, of `DecodeBuffer` itself). Buffer of 3, frames up to 2, streams up
  to 4 bytes, two data bytes and the zero byte of `resize`. Frames are abandoned,
  refused, partly filled, confirmed beyond their size. `ConfirmedIntact`,
  `WithinCapacity`, and `ImplementsQueue`, the refinement of `ByteQueue`. Three is
  enough for a confirmed byte, a frame of two and a refusal at each point.
- **body_decoder** (`MCBodyDecoder.cfg`). All three framings, all combinations of
  good and bad chunks, last chunks and trailers, feeds of 1 and 3, any length given
  to `consume_body`. `DecodesLikeWhole`, `EndsLikeWhole` and `NothingWithheld`
  compare with `WholeBody`; `WithinLimit`, `TrailersAdmitted` and
  `LimitRefusalFinal` hold beyond the first error too. Limits are small enough that
  each of them is hit, and exceeded by one.
- **request_decoder** (`MCRequestDecoder.cfg`). Connections of one or two requests,
  byte by byte, through the streaming operations, `decode()`, or both mixed, with resets.
  `RequestsKeptApart`, `NoneMeansIncomplete`, `TunnelTransparent` and
  `FirstErrorIsTheWires` compare with `WholeHead`; `UnwrapsSafe`
  and `RequestInputAccounted` (whatever a step takes out of the buffer is body that is
  delivered, a CRLF or line that the decoder has taken over or refused, or what the
  caller took or dropped itself) hold beyond errors and for callers that mix both APIs. Two messages are enough for state to leak from one into the
  next; three limits of the header section are exceeded by one of the wires each.
- **response_decoder** (`MCResponseDecoder.cfg`). The same for responses, each with a
  request method announced before its status line is complete, `mark_eof` with an empty
  buffer (or through `decode()`, which drains it).
- **caller_loop** (`MCCallerLoop.cfg`). The two documented loops over the connections
  of request_decoder, feeds of 1, 2 and 7. `LoopDelivers`: everything the
  connection carries is eventually returned. `ReadsOnlyWhenNeeded`: the loop goes
  to the network only when a reference finds nothing more in the bytes fed.
  `CallsReturn`: every call ends. Deadlock is not checked here: a loop that has
  all of its connection, or met an error, stops.

- **values** (`MCValues.cfg`). All texts made of up to 4 pieces (5 for chunk-size
  lines and entity tags), for each kind of text behind the openings that make the
  deep shapes reachable; all header sections of up to 3 fields, with versions,
  statuses and methods; dates at the ends of months and years with twelve reference
  years, both ends of `u16` among them. `AcceptsGrammar` compares chunk-size lines with the grammar (whitespace
  behind the last extension is accepted by the code and by the reference). `Framed`
  compares both decoders with section 6.3 read off the joined values, over values
  that disagree, repeat, are empty or malformed. `MessagesFramed` sends what
  `encode` lets through to the decoders' framing: the body length comes out again.
  `RangesRead` compares `to_bounds` with the set of bytes asked for. `DatesRead`
  has the three formats read back and the two-digit year at most 50 years ahead of
  the reference year, unless the `u16` arithmetic overflows (a panic in a debug build,
  wrapped as in a release build here), and it does not for a reference year from 49
  to 65485. `UrisResolved` compares dot-segment removal with a stack of segments;
  resolution and normalization are idempotent. `FieldsRead`: a value that was
  read is written so that it reads the same, for quoted strings, media types,
  dispositions, Cache-Control, cookies, credentials, and for Accept values whose
  parameter names are tokens (the others are below); base64 has one text per byte
  string; the decoder reads a request-target in the form in which the encoder sent it,
  one that starts with `/` and contains `://` excepted. Two fields are needed for a conflict, the third shows that order does
  not matter; four pieces are an opening quote, an escape, a character and a
  closing one. Deadlock is off: inputs stop growing.
- **multipart** (`MCMultipart.cfg`). Built bodies whose parts begin or end like a
  delimiter, and 26 malformed, padded or broken-off inputs, fed in pieces of any
  size with `next_part` anywhere between, buffer limit 21. `PartsLikeWhole`,
  `NoDelimiterPassed` (resume offset and draining), `BuildRoundTrip`.
- **uring_server** (`MCUringServer.cfg`). Two clients: pipelining, closing and
  sending on, silent, refused by TLS or by the decoder, disconnecting at any time;
  one failing accept; two requests per connection; a ring of five entries.
  `LeftoverErrorsContained`: what the bytes left over from the handshake hold closes
  their connection and does not end the server.
  `OneOperation`: the user data of no outstanding operation names another
  connection than the one it was submitted for. `ResponsesInOrder`.
  `QuietMeansServed`: when only reads from silent clients are left, all requests
  are answered and gone clients have left nothing. It is a safety property that
  stands for liveness: what the server does without a client's help is finite.
  Deadlock is off, since a server without clients has nothing to do.
- **reverse_proxy** (`MCReverseProxy.cfg`). Two clients (GET, POST, HEAD, CONNECT),
  every body kind, two upstream connections, a pool of one, and a clock that reaches
  the idle timeout (the lifetime, the same comparison on another stamp, is beyond it). The upstream answers whole or breaks off at
  any symbol, closes or resets; clients vanish. `OwnResponse`, `CompleteMeansWhole`,
  `PoolDiscipline`, and `TasksEnd` under fairness. Two connections and a pool of
  one make a task find the pool empty, filled by the other, stale and full.
  Interim responses are not among `Responses`: see the hazard at line 728.

Runs that are expected to find a violation; each checks a sentence of the
documentation and is listed under `findings`:

- **response_interim**: an interim response clears the method of the request that
  the final response still belongs to.
- **response_eof**: `mark_eof` is said to settle the rest of the buffer as body; it
  leaves it in front of the next message, and `decode()` returns the body without it.
- **proxy_length**: the proxy is said to stream bodies with a Content-Length; the
  head is encoded without the body, and the encoder refuses any length but zero.
  (The encoder's check is newer than the proxy. Without it `ResponseForwarded`
  holds.)

Four more sentences of the documentation do not hold, and are listed as hazards:
`NeedData` is said to mean an empty buffer, and `progress()` returns it while
`peek_body()` offers bytes (`body.rs` 59, 240); mixing both APIs is said to be an
error, and a `decode()` that waits for its body does not notice streaming calls
(`request.rs` 689, 693); a method set while the decoder is still in `Complete` is
cleared by the next `decode_headers` (`response.rs` 158, 606); what Display writes of
an Accept value is said to be read back (`fuzz_accept.rs` 6), and `a/b;q=0;"=x`, with a
parameter named by a quote, is written as `a/b; "=x; q=0`, which is not read again
(`accept.rs` 436). The passing run of the response decoder stays
within the sequences where those on the method and on `mark_eof` hold (`SetPhases`,
`EofWithData`).

Mutants. Every property of a passing run has a mutant in `PROJECT.json`, a
definition with a plausible slip, under which TLC finds the property violated. The
mutated forms stand in front of the definitions they replace.

Fairness. `CallerLoop` has weak fairness of its next-state relation.
A call that was made runs, since the library is synchronous code that no other
actor can stop; the loop goes on after it; and a peer's bytes arrive. Nothing is
assumed about how they are cut. `ReverseProxy` has weak fairness of every task,
which the runtime schedules when what it awaits is there, and of the upstream's
answer: the proxy has no timeouts, so an upstream that neither answers nor closes
does hold a task for ever. Nothing is assumed of the clock, the cleanup, clients
that vanish or idle connections that close. Liveness means little for the decoders
alone, since a caller may stop calling at any time.

## 4. Proofs

Checked by TLAPS, for all values of the constants that satisfy the assumptions of
the modules (limits are naturals, `MaxBody` is a `usize`, feeds are not empty,
wires are byte sequences, a Content-Length element is a number or not one, no
start line is called "none").

- `DecodeBuffer_proofs`: `TypeOK`, `ConfirmedIntact`, `WithinCapacity` and the
  refinement `ImplementsQueue`. The inductive invariant says where the frame is:
  the buffer is the confirmed bytes followed by exactly `pending` frame bytes, so
  that dropping the frame, confirming a part of it, and growing the buffer each
  rewrite only what lies behind the confirmed bytes.
- `BodyDecoder_proofs`: `BodyTypeOK`, `InputIntact` (the buffer is the end of what was
  fed), `WithinLimit`, `TrailersAdmitted`. Their conjunction `BodyInv` is inductive and none of them is
  alone: that `remaining` does not underflow needs the range checks *and* the type
  of the buffer, that the overflow branch behind the drain is dead needs
  `WithinLimit`, which in turn needs the drained bytes to have been in the buffer.
  One lemma per operation, each over arbitrary buffers.
  `BodyRefusalFinal` proves the action property `LimitRefusalFinal`: after a refusal
  by a limit the refused line is still at the front of the buffer (`Blocked`), a feed
  appends behind it and every call meets it again.
  `InputIntact` alone would allow a decoder to drain too much; `BodyInputAccounted`
  proves with it the action property `InputAccounted`, which does not: each drain is as long as the body
  it delivers or as the CRLF or line whose meaning the next state holds.
- `HeadDecoder_proofs`: `UnwrapsSafe`, `HeadTypeOK`, `WithinLimit`,
  `TrailersAdmitted`, and `InputIntact` with `RequestInputAccounted` or
  `ResponseInputAccounted`, for whole connections, both APIs, mixed use, errors and resets,
  for requests and for responses, there with `mark_eof`, `set_request_method` and
  close-delimited bodies. Both decoders keep the same inductive invariant,
  `DecoderInv`, which adds two facts to `BodyInv` and `UnwrapsSafe`.
  `HeadFresh`: while a header section is read, the body decoder is as new, so the
  framing decided at its end starts from zero; without it a Content-Length within
  the limit could be added to an old count. `DecodeLoop`: `Complete` is only returned
  in phase `Complete`, and a message without body is finished in the call that
  found its head; so `decode()` never resets the phase with a header section open,
  which would leave a start line behind. The lemmas on `consume_body` and the trailer
  loop are those of `BodyDecoder_proofs`, applied to the same operators.
- `WholeBody_proofs`: the chunked body is decoded as if it had arrived whole,
  `DecodesLikeWhole`, `EndsLikeWhole` and `NothingWithheld`, for every byte string,
  every cut and every order of calls up to the first error. The reference is a
  recursive function of the number of steps. The invariant `Follows` says where the
  decoder is in it: for *every* continuation `t` of the bytes fed so far, the decoder
  with `t` behind its buffer stands at some step of the reference on these bytes and
  `t`, or inside the chunk that its next step takes. A statement about the wire alone
  would not do, because `NothingWithheld` is about the bytes that are there and a feed
  changes those; quantified over continuations, a feed is only another choice of `t`.
  `Waiting` says of an answer `NeedData` that the line, the chunk or the CRLF
  it waits for is not complete in the buffer.
- `UringServer_proofs`: `OneOperation`, for any number of clients, slots and ring
  entries. That an operation in flight names its own connection is inductive only
  together with the slab (`Shapes`, `Vacancy`: the free list has each vacant slot
  once), with where a client can be (`Apart`: in the listen queue, in an unhandled
  completion of accept, or in one slot), with the kind of operation that goes with
  each state (`Ownership`), and with the numbers (`Counts`). A handler
  takes one completion away and submits one operation, or three; that a connection is
  only freed when nothing of it is outstanding is the count. A pigeonhole
  lemma shows that a client that was accepted finds a vacant slot.
  `ResponsesInOrder` is proved on top of it (`ResponsesInv`), for every script and every
  cut of reads and writes. What a client has received says nothing of what
  comes next, so `Flow` says how far each connection has come, at the one operation it
  waits for: how many symbols of the script were read when the read was submitted, that
  the decoder holds what follows the last complete request, that the queue holds the
  responses to the last requests in order, that the write buffer holds the end of a
  response, and how much of the responses has been delivered (`ReadPoint`, `WritePoint`,
  `KtlsPoint`, each also for the completion that is not yet handled). `OneOperation`
  is what makes this a fact about one place: no other operation reads or writes for the
  client meanwhile. The loop over `decode()` is a recursive function of the number of
  symbols; its invariant (`DecodedTo`) is proved by induction on a set of numbers.
- `ReverseProxy_proofs`: `PoolDiscipline`, `OwnResponse` and `CompleteMeansWhole`
  for any number of clients, connections and any pool size. `ProxyInv` ties the pool to
  the tasks (`Ownership`), says that connections which are idle or not yet made are
  quiet (`QuietConns`), and where each symbol of a response is (`Exchanges`): what the client has, what the `BufWriter`
  holds, the decoder's buffer and the connection are, one behind the other, what
  the upstream has sent for this client. Two hypotheses are needed and are those of
  the run. `FinalOnly`: there are no interim responses; the proxy takes the first
  head for the final one (hazard at line 728), and the properties are false with
  them. For `CompleteMeansWhole` also: no close-delimited body ends with a reset,
  since nothing but the way a connection ends tells such a body from a broken one.
- `Multipart_proofs`: `NoDelimiterPassed` and `PartsLikeWhole`, for every body, every
  cut and every order of `feed` and `next_part`. `MultipartInv` has three parts. `View`:
  the buffer is the wire from the first byte that was not drained on, so that what a
  search finds in it stands at the same place of the wire; what it does not find may
  still come. `Resumes`: no delimiter, not even one that is cut, begins between the
  start of the search and `boundary_scan_offset`; `NoDelimiterPassed` itself is not
  inductive, since it says nothing of a delimiter of which the rest is yet to be fed.
  `Stands`: each parser state is one point of the reference, with the parts returned
  so far in front of it; in `AfterInnerDelimiter` the last of them is still in
  doubt. That the reference is defined at all for every offset is by induction on the
  bytes behind it.
- The type invariants (`TypeOK`, `BodyTypeOK`, `HeadTypeOK`, `ProxyTypeOK`),
  `InputIntact`, `InputAccounted` and `ResponseInputAccounted` are proved and not checked by a run of their own.
- `SliceLemmas`: what cutting, concatenating and windowing sequences does, index by
  index; and induction over the naturals in the form that the provers can use, on a
  *set* of numbers that holds 0 and is closed under successor.

Only model-checked: liveness (`LoopDelivers`, `CallsReturn`, `TasksEnd`), since
TLAPS does not treat fairness here; what compares with a reference that is written with
RECURSIVE operators (`WholeHead`: messages kept apart, first error, tunnels, the
caller's loop; the chunk-size grammar), in whose presence the SMT backend is lost; the laws and tables of
`MCValues`; `BuildRoundTrip`, which compares with folds over the parts; `QuietMeansServed` of
the server, which needs in addition that every symbol of a script has been read and
that the descriptors are those of the connections.

## 5. Not modelled

- Inside the decoders a start line or header line is one symbol that is valid or
  not; request targets and hosts are modelled in `Targets` instead.
- `peek_body_decompressed`, `Compressor` and `Decompressor`: the decoder's own
  state does not change, and the library's only implementation copies its input.
- `take_remaining` outside of a tunnel, except as the proxy uses it for a
  close-delimited body.
- Errors are not sticky in the code and no document says so; properties that
  compare with a reference therefore hold up to the first error, the others
  beyond it.
- The io_uring server when the kernel refuses kTLS: three failures close the
  connection three times. The case is in the model; its properties leave it out.
  Not in the model are the failures of the hand-off itself, a cipher suite that ktls
  does not know and secrets that rustls does not give (`main.rs` 682-688, 711-719,
  835-841, 861-869): they leave `main` with `?` and end the process, as an error in
  state `Reading` does (`main.rs` 749).
- In the reverse proxy: a request or response that cannot be encoded for another
  reason than its Content-Length (`Response::new`, `main.rs` 758-759; the framing
  refusals of 1xx, 204 and 205, `encoder.rs` 1012-1039; `request.encode()?`,
  `main.rs` 692). They end the task with an error.
- Targets that start with `/` and contain `://`, on which encoder and decoder differ
  (hazard at `encoder.rs` 228).
- The content of responses, option parsing, TLS records, URL parsing of the
  examples; the plain server and the client, whose loops are `CallerLoop`.
- `Content-Location`, `Content-Encoding`, `Content-Language`, `Vary`, `Expect`,
  `Upgrade`, `Trailer`, Digest-Fields, `If-Range`: lists of tokens or wrappers of
  types that are modelled.
- Fuzz targets and property tests.

## 6. Plan

Done: the decoders, framing, encoder framing, the callers' loops, multipart, the
value types, the io_uring server, the reverse proxy; proofs for the buffer, the
body decoder and its reference, both message decoders, the multipart parser and its
reference, the operations and the responses of the server and the proxy's exchanges.
Next, in this order:

1. The reference for heads without RECURSIVE operators, as `WholeBody` has it, and
   with it `RequestsKeptApart` on top of `Follows`.
2. `QuietMeansServed` of the server, on `ResponsesInv`.
3. `Framed` for header sections of any length: the operators quantify over positions
   and need no induction.
4. The remaining value types, where they have rules of their own (Digest-Fields,
   `If-Range`).
