--------------------------- MODULE WholeBody_proofs ---------------------------
(***************************************************************************)
(* BodyDecoder decodes a chunked body like the reference that sees the     *)
(* bytes whole: for every byte string, every way to cut it into feeds and  *)
(* every order of calls.                                                   *)
(*                                                                         *)
(* The invariant, Follows, does not speak of the wire but of every string  *)
(* that continues the bytes fed so far: whatever comes next, the decoder   *)
(* is where the reference is after some number of steps, or inside the     *)
(* chunk that its next step takes.  So a feed preserves it trivially, and  *)
(* it holds for the whole wire (DecodesLikeWhole, EndsLikeWhole) and for   *)
(* the bytes that are there (NothingWithheld) at once.                     *)
(***************************************************************************)
EXTENDS WholeBody, BodyDecoder_proofs

\* The reference is what its definition says: the recursive function exists.
LEMMA ParseSteps ==
    ASSUME NEW w, NEW d
    PROVE  /\ RefParse(w, d)[0] = Message(<< >>, << >>, "chunks", w)
           /\ \A n \in Nat : RefParse(w, d)[n + 1] = RefStep(RefParse(w, d)[n], d)
<1> DEFINE start == Message(<< >>, << >>, "chunks", w)
           Approx(g, n) == g[0] = start /\ \A i \in 0..(n - 1) : g[i + 1] = RefStep(g[i], d)
           Has == {n \in Nat : \E g : Approx(g, n)}
           Body(g) == [n \in Nat |-> IF n = 0 THEN start ELSE RefStep(g[n - 1], d)]
           G == [n \in Nat |-> (CHOOSE g : Approx(g, n))[n]]
<1> HIDE DEF start
<1>1. \A n \in Nat : n \in Has
  <2>1. 0 \in Has
    <3>1. Approx([i \in {0} |-> start], 0)
      OBVIOUS
    <3> QED
      BY <3>1
  <2>2. ASSUME NEW n \in Nat, n \in Has PROVE n + 1 \in Has
    <3>1. PICK g : Approx(g, n)
      BY <2>2
    <3> DEFINE h == [i \in 0..(n + 1) |-> IF i <= n THEN g[i] ELSE RefStep(g[n], d)]
    <3>2. h[0] = start /\ \A i \in 0..n : h[i] = g[i]
      BY <3>1
    <3>3. h[n + 1] = RefStep(g[n], d)
      OBVIOUS
    <3>4. ASSUME NEW i \in 0..(n + 1 - 1) PROVE h[i + 1] = RefStep(h[i], d)
      <4>1. CASE i = n
        BY <3>2, <3>3, <4>1
      <4>2. CASE i # n
        <5>1. i \in 0..(n - 1) /\ i + 1 \in 0..n /\ i \in 0..n
          BY <4>2
        <5> QED
          BY <3>1, <3>2, <5>1
      <4> QED
        BY <4>1, <4>2
    <3>5. Approx(h, n + 1)
      BY <3>2, <3>4
    <3> HIDE DEF h
    <3> QED
      BY <3>5
  <2> HIDE DEF Has
  <2> QED
    BY <2>1, <2>2, NatSetInduction
<1>2. ASSUME NEW n \in Nat, NEW g, NEW h, Approx(g, n), Approx(h, n + 1)
      PROVE  g[n] = h[n]
  <2> DEFINE Agree == {i \in Nat : i <= n => g[i] = h[i]}
  <2>1. 0 \in Agree
    BY <1>2
  <2>2. ASSUME NEW i \in Nat, i \in Agree PROVE i + 1 \in Agree
    <3>1. CASE i + 1 <= n
      <4>1. i \in 0..(n - 1) /\ i \in 0..(n + 1 - 1) /\ i <= n
        BY <3>1
      <4> QED
        BY <1>2, <2>2, <4>1
    <3>2. CASE ~(i + 1 <= n)
      BY <3>2
    <3> QED
      BY <3>1, <3>2
  <2> HIDE DEF Agree
  <2>3. n \in Agree
    BY <2>1, <2>2, NatSetInduction
  <2> QED
    BY <2>3 DEF Agree
<1>3. \A n \in Nat : Approx(CHOOSE g : Approx(g, n), n)
  BY <1>1
<1>4. G = Body(G)
  <2>1. G[0] = start
    BY <1>3
  <2>2. ASSUME NEW n \in Nat PROVE G[n + 1] = RefStep(G[n], d)
    <3> DEFINE g == CHOOSE g : Approx(g, n)
               h == CHOOSE h : Approx(h, n + 1)
    <3>1. Approx(g, n) /\ Approx(h, n + 1)
      BY <1>3
    <3>2. G[n] = g[n] /\ G[n + 1] = h[n + 1]
      OBVIOUS
    <3> HIDE DEF g, h, G
    <3>3. n \in 0..(n + 1 - 1)
      OBVIOUS
    <3> QED
      BY <1>2, <3>1, <3>2, <3>3
  <2>3. \A n \in Nat : n = 0 \/ (n - 1 \in Nat /\ n - 1 + 1 = n)
    OBVIOUS
  <2>4. \A n \in Nat : G[n] = IF n = 0 THEN start ELSE RefStep(G[n - 1], d)
    BY <2>1, <2>2, <2>3, SMTT(30)
  <2> QED
    BY <2>4
<1> HIDE DEF G
<1>5. RefParse(w, d) = CHOOSE g : g = Body(g)
  BY DEF RefParse, start
<1>6. RefParse(w, d) = Body(RefParse(w, d))
  BY <1>4, <1>5
<1>7. \A n \in Nat : n + 1 \in Nat /\ n + 1 # 0 /\ n + 1 - 1 = n
  OBVIOUS
<1>8. RefParse(w, d)[0] = start
  BY <1>6
<1>9. \A n \in Nat : RefParse(w, d)[n + 1] = RefStep(RefParse(w, d)[n], d)
  BY <1>6, <1>7
<1> QED
  BY <1>8, <1>9 DEF start

-----------------------------------------------------------------------------
(* Sequences that begin alike.                                             *)

Begins(s, t) == Len(s) <= Len(t) /\ \A i \in 1..Len(s) : s[i] = t[i]

LEMMA BeginsConcat ==
    ASSUME NEW S, NEW s \in Seq(S), NEW t \in Seq(S)
    PROVE  Begins(s, s \o t)
<1>1. Len(s) \in Nat /\ Len(t) \in Nat
  BY LenProperties
<1>2. /\ Len(s \o t) = Len(s) + Len(t)
      /\ \A i \in 1..(Len(s) + Len(t)) :
            (s \o t)[i] = IF i <= Len(s) THEN s[i] ELSE t[i - Len(s)]
  BY ConcatProperties
<1> QED
  BY <1>1, <1>2 DEF Begins

LEMMA BeginsAppend ==
    ASSUME NEW S, NEW s \in Seq(S), NEW e \in S
    PROVE  Begins(s, Append(s, e))
<1>1. /\ Len(s) \in Nat /\ Len(Append(s, e)) = Len(s) + 1
      /\ \A i \in 1..Len(s) : Append(s, e)[i] = s[i]
  BY LenProperties, AppendProperties
<1> QED
  BY <1>1 DEF Begins

LEMMA BeginsSelf ==
    ASSUME NEW S, NEW s \in Seq(S)
    PROVE  Begins(s, s)
  BY LenProperties DEF Begins

LEMMA BeginsTrans ==
    ASSUME NEW S, NEW s \in Seq(S), NEW t \in Seq(S), NEW u \in Seq(S),
           Begins(s, t), Begins(t, u)
    PROVE  Begins(s, u)
<1>1. Len(s) \in Nat /\ Len(t) \in Nat /\ Len(u) \in Nat
  BY LenProperties
<1>2. \A i \in 1..Len(s) : i \in 1..Len(t)
  BY <1>1 DEF Begins
<1> QED
  BY <1>1, <1>2 DEF Begins

LEMMA BeginsPrefix ==
    ASSUME NEW S, NEW s \in Seq(S), NEW t \in Seq(S), Begins(s, t)
    PROVE  Len(s) <= Len(t) /\ s = Prefix(t, Len(s))
<1>1. Len(s) \in Nat /\ Len(t) \in Nat /\ Len(s) <= Len(t)
  BY LenProperties DEF Begins
<1>2. /\ Prefix(t, Len(s)) \in Seq(S) /\ Len(Prefix(t, Len(s))) = Len(s)
      /\ \A i \in 1..Len(s) : Prefix(t, Len(s))[i] = t[i]
  BY <1>1, Slice DEF Prefix
<1>3. \A i \in 1..Len(s) : s[i] = Prefix(t, Len(s))[i]
  BY <1>2 DEF Begins
<1> HIDE DEF Prefix
<1> QED
  BY <1>1, <1>2, <1>3, SeqEqual

\* What begins alike still does behind the same string.
LEMMA BeginsBehind ==
    ASSUME NEW S, NEW s \in Seq(S), NEW a \in Seq(S), NEW b \in Seq(S), Begins(a, b)
    PROVE  /\ s \o a \in Seq(S) /\ s \o b \in Seq(S)
           /\ Begins(s \o a, s \o b)
<1>1. Len(s) \in Nat /\ Len(a) \in Nat /\ Len(b) \in Nat
  BY LenProperties
<1>2. /\ s \o a \in Seq(S) /\ Len(s \o a) = Len(s) + Len(a)
      /\ \A i \in 1..(Len(s) + Len(a)) :
            (s \o a)[i] = IF i <= Len(s) THEN s[i] ELSE a[i - Len(s)]
  BY ConcatProperties
<1>3. /\ s \o b \in Seq(S) /\ Len(s \o b) = Len(s) + Len(b)
      /\ \A i \in 1..(Len(s) + Len(b)) :
            (s \o b)[i] = IF i <= Len(s) THEN s[i] ELSE b[i - Len(s)]
  BY ConcatProperties
<1>4. Len(a) <= Len(b) /\ \A i \in 1..Len(a) : a[i] = b[i]
  BY DEF Begins
<1>5. ASSUME NEW i \in 1..(Len(s) + Len(a)) PROVE (s \o a)[i] = (s \o b)[i]
  <2>1. i \in 1..(Len(s) + Len(b)) /\ (~(i <= Len(s)) => i - Len(s) \in 1..Len(a))
    BY <1>1, <1>4
  <2> QED
    BY <1>2, <1>3, <1>4, <2>1
<1> QED
  BY <1>1, <1>2, <1>3, <1>4, <1>5 DEF Begins

\* A longer piece of the same string.
LEMMA BeginsPiece ==
    ASSUME NEW S, NEW t \in Seq(S), NEW k \in Nat, NEW n \in Nat, k <= n, n <= Len(t)
    PROVE  /\ Prefix(t, k) \in Seq(S) /\ Prefix(t, n) \in Seq(S)
           /\ Begins(Prefix(t, k), Prefix(t, n))
<1>1. Len(t) \in Nat /\ k <= Len(t)
  BY LenProperties
<1>2. /\ Prefix(t, k) \in Seq(S) /\ Len(Prefix(t, k)) = k
      /\ \A i \in 1..k : Prefix(t, k)[i] = t[i]
  BY <1>1, Slice DEF Prefix
<1>3. /\ Prefix(t, n) \in Seq(S) /\ Len(Prefix(t, n)) = n
      /\ \A i \in 1..n : Prefix(t, n)[i] = t[i]
  BY <1>1, Slice DEF Prefix
<1>4. \A i \in 1..k : i \in 1..n
  OBVIOUS
<1>5. \A i \in 1..k : Prefix(t, k)[i] = Prefix(t, n)[i]
  BY <1>2, <1>3, <1>4
<1> QED
  BY <1>2, <1>3, <1>5 DEF Begins

-----------------------------------------------------------------------------
(* The steps of the reference.                                             *)

LEMMA FirstLineIs ==
    ASSUME NEW s \in Seq(Bytes), NEW p \in LineEnds(s)
    PROVE  FirstLine(s) = p /\ p \in Nat /\ p + 2 <= Len(s) /\ Len(s) \in Nat
<1>1. FirstLine(s) \in LineEnds(s)
  BY DEF FirstLine
<1>2. FirstLine(s) = p
  BY <1>1, OneFirstLine
<1>3. Len(s) \in Nat
  BY LenProperties
<1>4. p \in 0..Len(s) /\ p + 2 <= Len(s)
  BY DEF LineEnds, CrlfAt
<1> QED
  BY <1>2, <1>3, <1>4

\* What the reference does with the chunk-size line that ends at p.
LEMMA ChunkTaken ==
    ASSUME NEW m, m.rest \in Seq(Bytes), NEW p \in LineEnds(m.rest),
           NEW line, line = Prefix(m.rest, p), NEW rest, rest = Suffix(m.rest, p + 2)
    PROVE  /\ p > MaxChunkLine
                => RefChunk(m) = Message(m.body, m.trailers, "ChunkLineTooLong", m.rest)
           /\ ~(p > MaxChunkLine) /\ ~ValidChunkLine(line)
                => RefChunk(m) = Message(m.body, m.trailers, "InvalidData", m.rest)
           /\ ~(p > MaxChunkLine) /\ ValidChunkLine(line) /\ ChunkSize(line) = 0
                => RefChunk(m) = Message(m.body, m.trailers, "trailers", rest)
           /\ (/\ ~(p > MaxChunkLine) /\ ValidChunkLine(line) /\ ChunkSize(line) # 0
               /\ Len(m.body) + ChunkSize(line) > MaxBody)
                => RefChunk(m) = Message(m.body, m.trailers, "BodyTooLarge", m.rest)
<1>1. FirstLine(m.rest) = p /\ LineEnds(m.rest) # {}
  BY FirstLineIs
<1>2. ASSUME p > MaxChunkLine
      PROVE  RefChunk(m) = Message(m.body, m.trailers, "ChunkLineTooLong", m.rest)
  BY <1>1, <1>2 DEF RefChunk
<1>3. ASSUME ~(p > MaxChunkLine), ~ValidChunkLine(line)
      PROVE  RefChunk(m) = Message(m.body, m.trailers, "InvalidData", m.rest)
  BY <1>1, <1>3 DEF RefChunk
<1>4. ASSUME ~(p > MaxChunkLine), ValidChunkLine(line), ChunkSize(line) = 0
      PROVE  RefChunk(m) = Message(m.body, m.trailers, "trailers", rest)
  BY <1>1, <1>4 DEF RefChunk
<1>5. ASSUME ~(p > MaxChunkLine), ValidChunkLine(line), ChunkSize(line) # 0,
             Len(m.body) + ChunkSize(line) > MaxBody
      PROVE  RefChunk(m) = Message(m.body, m.trailers, "BodyTooLarge", m.rest)
  BY <1>1, <1>5 DEF RefChunk
<1> QED
  BY <1>2, <1>3, <1>4, <1>5

\* The chunk behind a size line that is accepted.
ChunkStarts(m, p, size) ==
    /\ m.status = "chunks"
    /\ p \in LineEnds(m.rest) /\ ~(p > MaxChunkLine) /\ ValidChunkLine(Prefix(m.rest, p))
    /\ size = ChunkSize(Prefix(m.rest, p)) /\ size \in Nat /\ size # 0
    /\ ~(Len(m.body) + size > MaxBody)

LEMMA ChunkDataTaken ==
    ASSUME NEW m, m.rest \in Seq(Bytes), NEW p, NEW size, ChunkStarts(m, p, size),
           NEW rest, rest = Suffix(m.rest, p + 2)
    PROVE  /\ Len(rest) < size
                => RefChunk(m) = Message(m.body \o Prefix(rest, Len(rest)), m.trailers,
                                         "incomplete", m.rest)
           /\ ~(Len(rest) < size) /\ Len(rest) < size + 2
                => RefChunk(m) = Message(m.body \o Prefix(rest, size), m.trailers,
                                         "incomplete", m.rest)
           /\ ~(Len(rest) < size) /\ ~(Len(rest) < size + 2) /\ ~CrlfAt(rest, size)
                => RefChunk(m) = Message(m.body \o Prefix(rest, size), m.trailers,
                                         "InvalidData", m.rest)
           /\ ~(Len(rest) < size) /\ ~(Len(rest) < size + 2) /\ CrlfAt(rest, size)
                => RefChunk(m) = Message(m.body \o Prefix(rest, size), m.trailers,
                                         "chunks", Suffix(rest, size + 2))
<1>1. /\ p \in LineEnds(m.rest) /\ ~(p > MaxChunkLine) /\ ValidChunkLine(Prefix(m.rest, p))
      /\ size = ChunkSize(Prefix(m.rest, p)) /\ size # 0
      /\ ~(Len(m.body) + size > MaxBody)
  BY DEF ChunkStarts
<1>2. FirstLine(m.rest) = p /\ LineEnds(m.rest) # {}
  BY <1>1, FirstLineIs
<1> QED
  BY <1>1, <1>2 DEF RefChunk

\* And with a trailer line.
LEMMA TrailerTaken ==
    ASSUME NEW m, m.rest \in Seq(Bytes), NEW p \in LineEnds(m.rest), NEW d,
           NEW line, line = Prefix(m.rest, p), NEW fields,
           fields = {f \in ParseHeaderLine(line) : Field[f].name \in d \ Prohibited}
    PROVE  /\ p = 0
                => RefTrailer(m, d) = Message(m.body, m.trailers, "Complete", Suffix(m.rest, 2))
           /\ p # 0 /\ p > MaxHeaderLine
                => RefTrailer(m, d) = Message(m.body, m.trailers, "HeaderLineTooLong", m.rest)
           /\ p # 0 /\ ~(p > MaxHeaderLine) /\ Len(m.trailers) >= MaxHeaders
                => RefTrailer(m, d) = Message(m.body, m.trailers, "TooManyHeaders", m.rest)
           /\ (/\ p # 0 /\ ~(p > MaxHeaderLine) /\ ~(Len(m.trailers) >= MaxHeaders)
               /\ ~IsUtf8(line) \/ fields = {})
                => RefTrailer(m, d) = Message(m.body, m.trailers, "InvalidData", m.rest)
           /\ (/\ p # 0 /\ ~(p > MaxHeaderLine) /\ ~(Len(m.trailers) >= MaxHeaders)
               /\ IsUtf8(line) /\ fields # {})
                => RefTrailer(m, d) = Message(m.body, Append(m.trailers, CHOOSE f \in fields : TRUE),
                                              "trailers", Suffix(m.rest, p + 2))
<1>1. FirstLine(m.rest) = p /\ LineEnds(m.rest) # {}
  BY FirstLineIs
<1>2. ASSUME p = 0
      PROVE  RefTrailer(m, d) = Message(m.body, m.trailers, "Complete", Suffix(m.rest, 2))
  BY <1>1, <1>2 DEF RefTrailer
<1>3. ASSUME p # 0, p > MaxHeaderLine
      PROVE  RefTrailer(m, d) = Message(m.body, m.trailers, "HeaderLineTooLong", m.rest)
  BY <1>1, <1>3 DEF RefTrailer
<1>4. ASSUME p # 0, ~(p > MaxHeaderLine), Len(m.trailers) >= MaxHeaders
      PROVE  RefTrailer(m, d) = Message(m.body, m.trailers, "TooManyHeaders", m.rest)
  BY <1>1, <1>4 DEF RefTrailer
<1>5. ASSUME p # 0, ~(p > MaxHeaderLine), ~(Len(m.trailers) >= MaxHeaders),
             ~IsUtf8(line) \/ fields = {}
      PROVE  RefTrailer(m, d) = Message(m.body, m.trailers, "InvalidData", m.rest)
  BY <1>1, <1>5 DEF RefTrailer
<1>6. ASSUME p # 0, ~(p > MaxHeaderLine), ~(Len(m.trailers) >= MaxHeaders),
             IsUtf8(line), fields # {}
      PROVE  RefTrailer(m, d) = Message(m.body, Append(m.trailers, CHOOSE f \in fields : TRUE),
                                        "trailers", Suffix(m.rest, p + 2))
  BY <1>1, <1>6 DEF RefTrailer
<1> QED
  BY <1>2, <1>3, <1>4, <1>5, <1>6

-----------------------------------------------------------------------------
(* The run of the reference: it only adds, and it ends.                    *)

Running(m) == m.status \in {"chunks", "trailers"}

RefType(m) ==
    /\ m.body \in Seq(Bytes) /\ m.trailers \in Seq(DOMAIN Field)
    /\ m.rest \in Seq(Bytes)

\* r comes from m in one step or more.
Later(m, r) == Begins(m.body, r.body) /\ Begins(m.trailers, r.trailers)

LEMMA Fields ==
    ASSUME NEW b, NEW t, NEW s, NEW r
    PROVE  /\ Message(b, t, s, r).body = b /\ Message(b, t, s, r).trailers = t
           /\ Message(b, t, s, r).status = s /\ Message(b, t, s, r).rest = r
  BY DEF Message

\* r is m with another status, and with b added to its body.
Keeps(m, r, s, rest) == r = Message(m.body, m.trailers, s, rest)
Adds(m, r, b, s, rest) == r = Message(m.body \o b, m.trailers, s, rest)

\* Nothing added.
LEMMA SameContent ==
    ASSUME NEW m, RefType(m), NEW s, NEW rest \in Seq(Bytes), NEW r, Keeps(m, r, s, rest)
    PROVE  /\ RefType(r) /\ Later(m, r) /\ r.status = s /\ r.rest = rest
           /\ r.body = m.body /\ r.trailers = m.trailers
<1>1. m.body \in Seq(Bytes) /\ m.trailers \in Seq(DOMAIN Field)
  BY DEF RefType
<1>2. Begins(m.body, m.body) /\ Begins(m.trailers, m.trailers)
  BY <1>1, BeginsSelf
<1>3. r.body = m.body /\ r.trailers = m.trailers /\ r.status = s /\ r.rest = rest
  BY Fields DEF Keeps
<1> QED
  BY <1>1, <1>2, <1>3 DEF RefType, Later

\* Bytes added to the body.
LEMMA MoreBody ==
    ASSUME NEW m, RefType(m), NEW s, NEW rest \in Seq(Bytes), NEW b \in Seq(Bytes),
           NEW r, Adds(m, r, b, s, rest)
    PROVE  RefType(r) /\ Later(m, r) /\ r.status = s /\ r.rest = rest
<1>1. m.body \in Seq(Bytes) /\ m.trailers \in Seq(DOMAIN Field)
  BY DEF RefType
<1>2. Begins(m.body, m.body \o b) /\ Begins(m.trailers, m.trailers)
  BY <1>1, BeginsSelf, BeginsConcat
<1>3. m.body \o b \in Seq(Bytes)
  BY <1>1, ConcatProperties
<1> DEFINE c == m.body \o b
<1>4. r = Message(c, m.trailers, s, rest)
  BY DEF Adds
<1> HIDE DEF c
<1>5. r.body = c /\ r.trailers = m.trailers /\ r.status = s /\ r.rest = rest
  BY <1>4, Fields
<1>6. Begins(m.body, c) /\ c \in Seq(Bytes)
  BY <1>2, <1>3 DEF c
<1> QED
  BY <1>1, <1>2, <1>5, <1>6 DEF RefType, Later

\* What a step leaves is what follows a line, or less.
LEMMA AfterLine ==
    ASSUME NEW s \in Seq(Bytes), NEW k \in Nat, k <= Len(s)
    PROVE  Suffix(s, k) \in Seq(Bytes) /\ Len(Suffix(s, k)) = Len(s) - k
<1>1. Len(s) \in Nat
  BY LenProperties
<1>2. SubSeq(s, k + 1, Len(s)) \in Seq(Bytes) /\ Len(SubSeq(s, k + 1, Len(s))) = Len(s) - k
  BY <1>1, Slice
<1> QED
  BY <1>2 DEF Suffix

LEMMA FrontPiece ==
    ASSUME NEW s \in Seq(Bytes), NEW k \in Nat, k <= Len(s)
    PROVE  Prefix(s, k) \in Seq(Bytes) /\ Len(Prefix(s, k)) = k
<1>1. SubSeq(s, 1, k) \in Seq(Bytes) /\ Len(SubSeq(s, 1, k)) = k
  BY LenProperties, Slice
<1> QED
  BY <1>1 DEF Prefix

Steps(m, r) ==
    /\ RefType(r) /\ Later(m, r)
    /\ Running(r) => Running(m) /\ Len(r.rest) + 1 <= Len(m.rest)

\* One chunk.
LEMMA ChunkSteps ==
    ASSUME NEW m, RefType(m), m.status = "chunks"
    PROVE  Steps(m, RefChunk(m))
<1> DEFINE r == RefChunk(m)
<1>1. m.rest \in Seq(Bytes) /\ Len(m.rest) \in Nat /\ Running(m)
  BY LenProperties DEF RefType, Running
<1>2. ASSUME NEW s, s \notin {"chunks", "trailers"}, Keeps(m, r, s, m.rest)
      PROVE  Steps(m, r)
  <2>1. RefType(r) /\ Later(m, r) /\ r.status = s
    <3> HIDE DEF r
    <3> QED
      BY <1>1, <1>2, SameContent
  <2> HIDE DEF r
  <2> QED
    BY <1>2, <2>1 DEF Steps, Running
<1>3. CASE LineEnds(m.rest) = {}
  <2>1. Keeps(m, r, "incomplete", m.rest)
    BY <1>3 DEF RefChunk, Keeps
  <2> QED
    BY <1>2, <2>1
<1>4. ASSUME NEW p \in LineEnds(m.rest) PROVE Steps(m, r)
  <2> DEFINE line == Prefix(m.rest, p)
             rest == Suffix(m.rest, p + 2)
  <2>1. p + 2 \in Nat /\ p + 2 <= Len(m.rest)
    BY <1>1, FirstLineIs
  <2>2. rest \in Seq(Bytes) /\ Len(rest) = Len(m.rest) - (p + 2)
    BY <1>1, <2>1, AfterLine
  <2>3. Len(rest) \in Nat /\ Len(rest) + 1 <= Len(m.rest)
    <3>1. p \in Nat
      BY <1>1, FirstLineIs
    <3> HIDE DEF rest
    <3> QED
      BY <1>1, <2>1, <2>2, <3>1
  <2> HIDE DEF rest
  <2>4. CASE \E s \in {"ChunkLineTooLong", "InvalidData", "BodyTooLarge"} :
                Keeps(m, r, s, m.rest)
    <3>1. PICK s \in {"ChunkLineTooLong", "InvalidData", "BodyTooLarge"} :
                Keeps(m, r, s, m.rest)
      BY <2>4
    <3>2. s \notin {"chunks", "trailers"}
      BY <3>1
    <3> HIDE DEF r
    <3> QED
      BY <1>2, <3>1, <3>2
  <2>5. CASE p > MaxChunkLine \/ ~ValidChunkLine(line)
    <3>1. /\ p > MaxChunkLine => r = Message(m.body, m.trailers, "ChunkLineTooLong", m.rest)
          /\ ~(p > MaxChunkLine) => r = Message(m.body, m.trailers, "InvalidData", m.rest)
      BY <1>1, <2>5, ChunkTaken
    <3>2. Keeps(m, r, "ChunkLineTooLong", m.rest) \/ Keeps(m, r, "InvalidData", m.rest)
      BY <3>1 DEF Keeps
    <3> HIDE DEF r
    <3> QED
      BY <2>4, <3>2
  <2>6. CASE ~(p > MaxChunkLine) /\ ValidChunkLine(line) /\ ChunkSize(line) = 0
    <3>1. Keeps(m, r, "trailers", rest)
      BY <1>1, <2>6, ChunkTaken DEF rest, Keeps
    <3>2. RefType(r) /\ Later(m, r) /\ r.rest = rest
      <4> HIDE DEF r
      <4> QED
        BY <2>2, <3>1, SameContent
    <3> HIDE DEF r
    <3> QED
      BY <1>1, <2>3, <3>2 DEF Steps
  <2>7. CASE /\ ~(p > MaxChunkLine) /\ ValidChunkLine(line) /\ ChunkSize(line) # 0
             /\ Len(m.body) + ChunkSize(line) > MaxBody
    <3>1. Keeps(m, r, "BodyTooLarge", m.rest)
      BY <1>1, <2>7, ChunkTaken DEF Keeps
    <3> HIDE DEF r
    <3> QED
      BY <2>4, <3>1
  <2>8. CASE /\ ~(p > MaxChunkLine) /\ ValidChunkLine(line) /\ ChunkSize(line) # 0
             /\ ~(Len(m.body) + ChunkSize(line) > MaxBody)
    <3> DEFINE size == ChunkSize(line)
    <3>1. size \in Nat
      BY <2>8, ChunkSizeIsNat
    <3>2. ChunkStarts(m, p, size)
      BY <2>8, <3>1 DEF ChunkStarts
    <3> HIDE DEF size
    <3>3. ASSUME NEW n \in Nat, n <= Len(rest), NEW s, s \notin {"chunks", "trailers"},
                 Adds(m, r, Prefix(rest, n), s, m.rest)
          PROVE  Steps(m, r)
      <4>1. Prefix(rest, n) \in Seq(Bytes)
        BY <2>2, <3>3, FrontPiece
      <4>2. RefType(r) /\ Later(m, r) /\ r.status = s
        <5> HIDE DEF r
        <5> QED
          BY <1>1, <3>3, <4>1, MoreBody
      <4> HIDE DEF r
      <4> QED
        BY <3>3, <4>2 DEF Steps, Running
    <3>4. CASE Len(rest) < size
      <4>1. Adds(m, r, Prefix(rest, Len(rest)), "incomplete", m.rest)
        BY <1>1, <3>2, <3>4, ChunkDataTaken DEF rest, Adds
      <4> QED
        BY <2>3, <3>3, <4>1
    <3>5. CASE ~(Len(rest) < size) /\ (Len(rest) < size + 2 \/ ~CrlfAt(rest, size))
      <4>1. \E s \in {"incomplete", "InvalidData"} :
               Adds(m, r, Prefix(rest, size), s, m.rest)
        BY <1>1, <3>2, <3>5, ChunkDataTaken DEF rest, Adds
      <4>2. size <= Len(rest)
        BY <2>3, <3>1, <3>5
      <4> QED
        BY <3>1, <3>3, <4>1, <4>2
    <3>6. CASE ~(Len(rest) < size) /\ ~(Len(rest) < size + 2) /\ CrlfAt(rest, size)
      <4>1. Adds(m, r, Prefix(rest, size), "chunks", Suffix(rest, size + 2))
        BY <1>1, <3>2, <3>6, ChunkDataTaken DEF rest, Adds
      <4>2. size + 2 \in Nat /\ size + 2 <= Len(rest) /\ size <= Len(rest)
        BY <2>3, <3>1, <3>6
      <4>3. /\ Suffix(rest, size + 2) \in Seq(Bytes)
            /\ Len(Suffix(rest, size + 2)) = Len(rest) - (size + 2)
        BY <2>2, <4>2, AfterLine
      <4>4. Len(Suffix(rest, size + 2)) + 1 <= Len(m.rest)
        BY <1>1, <2>3, <3>1, <4>2, <4>3
      <4>5. Prefix(rest, size) \in Seq(Bytes)
        BY <2>2, <3>1, <4>2, FrontPiece
      <4>6. RefType(r) /\ Later(m, r) /\ r.rest = Suffix(rest, size + 2)
        <5> HIDE DEF r
        <5> QED
          BY <4>1, <4>3, <4>5, MoreBody
      <4> HIDE DEF r
      <4> QED
        BY <1>1, <4>4, <4>6 DEF Steps
    <3> QED
      BY <3>4, <3>5, <3>6
  <2> QED
    BY <2>4, <2>5, <2>6, <2>7, <2>8
<1> QED
  BY <1>3, <1>4

\* One trailer line.
LEMMA TrailerSteps ==
    ASSUME NEW m, RefType(m), m.status = "trailers", NEW d
    PROVE  Steps(m, RefTrailer(m, d))
<1> SUFFICES ASSUME NEW r, r = RefTrailer(m, d) PROVE Steps(m, r)
  OBVIOUS
<1>1. m.rest \in Seq(Bytes) /\ Len(m.rest) \in Nat /\ Running(m)
  BY LenProperties DEF RefType, Running
<1>2. ASSUME NEW s, s \notin {"chunks", "trailers"}, NEW rest \in Seq(Bytes),
             Keeps(m, r, s, rest)
      PROVE  Steps(m, r)
  <2>1. RefType(r) /\ Later(m, r) /\ r.status = s
    BY <1>2, SameContent
  <2> QED
    BY <1>2, <2>1 DEF Steps, Running
<1>3. CASE LineEnds(m.rest) = {}
  <2>1. Keeps(m, r, "incomplete", m.rest)
    BY <1>3 DEF RefTrailer, Keeps
  <2> QED
    BY <1>1, <1>2, <2>1
<1>4. ASSUME NEW p \in LineEnds(m.rest) PROVE Steps(m, r)
  <2>9. PICK line : line = Prefix(m.rest, p)
    OBVIOUS
  <2>10. PICK fields : fields = {f \in ParseHeaderLine(line) : Field[f].name \in d \ Prohibited}
    OBVIOUS
  <2>1. p \in Nat /\ p + 2 \in Nat /\ p + 2 <= Len(m.rest) /\ 2 <= Len(m.rest)
    BY <1>1, FirstLineIs
  <2>2. CASE p = 0
    <3>1. Keeps(m, r, "Complete", Suffix(m.rest, 2))
      BY <1>1, <2>2, TrailerTaken DEF Keeps
    <3>2. Suffix(m.rest, 2) \in Seq(Bytes)
      BY <1>1, <2>1, AfterLine
    <3> QED
      BY <1>2, <3>1, <3>2
  <2>3. CASE p # 0 /\ p > MaxHeaderLine
    <3>1. Keeps(m, r, "HeaderLineTooLong", m.rest)
      BY <1>1, <2>3, TrailerTaken, ZenonT(30) DEF Keeps
    <3> QED
      BY <1>1, <1>2, <3>1
  <2>4. CASE p # 0 /\ ~(p > MaxHeaderLine) /\ Len(m.trailers) >= MaxHeaders
    <3>1. Keeps(m, r, "TooManyHeaders", m.rest)
      BY <1>1, <2>4, TrailerTaken DEF Keeps
    <3> QED
      BY <1>1, <1>2, <3>1
  <2>5. CASE /\ p # 0 /\ ~(p > MaxHeaderLine) /\ ~(Len(m.trailers) >= MaxHeaders)
             /\ ~IsUtf8(line) \/ fields = {}
    <3>1. Keeps(m, r, "InvalidData", m.rest)
      BY <1>1, <2>5, <2>9, <2>10, TrailerTaken DEF Keeps
    <3> QED
      BY <1>1, <1>2, <3>1
  <2>6. CASE /\ p # 0 /\ ~(p > MaxHeaderLine) /\ ~(Len(m.trailers) >= MaxHeaders)
             /\ IsUtf8(line) /\ fields # {}
    <3> DEFINE f == CHOOSE f \in fields : TRUE
               ts == Append(m.trailers, f)
               rest == Suffix(m.rest, p + 2)
    <3>1. r = Message(m.body, ts, "trailers", rest)
      BY <1>1, <2>6, <2>9, <2>10, TrailerTaken
    <3>2. f \in DOMAIN Field
      BY <2>6, <2>10 DEF ParseHeaderLine
    <3>3. m.trailers \in Seq(DOMAIN Field) /\ m.body \in Seq(Bytes)
      BY DEF RefType
    <3> HIDE DEF f
    <3>4. ts \in Seq(DOMAIN Field) /\ Begins(m.trailers, ts) /\ Begins(m.body, m.body)
      BY <3>2, <3>3, AppendProperties, BeginsAppend, BeginsSelf
    <3>5. rest \in Seq(Bytes) /\ Len(rest) = Len(m.rest) - (p + 2)
      BY <1>1, <2>1, AfterLine
    <3> HIDE DEF ts, rest
    <3>6. r.body = m.body /\ r.trailers = ts /\ r.rest = rest
      BY <3>1, Fields
    <3>7. Len(rest) + 1 <= Len(m.rest)
      BY <1>1, <2>1, <3>5
    <3>8. RefType(r) /\ Later(m, r)
      BY <3>3, <3>4, <3>5, <3>6 DEF RefType, Later
    <3> QED
      BY <1>1, <3>6, <3>7, <3>8 DEF Steps
  <2> QED
    BY <2>2, <2>3, <2>4, <2>5, <2>6
<1> QED
  BY <1>3, <1>4

LEMMA RefSteps ==
    ASSUME NEW m, RefType(m), NEW d
    PROVE  /\ Steps(m, RefStep(m, d))
           /\ ~Running(m) => RefStep(m, d) = m
<1>1. CASE m.status = "chunks"
  BY <1>1, ChunkSteps DEF RefStep, Running
<1>2. CASE m.status = "trailers"
  BY <1>2, TrailerSteps DEF RefStep, Running
<1>3. CASE ~Running(m)
  <2>1. RefStep(m, d) = m
    BY <1>3 DEF RefStep, Running
  <2>2. Later(m, m)
    BY BeginsSelf DEF RefType, Later
  <2> QED
    BY <1>3, <2>1, <2>2 DEF Steps
<1> QED
  BY <1>1, <1>2, <1>3 DEF Running

LEMMA LaterTrans ==
    ASSUME NEW m, NEW r, NEW q, RefType(m), RefType(r), RefType(q), Later(m, r), Later(r, q)
    PROVE  Later(m, q)
  BY BeginsTrans DEF RefType, Later

\* The first n steps.
LEMMA ParseTypes ==
    ASSUME NEW w \in Seq(Bytes), NEW d, NEW n \in Nat
    PROVE  /\ RefType(RefParse(w, d)[n])
           /\ Running(RefParse(w, d)[n]) => Len(RefParse(w, d)[n].rest) + n <= Len(w)
<1> DEFINE P(k) == RefParse(w, d)[k]
           Good(k) == RefType(P(k)) /\ (Running(P(k)) => Len(P(k).rest) + k <= Len(w))
           T == {k \in Nat : Good(k)}
<1>0. Len(w) \in Nat
  BY LenProperties
<1>1. 0 \in T
  <2>1. P(0) = Message(<< >>, << >>, "chunks", w)
    BY ParseSteps
  <2>2. P(0).body = << >> /\ P(0).trailers = << >> /\ P(0).rest = w
    BY <2>1, Fields
  <2>3. << >> \in Seq(Bytes) /\ << >> \in Seq(DOMAIN Field)
    BY EmptySeq
  <2>4. Len(P(0).rest) + 0 <= Len(w)
    BY <1>0, <2>2
  <2>5. Good(0)
    BY <2>2, <2>3, <2>4 DEF RefType
  <2> HIDE DEF Good
  <2> QED
    BY <2>5
<1>2. ASSUME NEW k \in Nat, k \in T PROVE k + 1 \in T
  <2>1. P(k + 1) = RefStep(P(k), d)
    BY ParseSteps
  <2>2. RefType(P(k)) /\ (Running(P(k)) => Len(P(k).rest) + k <= Len(w))
    BY <1>2
  <2> HIDE DEF P
  <2>3. Steps(P(k), P(k + 1))
    BY <2>1, <2>2, RefSteps
  <2>4. RefType(P(k + 1))
    BY <2>3 DEF Steps
  <2>5. Len(P(k).rest) \in Nat /\ Len(P(k + 1).rest) \in Nat
    BY <2>2, <2>4, LenProperties DEF RefType
  <2>6. Running(P(k + 1)) => Len(P(k + 1).rest) + (k + 1) <= Len(w)
    <3> DEFINE i == Len(P(k).rest)
               j == Len(P(k + 1).rest)
               l == Len(w)
    <3>1. i \in Nat /\ j \in Nat /\ l \in Nat
      BY <1>0, <2>5
    <3>2. ASSUME Running(P(k + 1)) PROVE i + k <= l /\ j + 1 <= i
      BY <2>2, <2>3, <3>2 DEF Steps
    <3> HIDE DEF i, j, l
    <3>3. ASSUME Running(P(k + 1)) PROVE j + (k + 1) <= l
      BY <3>1, <3>2, <3>3
    <3> QED
      BY <3>3 DEF j, l
  <2>7. Good(k + 1)
    BY <2>4, <2>6, Zenon
  <2>8. k + 1 \in Nat
    OBVIOUS
  <2> HIDE DEF Good
  <2> QED
    BY <2>7, <2>8
<1> HIDE DEF T
<1>3. n \in T
  BY <1>1, <1>2, NatSetInduction
<1> QED
  BY <1>3 DEF T

\* j more steps.
LEMMA ParseLater ==
    ASSUME NEW w \in Seq(Bytes), NEW d, NEW n \in Nat, NEW j \in Nat
    PROVE  /\ Later(RefParse(w, d)[n], RefParse(w, d)[n + j])
           /\ ~Running(RefParse(w, d)[n]) => RefParse(w, d)[n + j] = RefParse(w, d)[n]
<1> DEFINE P(k) == RefParse(w, d)[k]
           Good(k) == Later(P(n), P(n + k)) /\ (~Running(P(n)) => P(n + k) = P(n))
           T == {k \in Nat : Good(k)}
<1>1. 0 \in T
  <2>1. n + 0 = n
    OBVIOUS
  <2>2. RefType(P(n))
    BY ParseTypes
  <2> HIDE DEF P
  <2>3. Later(P(n), P(n))
    BY <2>2, BeginsSelf DEF RefType, Later
  <2> QED
    BY <2>1, <2>3
<1>2. ASSUME NEW k \in Nat, k \in T PROVE k + 1 \in T
  <2>1. n + k \in Nat /\ n + (k + 1) \in Nat /\ n + (k + 1) = (n + k) + 1
    OBVIOUS
  <2>2. P(n + (k + 1)) = RefStep(P(n + k), d)
    BY <2>1, ParseSteps
  <2>3. RefType(P(n)) /\ RefType(P(n + k)) /\ RefType(P(n + (k + 1)))
    BY <2>1, ParseTypes
  <2>4. Later(P(n), P(n + k)) /\ (~Running(P(n)) => P(n + k) = P(n))
    BY <1>2
  <2> HIDE DEF P
  <2>5. Steps(P(n + k), P(n + (k + 1)))
        /\ (~Running(P(n + k)) => P(n + (k + 1)) = P(n + k))
    BY <2>2, <2>3, RefSteps
  <2>6. Later(P(n), P(n + (k + 1)))
    BY <2>3, <2>4, <2>5, LaterTrans DEF Steps
  <2> QED
    BY <2>4, <2>5, <2>6
<1> HIDE DEF T
<1>3. j \in T
  BY <1>1, <1>2, NatSetInduction
<1> QED
  BY <1>3 DEF T

\* The reference is where the run ends.
LEMMA ReferenceIs ==
    ASSUME NEW w \in Seq(Bytes), NEW d, NEW n \in Nat, NEW m, m = RefParse(w, d)[n]
    PROVE  /\ RefType(m) /\ RefType(Reference(w, d))
           /\ Later(m, Reference(w, d))
           /\ ~Running(m) => Reference(w, d) = m
<1> DEFINE P(k) == RefParse(w, d)[k]
           e == Len(w) + 1
<1>1. Len(w) \in Nat /\ e \in Nat
  BY LenProperties
<1>2. RefType(P(n)) /\ RefType(P(e))
  BY <1>1, ParseTypes
<1>3. ~Running(P(e))
  <2>1. Running(P(e)) => Len(P(e).rest) + e <= Len(w)
    BY <1>1, ParseTypes
  <2>2. Len(P(e).rest) \in Nat
    BY <1>2, LenProperties DEF RefType
  <2>3. \A i \in Nat : ~(i + e <= Len(w))
    BY <1>1
  <2> HIDE DEF P, e
  <2> QED
    BY <2>1, <2>2, <2>3
<1>4. Reference(w, d) = P(e)
  BY DEF Reference
<1>5. CASE n <= e
  <2>1. e - n \in Nat /\ n + (e - n) = e
    BY <1>1, <1>5
  <2>2. Later(P(n), P(n + (e - n))) /\ (~Running(P(n)) => P(n + (e - n)) = P(n))
    BY <2>1, ParseLater
  <2> QED
    BY <1>2, <1>4, <2>1, <2>2
<1>6. CASE ~(n <= e)
  <2>1. n - e \in Nat /\ e + (n - e) = n
    BY <1>1, <1>6
  <2>2. P(e + (n - e)) = P(e)
    BY <1>1, <1>3, <2>1, ParseLater, ZenonT(30)
  <2>3. P(n) = P(e)
    BY <2>1, <2>2
  <2>4. Later(P(e), P(e))
    BY <1>2, BeginsSelf DEF RefType, Later
  <2> QED
    BY <1>2, <1>4, <2>3, <2>4
<1> QED
  BY <1>5, <1>6

-----------------------------------------------------------------------------
(* Where the decoder stands in the run of the reference.                   *)

\* k bytes of the chunk behind the size line of m have been taken; `ahead`
\* follows them.
InChunk(m, p, size, k, ahead, b) ==
    /\ ChunkStarts(m, p, size)
    /\ k \in Nat /\ k <= size /\ k <= Len(Suffix(m.rest, p + 2))
    /\ b = m.body \o Prefix(Suffix(m.rest, p + 2), k)
    /\ ahead = Suffix(Suffix(m.rest, p + 2), k)

\* A decoder in phase ph, with rem, b and ts in remaining, body and trailers and
\* `ahead` in front of it, stands at m.
Stands(m, ahead, ph, rem, b, ts) ==
    /\ m.trailers = ts
    /\ ph = "BodyChunkedSize" => m.status = "chunks" /\ m.body = b /\ m.rest = ahead
    /\ ph = "ChunkedTrailer" => m.status = "trailers" /\ m.body = b /\ m.rest = ahead
    /\ ph \in {"BodyChunkedData", "BodyChunkedDataCrlf"} =>
          \E p, size : InChunk(m, p, size, size - rem, ahead, b)
    /\ ph = "BodyChunkedDataCrlf" => rem = 0

\* The first line of what is ahead, when it is in the buffer.
LEMMA LineAhead ==
    ASSUME NEW b \in Seq(Bytes), NEW t \in Seq(Bytes), NEW p \in LineEnds(b)
    PROVE  /\ p \in LineEnds(b \o t) /\ p \in Nat /\ p + 2 <= Len(b)
           /\ b \o t \in Seq(Bytes)
           /\ Prefix(b \o t, p) = Prefix(b, p)
           /\ Suffix(b \o t, p + 2) = Suffix(b, p + 2) \o t
<1>1. p \in Nat /\ p + 2 <= Len(b) /\ Len(b) \in Nat
  BY FirstLineIs
<1>2. p \in LineEnds(b \o t)
  BY FirstLineStays
<1>3. b \o t \in Seq(Bytes)
  BY ConcatProperties
<1>4. Prefix(b \o t, p) = Prefix(b, p)
  BY <1>1, PrefixOfConcat DEF Prefix
<1>5. Suffix(b \o t, p + 2) = Suffix(b, p + 2) \o t
  <2>1. p + 2 \in Nat
    BY <1>1
  <2> QED
    BY <1>1, <2>1, SuffixOfConcat DEF Suffix
<1> QED
  BY <1>1, <1>2, <1>3, <1>4, <1>5

\* A chunk is entered with nothing of it taken.
LEMMA ChunkEntered ==
    ASSUME NEW m, RefType(m), NEW p, NEW size, ChunkStarts(m, p, size)
    PROVE  InChunk(m, p, size, 0, Suffix(m.rest, p + 2), m.body)
<1>1. m.rest \in Seq(Bytes) /\ m.body \in Seq(Bytes) /\ size \in Nat
  BY DEF RefType, ChunkStarts
<1>2. p \in Nat /\ p + 2 <= Len(m.rest)
  BY <1>1, FirstLineIs DEF ChunkStarts
<1>3. PICK rest : rest = Suffix(m.rest, p + 2)
  OBVIOUS
<1>4. rest \in Seq(Bytes)
  BY <1>1, <1>2, <1>3, AfterLine
<1>5. Prefix(rest, 0) = << >>
  BY SubSeqEmpty DEF Prefix
<1>6. Suffix(rest, 0) = rest
  BY <1>4, SubSeqFull, LenProperties DEF Suffix
<1>7. m.body \o << >> = m.body
  BY <1>1, ConcatEmptySeq
<1>8. 0 \in Nat /\ 0 <= size /\ 0 <= Len(rest)
  BY <1>1, <1>4, LenProperties
<1> QED
  BY <1>3, <1>5, <1>6, <1>7, <1>8 DEF InChunk

LEMMA PieceOfSuffix ==
    ASSUME NEW s \in Seq(Bytes), NEW k \in Nat, k <= Len(s), NEW n \in Nat, n <= Len(s) - k
    PROVE  Prefix(Suffix(s, k), n) = SubSeq(s, k + 1, k + n)
<1>1. Len(s) \in Nat
  BY LenProperties
<1>2. PICK q : q = Suffix(s, k)
  OBVIOUS
<1>3. q \in Seq(Bytes) /\ Len(q) = Len(s) - k /\ \A i \in 1..(Len(s) - k) : q[i] = s[k + i]
  BY <1>1, <1>2, Slice DEF Suffix
<1>4. PICK a : a = SubSeq(q, 1, n)
  OBVIOUS
<1>5. a \in Seq(Bytes) /\ Len(a) = n /\ \A i \in 1..n : a[i] = q[i]
  BY <1>1, <1>3, <1>4, Slice
<1>6. PICK b : b = SubSeq(s, k + 1, k + n)
  OBVIOUS
<1>7. b \in Seq(Bytes) /\ Len(b) = n /\ \A i \in 1..n : b[i] = s[k + i]
  <2>1. k + 1 \in Nat /\ k + 1 >= 1 /\ k + n \in Int /\ k + n <= Len(s)
    BY <1>1
  <2> QED
    BY <1>6, <2>1, Slice
<1>8. \A i \in 1..n : i \in 1..(Len(s) - k)
  BY <1>1
<1>9. a = b
  BY <1>3, <1>5, <1>7, <1>8, SeqEqual
<1> QED
  BY <1>2, <1>4, <1>6, <1>9 DEF Prefix

\* n more bytes of the chunk are taken from what is ahead.
LEMMA ChunkGoesOn ==
    ASSUME NEW m, RefType(m), NEW p, NEW size, NEW k, NEW c \in Seq(Bytes),
           NEW b \in Seq(Bytes), NEW t \in Seq(Bytes), InChunk(m, p, size, k, b \o t, c),
           NEW n \in Nat, n <= Len(b), k + n <= size
    PROVE  InChunk(m, p, size, k + n, Suffix(b, n) \o t, c \o Prefix(b, n))
<1>1. /\ m.rest \in Seq(Bytes) /\ m.body \in Seq(Bytes) /\ size \in Nat
      /\ ChunkStarts(m, p, size) /\ k \in Nat /\ k <= size
  BY DEF RefType, ChunkStarts, InChunk
<1>2. p \in Nat /\ p + 2 <= Len(m.rest)
  BY <1>1, FirstLineIs DEF ChunkStarts
<1>3. PICK rest : rest = Suffix(m.rest, p + 2)
  OBVIOUS
<1>4. rest \in Seq(Bytes) /\ Len(rest) \in Nat
  BY <1>1, <1>2, <1>3, AfterLine, LenProperties, SMTT(30)
<1>5. k <= Len(rest) /\ c = m.body \o Prefix(rest, k) /\ b \o t = Suffix(rest, k)
  BY <1>3 DEF InChunk
<1>6. Len(b) \in Nat /\ Len(t) \in Nat /\ Len(b \o t) = Len(b) + Len(t)
  BY LenProperties, ConcatProperties
<1>7. Len(Suffix(rest, k)) = Len(rest) - k
  BY <1>1, <1>4, <1>5, AfterLine
<1>8. k + n \in Nat /\ k + n <= Len(rest) /\ n <= Len(rest) - k
  <2>1. Len(b) + Len(t) = Len(rest) - k
    BY <1>5, <1>6, <1>7
  <2> QED
    BY <1>1, <1>4, <1>6, <2>1
<1>9. Suffix(b, n) \o t = Suffix(rest, k + n)
  <2>1. Suffix(b \o t, n) = Suffix(b, n) \o t
    BY SuffixOfConcat DEF Suffix
  <2>2. Suffix(Suffix(rest, k), n) = Suffix(rest, k + n)
    BY <1>1, <1>4, <1>5, <1>8, SuffixOfSuffix DEF Suffix
  <2> QED
    BY <1>5, <2>1, <2>2
<1>10. Prefix(b, n) = SubSeq(rest, k + 1, k + n)
  <2>1. Prefix(b, n) = Prefix(b \o t, n)
    BY PrefixOfConcat DEF Prefix
  <2>2. Prefix(Suffix(rest, k), n) = SubSeq(rest, k + 1, k + n)
    BY <1>1, <1>4, <1>5, <1>8, PieceOfSuffix
  <2> QED
    BY <1>5, <2>1, <2>2
<1>11. Prefix(rest, k) \o SubSeq(rest, k + 1, k + n) = Prefix(rest, k + n)
  BY <1>1, <1>4, <1>8, PrefixExtends DEF Prefix
<1>12. c \o Prefix(b, n) = m.body \o Prefix(rest, k + n)
  <2>1. Prefix(rest, k) \in Seq(Bytes)
    BY <1>1, <1>4, <1>5, FrontPiece
  <2>2. Prefix(b, n) \in Seq(Bytes)
    BY FrontPiece
  <2>3. c \o Prefix(b, n) = m.body \o (Prefix(rest, k) \o Prefix(b, n))
    <3>1. PICK x, y, z : x = m.body /\ y = Prefix(rest, k) /\ z = Prefix(b, n)
      OBVIOUS
    <3>2. x \in Seq(Bytes) /\ y \in Seq(Bytes) /\ z \in Seq(Bytes)
      BY <1>1, <2>1, <2>2, <3>1
    <3>3. (x \o y) \o z = x \o (y \o z)
      BY <3>2, ConcatAssociative, SMTT(30)
    <3> QED
      BY <1>5, <3>1, <3>3
  <2> QED
    BY <1>10, <1>11, <2>3
<1> QED
  BY <1>1, <1>3, <1>8, <1>9, <1>12 DEF InChunk

\* The bytes of the chunk are all taken: its CRLF.
LEMMA ChunkEnds ==
    ASSUME NEW m, RefType(m), NEW p, NEW size, NEW c, NEW b \in Seq(Bytes),
           NEW t \in Seq(Bytes), InChunk(m, p, size, size, b \o t, c), Len(b) >= 2
    PROVE  /\ CrlfAt(b, 0) => RefChunk(m) = Message(c, m.trailers, "chunks", Suffix(b, 2) \o t)
           /\ ~CrlfAt(b, 0) => RefChunk(m) = Message(c, m.trailers, "InvalidData", m.rest)
<1>1. /\ m.rest \in Seq(Bytes) /\ m.body \in Seq(Bytes) /\ size \in Nat
      /\ ChunkStarts(m, p, size)
  BY DEF RefType, ChunkStarts, InChunk
<1>2. p \in Nat /\ p + 2 <= Len(m.rest)
  BY <1>1, FirstLineIs DEF ChunkStarts
<1>3. PICK rest : rest = Suffix(m.rest, p + 2)
  OBVIOUS
<1>4. rest \in Seq(Bytes) /\ Len(rest) \in Nat
  BY <1>1, <1>2, <1>3, AfterLine, LenProperties
<1>5. size <= Len(rest) /\ c = m.body \o Prefix(rest, size) /\ b \o t = Suffix(rest, size)
  BY <1>3 DEF InChunk
<1>6. /\ Len(b) \in Nat /\ Len(t) \in Nat /\ Len(b \o t) = Len(b) + Len(t)
      /\ \A i \in 1..Len(b) : (b \o t)[i] = b[i]
  BY LenProperties, ConcatProperties
<1>7. /\ Len(Suffix(rest, size)) = Len(rest) - size
      /\ \A i \in 1..(Len(rest) - size) : Suffix(rest, size)[i] = rest[size + i]
  BY <1>1, <1>4, <1>5, Slice DEF Suffix
<1>8. size + 2 <= Len(rest) /\ ~(Len(rest) < size) /\ ~(Len(rest) < size + 2)
      /\ 2 <= Len(rest) - size
  <2>1. Len(b) + Len(t) = Len(rest) - size
    BY <1>5, <1>6, <1>7
  <2> QED
    BY <1>1, <1>4, <1>6, <2>1
<1>9. b[1] = rest[size + 1] /\ b[2] = rest[size + 2]
  <2>1. 1 \in 1..Len(b) /\ 2 \in 1..Len(b)
    BY <1>6
  <2>2. 1 \in 1..(Len(rest) - size) /\ 2 \in 1..(Len(rest) - size)
    BY <1>1, <1>4, <1>8
  <2> QED
    BY <1>5, <1>6, <1>7, <2>1, <2>2
<1>10. CrlfAt(b, 0) <=> CrlfAt(rest, size)
  <2>1. CrlfAt(b, 0) <=> b[1] = CR /\ b[2] = LF
    BY <1>6 DEF CrlfAt
  <2>2. CrlfAt(rest, size) <=> rest[size + 1] = CR /\ rest[size + 2] = LF
    BY <1>8 DEF CrlfAt
  <2> QED
    BY <1>9, <2>1, <2>2
<1>11. Suffix(b, 2) \o t = Suffix(rest, size + 2)
  <2>1. Suffix(b \o t, 2) = Suffix(b, 2) \o t
    BY <1>6, SuffixOfConcat DEF Suffix
  <2>2. Suffix(Suffix(rest, size), 2) = Suffix(rest, size + 2)
    BY <1>1, <1>4, <1>5, <1>8, SuffixOfSuffix DEF Suffix
  <2> QED
    BY <1>5, <2>1, <2>2
<1> QED
  BY <1>1, <1>3, <1>5, <1>8, <1>10, <1>11, ChunkDataTaken

-----------------------------------------------------------------------------
(* The operations of the decoder, and the step of the reference.           *)

\* The decoder stands at m, if t follows the bytes fed so far.
AtRef(m, t) ==
    /\ BodyInv /\ RefType(m) /\ t \in Seq(Bytes)
    /\ Stands(m, buf \o t, phase, remaining, body, trailers)
    /\ IsChunked /\ ~failed /\ given = << >>

\* After the operation it stands at m or at the next message r of the reference,
\* or it has ended as r has.
Moves(m, r, t) ==
    \/ /\ ~failed' /\ given' = given /\ phase' # "Complete"
       /\ \/ Stands(m, buf' \o t, phase', remaining', body', trailers')
          \/ Stands(r, buf' \o t, phase', remaining', body', trailers')
    \/ failed' /\ result' = r.status /\ ~Running(r) /\ phase' # "Complete"
    \/ ~failed' /\ phase' = "Complete" /\ r = Message(body', given', "Complete", buf' \o t)

\* What a call that only returns a value means.
LEMMA ReturnMoves ==
    ASSUME NEW m, NEW r, NEW t, AtRef(m, t), NEW value, Returns(value),
           value \in WireErrors => value = r.status /\ ~Running(r)
    PROVE  Moves(m, r, t)
<1>1. /\ buf' = buf /\ phase' = phase /\ remaining' = remaining /\ body' = body
      /\ trailers' = trailers /\ given' = given /\ result' = value
      /\ failed' = (failed \/ value \in WireErrors)
  BY DEF Returns, inputVars, decoderVars
<1>2. /\ Stands(m, buf \o t, phase, remaining, body, trailers)
      /\ phase # "Complete" /\ ~failed
  BY DEF AtRef, IsChunked
<1>3. CASE value \in WireErrors
  BY <1>1, <1>2, <1>3 DEF Moves
<1>4. CASE value \notin WireErrors
  BY <1>1, <1>2, <1>4 DEF Moves
<1> QED
  BY <1>3, <1>4

\* The chunk-size line.
LEMMA SizeMoves ==
    ASSUME NEW m, NEW t, AtRef(m, t), ProcessChunkedSize, NEW d, NEW r, r = RefStep(m, d)
    PROVE  Moves(m, r, t)
<1>1. /\ phase = "BodyChunkedSize" /\ BodyTypeOK /\ WithinLimit /\ RefType(m)
      /\ buf \in Seq(Bytes) /\ t \in Seq(Bytes) /\ ~failed /\ body \in Seq(Bytes)
  BY DEF AtRef, ProcessChunkedSize, BodyInv, BodyTypeOK
<1>2. m.status = "chunks" /\ m.body = body /\ m.rest = buf \o t /\ m.trailers = trailers
  BY <1>1 DEF AtRef, Stands
<1>3. r = RefChunk(m)
  BY <1>2 DEF RefStep
<1>4. CASE Returns("NeedData")
  <2>1. "NeedData" \notin WireErrors
    BY DEF WireErrors
  <2> QED
    BY <1>4, <2>1, ReturnMoves
<1>5. ASSUME NEW pos \in LineEnds(buf), NEW line, line = Prefix(buf, pos),
             ~Returns("NeedData"),
             \/ pos > MaxChunkLine /\ Returns("ChunkLineTooLong")
             \/ pos <= MaxChunkLine /\ ~ValidChunkLine(line) /\ Returns("InvalidData")
             \/ /\ pos <= MaxChunkLine /\ ValidChunkLine(line)
                /\ buf' = Suffix(buf, pos + 2)
                /\ UNCHANGED <<wire, sent, decoderVars, body, given>>
                /\ \/ /\ ChunkSize(line) = 0
                      /\ phase' = "ChunkedTrailer"
                      /\ call' = "trailers" /\ advanced' = TRUE
                      /\ result' = "none"
                      /\ UNCHANGED <<remaining, failed>>
                   \/ /\ ChunkSize(line) > 0
                      /\ ExceedsBody(ChunkSize(line))
                      /\ result' = "BodyTooLarge" /\ failed' = TRUE
                      /\ UNCHANGED <<phase, remaining, call, advanced>>
                   \/ /\ ChunkSize(line) > 0
                      /\ ~ExceedsBody(ChunkSize(line))
                      /\ phase' = "BodyChunkedData" /\ remaining' = ChunkSize(line)
                      /\ result' = "Advanced"
                      /\ UNCHANGED <<call, advanced, failed>>
      PROVE  Moves(m, r, t)
  <2>1. /\ pos \in LineEnds(m.rest) /\ line = Prefix(m.rest, pos) /\ pos \in Nat
        /\ m.rest \in Seq(Bytes) /\ Suffix(m.rest, pos + 2) = Suffix(buf, pos + 2) \o t
    BY <1>1, <1>2, <1>5, LineAhead
  <2>2. MaxChunkLine \in Nat /\ (pos <= MaxChunkLine <=> ~(pos > MaxChunkLine))
    BY <2>1, BodyAssumption
  <2>3. CASE pos > MaxChunkLine
    <3>1. Keeps(m, r, "ChunkLineTooLong", m.rest)
      BY <1>3, <2>1, <2>3, ChunkTaken DEF Keeps
    <3>2. r.status = "ChunkLineTooLong" /\ ~Running(r)
      BY <1>1, <2>1, <3>1, SameContent DEF Running
    <3> QED
      BY <1>5, <2>2, <2>3, <3>2, ReturnMoves
  <2>4. CASE ~(pos > MaxChunkLine) /\ ~ValidChunkLine(line)
    <3>1. Keeps(m, r, "InvalidData", m.rest)
      BY <1>3, <2>1, <2>4, ChunkTaken DEF Keeps
    <3>2. r.status = "InvalidData" /\ ~Running(r)
      BY <1>1, <2>1, <3>1, SameContent DEF Running
    <3> QED
      BY <1>5, <2>2, <2>4, <3>2, ReturnMoves
  <2>5. CASE ~(pos > MaxChunkLine) /\ ValidChunkLine(line)
    <3> DEFINE size == ChunkSize(line)
               rest == Suffix(buf, pos + 2)
    <3>1. /\ buf' = rest /\ body' = body /\ given' = given /\ trailers' = trailers
      BY <1>5, <2>2, <2>5 DEF decoderVars
    <3>2. size \in Nat /\ (size > 0 <=> size # 0)
      BY <2>5, ChunkSizeIsNat
    <3>3. ExceedsBody(size) <=> Len(m.body) + size > MaxBody
      BY <1>1, <1>2 DEF ExceedsBody, WithinLimit
    <3>4. rest \o t \in Seq(Bytes)
      <4>1. pos + 2 \in Nat /\ pos + 2 <= Len(buf)
        BY <1>1, <2>1, LineInBuffer
      <4>2. rest \in Seq(Bytes)
        BY <1>1, <4>1, AfterLine
      <4> QED
        BY <1>1, <4>2, ConcatProperties
    <3> HIDE DEF rest
    <3>5. CASE size = 0
      <4>1. Keeps(m, r, "trailers", rest \o t)
        BY <1>3, <2>1, <2>5, <3>5, ChunkTaken DEF Keeps, rest
      <4>2. r.status = "trailers" /\ r.body = m.body /\ r.trailers = m.trailers
            /\ r.rest = rest \o t
        <5>1. PICK ahead : ahead = rest \o t
          OBVIOUS
        <5>2. ahead \in Seq(Bytes) /\ Keeps(m, r, "trailers", ahead)
          BY <3>4, <4>1, <5>1
        <5>3. r.status = "trailers" /\ r.body = m.body /\ r.trailers = m.trailers
              /\ r.rest = ahead
          BY <1>1, <5>2, SameContent
        <5> QED
          BY <5>1, <5>3
      <4>3. phase' = "ChunkedTrailer" /\ failed' = failed
        BY <1>5, <2>2, <2>5, <3>2, <3>5
      <4> QED
        BY <1>1, <1>2, <3>1, <4>2, <4>3 DEF Moves, Stands
    <3>6. CASE size # 0 /\ Len(m.body) + size > MaxBody
      <4>1. Keeps(m, r, "BodyTooLarge", m.rest)
        BY <1>3, <2>1, <2>5, <3>6, ChunkTaken DEF Keeps
      <4>2. r.status = "BodyTooLarge" /\ ~Running(r)
        BY <1>1, <2>1, <4>1, SameContent DEF Running
      <4>3. result' = "BodyTooLarge" /\ failed' = TRUE /\ phase' = phase
        BY <1>5, <2>2, <2>5, <3>2, <3>3, <3>6
      <4> QED
        BY <1>1, <4>2, <4>3 DEF Moves
    <3>7. CASE size # 0 /\ ~(Len(m.body) + size > MaxBody)
      <4>1. ChunkStarts(m, pos, size)
        BY <1>2, <2>1, <2>5, <3>2, <3>7 DEF ChunkStarts
      <4>2. InChunk(m, pos, size, 0, rest \o t, body)
        BY <1>1, <1>2, <2>1, <4>1, ChunkEntered DEF rest
      <4>3. phase' = "BodyChunkedData" /\ failed' = failed /\ remaining' = size
        BY <1>5, <2>2, <2>5, <3>2, <3>3, <3>7
      <4>4. size - remaining' = 0
        BY <3>2, <4>3
      <4> HIDE DEF size
      <4>5. Stands(m, buf' \o t, phase', remaining', body', trailers')
        BY <1>2, <3>1, <4>2, <4>3, <4>4 DEF Stands
      <4> QED
        BY <1>1, <3>1, <4>3, <4>5 DEF Moves
    <3> QED
      BY <3>5, <3>6, <3>7
  <2> QED
    BY <2>3, <2>4, <2>5
<1> QED
  BY <1>4, <1>5 DEF ProcessChunkedSize, RefuseChunkLine

\* The end of a chunk, when b is in the buffer behind its bytes.
LEMMA EndMoves ==
    ASSUME NEW m, NEW t \in Seq(Bytes), RefType(m), NEW b \in Seq(Bytes), NEW p, NEW size,
           InChunk(m, p, size, size, b \o t, body'), m.trailers = trailers',
           AfterChunkData(b), ~failed, given' = given, NEW r, r = RefChunk(m)
    PROVE  Moves(m, r, t)
<1>1. remaining' = 0 /\ size \in Nat /\ Len(b) \in Nat
  BY LenProperties DEF AfterChunkData, InChunk, ChunkStarts
<1>2. size - remaining' = size
  BY <1>1
<1>3. CASE Len(b) < 2
  <2>1. ~CrlfAt(b, 0) /\ ~(Len(b) >= 2)
    BY <1>1, <1>3 DEF CrlfAt
  <2>2. buf' = b /\ phase' = "BodyChunkedDataCrlf" /\ result' = "NeedData"
    BY <2>1 DEF AfterChunkData
  <2>3. ~failed'
    BY <2>2 DEF AfterChunkData, WireErrors
  <2>4. Stands(m, buf' \o t, phase', remaining', body', trailers')
    BY <1>1, <1>2, <2>2 DEF Stands
  <2> QED
    BY <2>2, <2>3, <2>4 DEF Moves
<1>4. CASE CrlfAt(b, 0)
  <2>1. Len(b) >= 2 /\ ~(Len(b) < 2)
    BY <1>1, <1>4 DEF CrlfAt
  <2>2. buf' = Suffix(b, 2) /\ phase' = "BodyChunkedSize" /\ result' = "Advanced"
    BY <1>4, <2>1 DEF AfterChunkData
  <2>3. ~failed'
    BY <2>2 DEF AfterChunkData, WireErrors
  <2>4. PICK ahead : ahead = buf' \o t
    OBVIOUS
  <2>5. r = Message(body', trailers', "chunks", ahead)
    BY <1>4, <2>1, <2>2, <2>4, ChunkEnds
  <2>6. r.status = "chunks" /\ r.body = body' /\ r.trailers = trailers' /\ r.rest = ahead
    BY <2>5, Fields
  <2>7. Stands(r, ahead, phase', remaining', body', trailers')
    BY <2>2, <2>6 DEF Stands
  <2> QED
    BY <2>2, <2>3, <2>4, <2>7 DEF Moves
<1>5. CASE Len(b) >= 2 /\ ~CrlfAt(b, 0)
  <2>1. ~(Len(b) < 2)
    BY <1>1, <1>5
  <2>2. phase' = "BodyChunkedDataCrlf" /\ result' = "InvalidData"
    BY <1>5, <2>1 DEF AfterChunkData
  <2>3. failed'
    BY <2>2 DEF AfterChunkData, WireErrors
  <2>4. r = Message(body', trailers', "InvalidData", m.rest)
    BY <1>5, ChunkEnds
  <2>5. r.status = "InvalidData"
    BY <2>4, Fields
  <2> QED
    BY <2>2, <2>3, <2>5 DEF Moves, Running
<1> QED
  BY <1>1, <1>3, <1>4, <1>5

\* consume_body within a chunk.
LEMMA DataMoves ==
    ASSUME NEW m, NEW t, AtRef(m, t), NEW len \in Nat, ConsumeChunkedData(len),
           NEW d, NEW r, r = RefStep(m, d)
    PROVE  Moves(m, r, t)
<1>1. /\ phase = "BodyChunkedData" /\ BodyTypeOK /\ WithinLimit /\ RefType(m)
      /\ buf \in Seq(Bytes) /\ t \in Seq(Bytes) /\ ~failed /\ body \in Seq(Bytes)
      /\ Stands(m, buf \o t, phase, remaining, body, trailers)
  BY DEF AtRef, ConsumeChunkedData, BodyInv, BodyTypeOK
<1>2. PICK p, size : InChunk(m, p, size, size - remaining, buf \o t, body)
  BY <1>1 DEF Stands
<1>3. m.status = "chunks" /\ size \in Nat /\ size - remaining \in Nat /\ remaining \in Nat
  BY <1>1, <1>2 DEF InChunk, ChunkStarts, BodyTypeOK
<1>4. r = RefChunk(m) /\ m.trailers = trailers
  BY <1>1, <1>3 DEF RefStep, Stands
<1>5. len <= Len(buf) /\ len <= remaining /\ ~(body_consumed + len > UsizeMax)
  <2>1. len <= Len(buf) /\ len <= remaining
    BY <1>1 DEF ConsumeChunkedData, OnOffer
  <2>2. body_consumed + remaining <= MaxBody
    BY <1>1 DEF WithinLimit
  <2> QED
    BY <1>1, <1>3, <2>1, <2>2, BodyLengths
<1>6. body' = body \o Prefix(buf, len) /\ trailers' = trailers /\ given' = given
  BY DEF ConsumeChunkedData, Deliver
<1>7. PICK b : b = Suffix(buf, len)
  OBVIOUS
<1>8. b \in Seq(Bytes)
  BY <1>1, <1>5, <1>7, AfterLine
<1>9. (size - remaining) + len <= size
  BY <1>3, <1>5
<1>10. InChunk(m, p, size, (size - remaining) + len, b \o t, body')
  BY <1>1, <1>2, <1>5, <1>6, <1>7, <1>9, ChunkGoesOn
<1>11. CASE len < remaining
  <2>1. buf' = b /\ remaining' = remaining - len /\ phase' = phase /\ failed' = failed
    BY <1>3, <1>5, <1>7, <1>11 DEF ConsumeChunkedData
  <2>2. size - remaining' = (size - remaining) + len
    BY <1>3, <2>1
  <2>3. Stands(m, buf' \o t, phase', remaining', body', trailers')
    BY <1>1, <1>4, <1>6, <1>10, <2>1, <2>2 DEF Stands
  <2> QED
    BY <1>1, <1>6, <2>1, <2>3 DEF Moves
<1>12. CASE len = remaining
  <2>1. AfterChunkData(b)
    BY <1>3, <1>5, <1>7, <1>12 DEF ConsumeChunkedData
  <2>2. (size - remaining) + len = size
    BY <1>3, <1>12
  <2>3. InChunk(m, p, size, size, b \o t, body')
    BY <1>10, <2>2
  <2> QED
    BY <1>1, <1>4, <1>6, <1>8, <2>1, <2>3, EndMoves
<1> QED
  BY <1>3, <1>5, <1>11, <1>12

\* progress in front of the CRLF.
LEMMA CrlfMoves ==
    ASSUME NEW m, NEW t, AtRef(m, t), ProcessDataCrlf, NEW d, NEW r, r = RefStep(m, d)
    PROVE  Moves(m, r, t)
<1>1. /\ phase = "BodyChunkedDataCrlf" /\ RefType(m)
      /\ buf \in Seq(Bytes) /\ t \in Seq(Bytes) /\ ~failed
      /\ Stands(m, buf \o t, phase, remaining, body, trailers)
  BY DEF AtRef, ProcessDataCrlf, BodyInv, BodyTypeOK
<1>2. PICK p, size : InChunk(m, p, size, size - remaining, buf \o t, body)
  BY <1>1 DEF Stands
<1>3. m.status = "chunks" /\ size \in Nat /\ remaining = 0
  BY <1>1, <1>2 DEF InChunk, ChunkStarts, Stands
<1>4. r = RefChunk(m) /\ m.trailers = trailers
  BY <1>1, <1>3 DEF RefStep, Stands
<1>5. size - remaining = size
  BY <1>3
<1>6. AfterChunkData(buf) /\ body' = body /\ trailers' = trailers /\ given' = given
  BY DEF ProcessDataCrlf, decoderVars
<1>7. InChunk(m, p, size, size, buf \o t, body')
  BY <1>2, <1>5, <1>6
<1> QED
  BY <1>1, <1>4, <1>6, <1>7, EndMoves

\* A line parses to one field at most: the two ways to pick it agree.
LEMMA FieldPicked ==
    ASSUME NEW line, NEW d, d = declared_trailers, NEW fields,
           fields = {f \in ParseHeaderLine(line) : Field[f].name \in d \ Prohibited}
    PROVE  /\ AdmittedTrailers(line) = fields
           /\ \A f \in fields : f = CHOOSE g \in fields : TRUE
<1>1. AdmittedTrailers(line) = fields
  BY DEF AdmittedTrailers
<1>2. \A f \in fields : f = line[1]
  BY DEF ParseHeaderLine
<1> QED
  BY <1>1, <1>2

\* One iteration of process_trailers.
LEMMA TrailerMoves ==
    ASSUME NEW m, NEW t, AtRef(m, t), phase = "ChunkedTrailer", TrailerStep,
           NEW d, d = declared_trailers, NEW r, r = RefStep(m, d)
    PROVE  Moves(m, r, t)
<1>1. /\ BodyTypeOK /\ RefType(m) /\ buf \in Seq(Bytes) /\ t \in Seq(Bytes) /\ ~failed
      /\ given = << >> /\ trailers \in Seq(DOMAIN Field)
      /\ Stands(m, buf \o t, phase, remaining, body, trailers)
  BY DEF AtRef, BodyInv, BodyTypeOK
<1>2. m.status = "trailers" /\ m.body = body /\ m.rest = buf \o t /\ m.trailers = trailers
  BY <1>1 DEF Stands
<1>3. r = RefTrailer(m, d)
  BY <1>2 DEF RefStep
<1>4. trailer_count = Len(trailers) /\ trailer_count \in Nat
  <2>1. Len(given) = 0 /\ Len(trailers) \in Nat
    BY <1>1, EmptySeq, LenProperties
  <2>2. Len(given) + Len(trailers) = trailer_count
    BY DEF AtRef, BodyInv, TrailersAdmitted
  <2> QED
    BY <2>1, <2>2
<1>5. m.rest \in Seq(Bytes) /\ phase # "Complete"
  BY <1>1 DEF RefType
<1>6. ASSUME NEW value, TrailersReturn(value), value \in WireErrors, r.status = value, ~Running(r)
      PROVE  Moves(m, r, t)
  BY <1>5, <1>6 DEF TrailersReturn, Moves
<1>7. CASE /\ LineEnds(buf) = {}
           /\ TrailersReturn(IF advanced THEN "Advanced" ELSE "NeedData")
           /\ UNCHANGED <<buf, trailers, trailer_count>>
  <2>1. ~failed'
    BY <1>1, <1>7 DEF TrailersReturn, WireErrors
  <2>2. /\ buf' = buf /\ phase' = phase /\ remaining' = remaining /\ body' = body
        /\ trailers' = trailers /\ given' = given
    BY <1>7 DEF TrailersReturn
  <2> QED
    BY <1>1, <1>5, <2>1, <2>2 DEF Moves
<1>8. CASE /\ 0 \in LineEnds(buf)
           /\ buf' = Suffix(buf, 2)
           /\ phase' = "Complete"
           /\ given' = given \o trailers /\ trailers' = << >>
           /\ call' = "idle" /\ result' = "Complete"
           /\ UNCHANGED <<wire, sent, remaining, body_consumed, trailer_count,
                          declared_trailers, advanced, body, failed>>
  <2>1. /\ 0 \in LineEnds(m.rest) /\ Suffix(m.rest, 2) = Suffix(buf, 2) \o t
    <3>1. 0 \in LineEnds(buf \o t) /\ Suffix(buf \o t, 0 + 2) = Suffix(buf, 0 + 2) \o t
      BY <1>1, <1>8, LineAhead
    <3> QED
      BY <1>2, <3>1
  <2>2. given' = trailers
    BY <1>1, <1>8, ConcatEmptySeq
  <2>3. r = Message(m.body, m.trailers, "Complete", Suffix(m.rest, 2))
    BY <1>3, <1>5, <2>1, TrailerTaken, ZenonT(30)
  <2>4. r = Message(body', given', "Complete", buf' \o t)
    BY <1>2, <1>8, <2>1, <2>2, <2>3
  <2> QED
    BY <1>1, <1>8, <2>4 DEF Moves
<1>9. ASSUME NEW pos \in LineEnds(buf), pos > 0, TrailerLine(pos) PROVE Moves(m, r, t)
  <2>1. PICK line : line = Prefix(buf, pos)
    OBVIOUS
  <2>2. PICK fields : fields = {f \in ParseHeaderLine(line) : Field[f].name \in d \ Prohibited}
    OBVIOUS
  <2>3. /\ pos \in LineEnds(m.rest) /\ line = Prefix(m.rest, pos) /\ pos \in Nat
        /\ Suffix(m.rest, pos + 2) = Suffix(buf, pos + 2) \o t
    BY <1>1, <1>2, <2>1, LineAhead
  <2>4. /\ pos # 0 /\ MaxHeaderLine \in Nat /\ MaxHeaders \in Nat
        /\ (pos <= MaxHeaderLine <=> ~(pos > MaxHeaderLine))
        /\ (trailer_count < MaxHeaders <=> ~(Len(m.trailers) >= MaxHeaders))
        /\ (trailer_count >= MaxHeaders <=> Len(m.trailers) >= MaxHeaders)
    BY <1>2, <1>4, <1>9, <2>3, BodyAssumption
  <2>5. AdmittedTrailers(line) = fields /\ \A f \in fields : f = CHOOSE g \in fields : TRUE
    BY <2>2, FieldPicked
  <2>6. {"HeaderLineTooLong", "TooManyHeaders", "InvalidData"} \subseteq WireErrors
    BY DEF WireErrors
  <2>7. ASSUME NEW s, s \in {"HeaderLineTooLong", "TooManyHeaders", "InvalidData"},
               Keeps(m, r, s, m.rest), TrailersReturn(s)
        PROVE  Moves(m, r, t)
    <3>1. r.status = s /\ ~Running(r)
      <4>1. r.status = s
        BY <1>1, <1>5, <2>7, SameContent
      <4> QED
        BY <2>7, <4>1 DEF Running
    <3> QED
      BY <1>6, <2>6, <2>7, <3>1
  <2>8. CASE pos > MaxHeaderLine
    <3>1. Keeps(m, r, "HeaderLineTooLong", m.rest)
      BY <1>3, <1>5, <2>3, <2>4, <2>8, TrailerTaken, ZenonT(30) DEF Keeps
    <3>2. TrailersReturn("HeaderLineTooLong")
      BY <1>9, <2>4, <2>8 DEF TrailerLine
    <3> QED
      BY <2>7, <3>1, <3>2
  <2>9. CASE ~(pos > MaxHeaderLine) /\ Len(m.trailers) >= MaxHeaders
    <3>1. Keeps(m, r, "TooManyHeaders", m.rest)
      BY <1>3, <1>5, <2>3, <2>4, <2>9, TrailerTaken DEF Keeps
    <3>2. TrailersReturn("TooManyHeaders")
      BY <1>9, <2>4, <2>9 DEF TrailerLine
    <3> QED
      BY <2>7, <3>1, <3>2
  <2>10. CASE /\ ~(pos > MaxHeaderLine) /\ ~(Len(m.trailers) >= MaxHeaders)
              /\ ~IsUtf8(line) \/ fields = {}
    <3>1. Keeps(m, r, "InvalidData", m.rest)
      <4>1. pos # 0 /\ pos \in LineEnds(m.rest) /\ line = Prefix(m.rest, pos) /\ m.rest \in Seq(Bytes)
        BY <1>5, <2>3, <2>4
      <4>2. RefTrailer(m, d) = Message(m.body, m.trailers, "InvalidData", m.rest)
        BY ONLY <2>2, <2>10, <4>1, TrailerTaken
      <4> QED
        BY <1>3, <4>2 DEF Keeps
    <3>2. TrailersReturn("InvalidData")
      <4>1. CASE ~IsUtf8(line)
        BY <1>9, <2>1, <2>4, <2>10, <4>1 DEF TrailerLine
      <4>2. CASE IsUtf8(line)
        <5>1. AdmittedTrailers(line) = {}
          BY <2>5, <2>10, <4>2
        <5> QED
          BY <1>9, <2>1, <2>4, <2>10, <4>2, <5>1 DEF TrailerLine
      <4> QED
        BY <4>1, <4>2
    <3> QED
      BY <2>7, <3>1, <3>2
  <2>11. CASE /\ ~(pos > MaxHeaderLine) /\ ~(Len(m.trailers) >= MaxHeaders)
              /\ IsUtf8(line) /\ fields # {}
    <3>1. buf' = Suffix(buf, pos + 2)
      BY <1>9, <2>1, <2>4, <2>11 DEF TrailerLine
    <3>2. PICK f \in fields :
             /\ trailers' = Append(trailers, f)
             /\ UNCHANGED <<wire, sent, phase, remaining, body_consumed,
                            declared_trailers, call, result, historyVars>>
      BY <1>9, <2>1, <2>4, <2>5, <2>11 DEF TrailerLine
    <3>3. f = CHOOSE g \in fields : TRUE
      BY <2>5
    <3>4. PICK ahead : ahead = buf' \o t
      OBVIOUS
    <3>5. r = Message(m.body, Append(m.trailers, CHOOSE g \in fields : TRUE), "trailers",
                      Suffix(m.rest, pos + 2))
      BY <1>3, <1>5, <2>2, <2>3, <2>4, <2>11, TrailerTaken
    <3>6. r = Message(body, trailers', "trailers", ahead)
      BY <1>2, <2>3, <3>1, <3>2, <3>3, <3>4, <3>5
    <3>7. r.status = "trailers" /\ r.body = body /\ r.trailers = trailers' /\ r.rest = ahead
      BY <3>6, Fields
    <3>8. phase' = phase /\ body' = body /\ given' = given /\ failed' = failed
      BY <3>2 DEF historyVars
    <3>9. Stands(r, ahead, phase', remaining', body', trailers')
      BY <3>7, <3>8 DEF Stands
    <3> QED
      BY <1>1, <1>5, <3>4, <3>8, <3>9 DEF Moves
  <2> QED
    BY <2>8, <2>9, <2>10, <2>11
<1> QED
  BY <1>7, <1>8, <1>9 DEF TrailerStep

\* consume_body, progress and the trailer loop.
LEMMA CallMoves ==
    ASSUME NEW m, NEW t, AtRef(m, t), call = "trailers" => phase = "ChunkedTrailer",
           TrailerStep \/ \E len \in Nat : ConsumeBody(len),
           NEW d, d = declared_trailers, NEW r, r = RefStep(m, d)
    PROVE  Moves(m, r, t)
<1>1. CASE TrailerStep
  BY <1>1, TrailerMoves DEF TrailerStep
<1>2. ASSUME NEW len \in Nat, ConsumeBody(len) PROVE Moves(m, r, t)
  <2>1. IsChunked
    BY DEF AtRef
  <2>2. CASE ConsumeTooMuch(len) \/ ProgressInData
    <3>1. "Misuse" \notin WireErrors /\ "NeedData" \notin WireErrors
      BY DEF WireErrors
    <3> QED
      BY <2>2, <3>1, ReturnMoves DEF ConsumeTooMuch, ProgressInData
  <2>3. CASE ProcessTrailers
    <3>1. /\ buf' = buf /\ phase' = phase /\ remaining' = remaining /\ body' = body
          /\ trailers' = trailers /\ given' = given /\ failed' = failed
      BY <2>3 DEF ProcessTrailers, inputVars, decoderVars, historyVars
    <3> QED
      BY <3>1 DEF AtRef, IsChunked, Moves
  <2>4. ~ConsumeContentLength(len) /\ ~ConsumeCloseDelimited(len) /\ ~ConsumeComplete /\ ~NotInBody
    BY <2>1 DEF IsChunked, ConsumeContentLength, ConsumeCloseDelimited, ConsumeComplete, NotInBody
  <2> QED
    BY <1>2, <2>2, <2>3, <2>4, DataMoves, SizeMoves, CrlfMoves DEF ConsumeBody
<1> QED
  BY <1>1, <1>2

-----------------------------------------------------------------------------
(* The invariant.                                                          *)

Follows ==
    IsChunked /\ ~failed =>
        /\ given = << >>
        /\ \A t \in Seq(Bytes) : \E n \in Nat :
              Stands(RefParse(Prefix(wire, sent) \o t, declared_trailers)[n],
                     buf \o t, phase, remaining, body, trailers)

LEMMA FollowsInit == BodyInit => Follows
<1> SUFFICES ASSUME BodyInit, IsChunked, NEW t \in Seq(Bytes)
             PROVE  Stands(RefParse(Prefix(wire, sent) \o t, declared_trailers)[0],
                           buf \o t, phase, remaining, body, trailers)
  BY DEF Follows, BodyInit
<1>1. /\ phase = "BodyChunkedSize" /\ sent = 0 /\ buf = << >> /\ body = << >>
      /\ trailers = << >>
  BY DEF BodyInit, IsChunked
<1>2. Prefix(wire, sent) = << >>
  BY <1>1, SubSeqEmpty DEF Prefix
<1>3. << >> \o t = t
  BY ConcatEmptySeq
<1>4. PICK m : m = RefParse(t, declared_trailers)[0]
  OBVIOUS
<1>5. m = Message(<< >>, << >>, "chunks", t)
  BY <1>4, ParseSteps
<1>6. m.body = << >> /\ m.trailers = << >> /\ m.status = "chunks" /\ m.rest = t
  BY <1>5, Fields
<1>7. Stands(m, t, phase, remaining, body, trailers)
  BY <1>1, <1>6 DEF Stands
<1> QED
  BY <1>1, <1>2, <1>3, <1>4, <1>7

\* Chunked and without an error before the step if it is after it.
LEMMA FollowsBefore ==
    ASSUME [BodyNext]_bodyVars, IsChunked', ~failed', BodyTypeOK
    PROVE  IsChunked /\ ~failed
<1>1. failed \in BOOLEAN
  BY DEF BodyTypeOK
<1>2. ASSUME NEW n, Feed(n) PROVE IsChunked /\ ~failed
  BY <1>2 DEF Feed, historyVars, IsChunked
<1>3. ASSUME NEW value, Returns(value) PROVE IsChunked /\ ~failed
  BY <1>3 DEF Returns, IsChunked
<1>4. ASSUME NEW len, ConsumeBody(len) PROVE IsChunked /\ ~failed
  <2>1. CASE ConsumeTooMuch(len) \/ ProgressInData \/ NotInBody
    BY <1>3, <2>1 DEF ConsumeTooMuch, ProgressInData, NotInBody
  <2>2. ASSUME NEW rest, AfterChunkData(rest) PROVE ~failed
    BY <2>2 DEF AfterChunkData
  <2>3. CASE ConsumeContentLength(len)
    BY <2>3 DEF ConsumeContentLength, IsChunked
  <2>4. CASE ConsumeChunkedData(len)
    BY <2>2, <2>4 DEF ConsumeChunkedData, IsChunked
  <2>5. CASE ConsumeCloseDelimited(len)
    BY <1>3, <2>5 DEF ConsumeCloseDelimited, IsChunked
  <2>6. CASE ProcessChunkedSize
    BY <1>3, <2>6 DEF ProcessChunkedSize, RefuseChunkLine, IsChunked
  <2>7. CASE ProcessDataCrlf
    BY <2>2, <2>7 DEF ProcessDataCrlf, IsChunked
  <2>8. CASE ProcessTrailers
    BY <2>8 DEF ProcessTrailers, historyVars, IsChunked
  <2>9. CASE ConsumeComplete
    BY <2>9 DEF ConsumeComplete, IsChunked
  <2> QED
    BY <1>4, <2>1, <2>3, <2>4, <2>5, <2>6, <2>7, <2>8, <2>9 DEF ConsumeBody
<1>5. CASE TrailerStep
  <2>1. ASSUME NEW value, TrailersReturn(value) PROVE IsChunked /\ ~failed
    BY <2>1 DEF TrailersReturn, IsChunked
  <2>2. ASSUME NEW pos, TrailerLine(pos) PROVE IsChunked /\ ~failed
    BY <2>1, <2>2 DEF TrailerLine, historyVars, IsChunked
  <2> QED
    BY <1>5, <2>1, <2>2 DEF TrailerStep, IsChunked
<1>6. CASE UNCHANGED bodyVars
  BY <1>6 DEF bodyVars, IsChunked
<1> QED
  BY <1>2, <1>4, <1>5, <1>6 DEF BodyNext

\* What was fed, and what follows.
LEMMA FedBytes ==
    ASSUME BodyTypeOK, NEW t \in Seq(Bytes)
    PROVE  /\ Prefix(wire, sent) \in Seq(Bytes) /\ Prefix(wire, sent) \o t \in Seq(Bytes)
           /\ buf \o t \in Seq(Bytes)
<1>1. wire \in Seq(Bytes) /\ sent \in Nat /\ sent <= Len(wire) /\ buf \in Seq(Bytes)
  BY BodyLengths DEF BodyTypeOK
<1>2. Prefix(wire, sent) \in Seq(Bytes)
  BY <1>1, FrontPiece
<1> QED
  BY <1>1, <1>2, ConcatProperties

\* A feed moves bytes from what follows into the buffer.
LEMMA FeedMoves ==
    ASSUME BodyTypeOK, NEW n \in FeedSizes, Feed(n), NEW t \in Seq(Bytes)
    PROVE  \E u \in Seq(Bytes) : /\ Prefix(wire', sent') \o t = Prefix(wire, sent) \o u
                                 /\ buf' \o t = buf \o u
<1>1. /\ wire \in Seq(Bytes) /\ sent \in Nat /\ buf \in Seq(Bytes) /\ n \in Nat
      /\ Len(wire) \in Nat /\ sent + n <= Len(wire) /\ sent <= Len(wire)
  BY BodyLengths, BodyAssumption DEF BodyTypeOK, Feed
<1>2. PICK piece : piece = SubSeq(wire, sent + 1, sent + n)
  OBVIOUS
<1>3. piece \in Seq(Bytes)
  BY <1>1, <1>2, Slice
<1>4. wire' = wire /\ sent' = sent + n /\ buf' = buf \o piece
  BY <1>2 DEF Feed
<1>5. PICK fed : fed = Prefix(wire, sent)
  OBVIOUS
<1>6. fed \in Seq(Bytes)
  BY <1>1, <1>5, FrontPiece
<1>7. Prefix(wire', sent') = fed \o piece
  BY <1>1, <1>2, <1>4, <1>5, PrefixExtends DEF Prefix
<1>8. (fed \o piece) \o t = fed \o (piece \o t) /\ (buf \o piece) \o t = buf \o (piece \o t)
  <2>1. ASSUME NEW s \in Seq(Bytes) PROVE (s \o piece) \o t = s \o (piece \o t)
    BY <1>3, ConcatAssociative
  <2> QED
    BY <1>1, <1>6, <2>1
<1>9. piece \o t \in Seq(Bytes)
  BY <1>3, ConcatProperties
<1> QED
  BY <1>4, <1>5, <1>7, <1>8, <1>9

\* A call reads the buffer, and touches neither the wire nor the announced names.
LEMMA CallKeepsInput ==
    ASSUME TrailerStep \/ \E len \in Nat : ConsumeBody(len)
    PROVE  wire' = wire /\ sent' = sent /\ declared_trailers' = declared_trailers
<1>1. ASSUME NEW len, ConsumeBody(len)
      PROVE  wire' = wire /\ sent' = sent /\ declared_trailers' = declared_trailers
  BY <1>1 DEF ConsumeBody, ConsumeTooMuch, ConsumeContentLength, ConsumeChunkedData,
              ConsumeCloseDelimited, ProgressInData, ProcessChunkedSize, RefuseChunkLine,
              ProcessDataCrlf, ProcessTrailers, ConsumeComplete, NotInBody, Returns, Deliver,
              inputVars, decoderVars
<1>2. TrailerStep => wire' = wire /\ sent' = sent /\ declared_trailers' = declared_trailers
  BY DEF TrailerStep, TrailerLine, TrailersReturn
<1> QED
  BY <1>1, <1>2

LEMMA FollowsStep ==
    BodyInv /\ Blocked /\ Follows /\ [BodyNext]_bodyVars => Follows'
<1> SUFFICES ASSUME BodyInv, Blocked, Follows, [BodyNext]_bodyVars, IsChunked', ~failed'
             PROVE  /\ given' = << >>
                    /\ \A t \in Seq(Bytes) : \E n \in Nat :
                          Stands(RefParse(Prefix(wire', sent') \o t, declared_trailers')[n],
                                 buf' \o t, phase', remaining', body', trailers')
  BY DEF Follows
<1>1. BodyTypeOK
  BY DEF BodyInv
<1>2. IsChunked /\ ~failed
  BY <1>1, FollowsBefore
<1>3. given = << >>
  BY <1>2 DEF Follows
<1>4. ASSUME NEW t \in Seq(Bytes)
      PROVE  \E n \in Nat : Stands(RefParse(Prefix(wire, sent) \o t, declared_trailers)[n],
                                   buf \o t, phase, remaining, body, trailers)
  BY <1>2, <1>4 DEF Follows
<1>5. CASE UNCHANGED bodyVars
  BY <1>3, <1>4, <1>5 DEF bodyVars
<1>6. ASSUME NEW n \in FeedSizes, Feed(n)
      PROVE  /\ given' = << >>
             /\ \A t \in Seq(Bytes) : \E k \in Nat :
                   Stands(RefParse(Prefix(wire', sent') \o t, declared_trailers')[k],
                          buf' \o t, phase', remaining', body', trailers')
  <2>1. /\ given' = given /\ phase' = phase /\ remaining' = remaining /\ body' = body
        /\ trailers' = trailers /\ declared_trailers' = declared_trailers
    BY <1>6 DEF Feed, historyVars, decoderVars
  <2>2. ASSUME NEW t \in Seq(Bytes)
        PROVE  \E k \in Nat :
                   Stands(RefParse(Prefix(wire', sent') \o t, declared_trailers')[k],
                          buf' \o t, phase', remaining', body', trailers')
    <3>1. PICK u \in Seq(Bytes) : /\ Prefix(wire', sent') \o t = Prefix(wire, sent) \o u
                                  /\ buf' \o t = buf \o u
      BY <1>1, <1>6, FeedMoves
    <3>2. PICK k \in Nat : Stands(RefParse(Prefix(wire, sent) \o u, declared_trailers)[k],
                                  buf \o u, phase, remaining, body, trailers)
      BY <1>4
    <3> QED
      BY <2>1, <3>1, <3>2
  <2> QED
    BY <1>3, <2>1, <2>2
<1>7. CASE TrailerStep \/ \E len \in 0..(Len(buf) + 1) : ConsumeBody(len)
  <2>1. TrailerStep \/ \E len \in Nat : ConsumeBody(len)
    BY <1>1, <1>7, BodyLengths
  <2>2. wire' = wire /\ sent' = sent /\ declared_trailers' = declared_trailers
    BY <2>1, CallKeepsInput
  <2>3. ASSUME NEW t \in Seq(Bytes)
        PROVE  /\ given' = given
               /\ \E k \in Nat :
                   Stands(RefParse(Prefix(wire', sent') \o t, declared_trailers')[k],
                          buf' \o t, phase', remaining', body', trailers')
    <3>1. PICK k \in Nat : Stands(RefParse(Prefix(wire, sent) \o t, declared_trailers)[k],
                                  buf \o t, phase, remaining, body, trailers)
      BY <1>4
    <3>2. PICK w, d, m : /\ w = Prefix(wire, sent) \o t /\ d = declared_trailers
                         /\ m = RefParse(w, d)[k]
      OBVIOUS
    <3>3. RefType(m) /\ w \in Seq(Bytes)
      BY <1>1, <3>2, FedBytes, ParseTypes
    <3>4. AtRef(m, t)
      BY <1>2, <1>3, <3>1, <3>2, <3>3 DEF AtRef
    <3>5. PICK r : r = RefStep(m, d)
      OBVIOUS
    <3>6. Moves(m, r, t)
      BY <2>1, <3>2, <3>4, <3>5, CallMoves DEF Blocked
    <3>7. /\ given' = given
          /\ \/ Stands(m, buf' \o t, phase', remaining', body', trailers')
             \/ Stands(r, buf' \o t, phase', remaining', body', trailers')
      BY <3>6 DEF Moves, IsChunked
    <3>8. r = RefParse(w, d)[k + 1] /\ k + 1 \in Nat
      BY <3>2, <3>5, ParseSteps
    <3>9. w = Prefix(wire', sent') \o t /\ d = declared_trailers'
      BY <2>2, <3>2
    <3> QED
      BY <3>2, <3>7, <3>8, <3>9
  <2>4. << >> \in Seq(Bytes)
    BY EmptySeq
  <2> QED
    BY <1>3, <2>3, <2>4
<1> QED
  BY <1>5, <1>6, <1>7 DEF BodyNext

LEMMA FollowsInvariant == BodySpec => [](BodyInv /\ Blocked /\ Follows)
<1>1. BodyInit => Blocked
  BY DEF BodyInit, Blocked, LimitErrors
<1> QED
  BY <1>1, BlockedStep, FollowsInit, FollowsStep, BodyInvariant, PTL DEF BodySpec

-----------------------------------------------------------------------------
(* The theorems.                                                           *)

\* The bytes of a chunk that were taken are the first of those the reference takes.
LEMMA ChunkBegins ==
    ASSUME NEW m, RefType(m), NEW p, NEW size, NEW k, NEW ahead, NEW b,
           InChunk(m, p, size, k, ahead, b)
    PROVE  b \in Seq(Bytes) /\ Begins(b, RefChunk(m).body)
<1>1. /\ m.rest \in Seq(Bytes) /\ m.body \in Seq(Bytes) /\ size \in Nat
      /\ ChunkStarts(m, p, size) /\ k \in Nat /\ k <= size
  BY DEF RefType, ChunkStarts, InChunk
<1>2. p \in Nat /\ p + 2 <= Len(m.rest)
  BY <1>1, FirstLineIs DEF ChunkStarts
<1>3. PICK rest : rest = Suffix(m.rest, p + 2)
  OBVIOUS
<1>4. rest \in Seq(Bytes) /\ Len(rest) \in Nat
  BY <1>1, <1>2, <1>3, AfterLine, LenProperties
<1>5. k <= Len(rest) /\ b = m.body \o Prefix(rest, k)
  BY <1>3 DEF InChunk
<1>6. ASSUME NEW j \in Nat, k <= j, j <= Len(rest), NEW s, NEW after,
             Adds(m, RefChunk(m), Prefix(rest, j), s, after)
      PROVE  b \in Seq(Bytes) /\ Begins(b, RefChunk(m).body)
  <2>1. PICK x, y : x = Prefix(rest, k) /\ y = Prefix(rest, j)
    OBVIOUS
  <2>2. x \in Seq(Bytes) /\ y \in Seq(Bytes) /\ Begins(x, y)
    BY <1>1, <1>4, <1>6, <2>1, BeginsPiece
  <2>3. m.body \o x \in Seq(Bytes) /\ Begins(m.body \o x, m.body \o y)
    BY <1>1, <2>2, BeginsBehind
  <2>4. PICK c : c = m.body \o y
    OBVIOUS
  <2>5. RefChunk(m) = Message(c, m.trailers, s, after)
    BY <1>6, <2>1, <2>4 DEF Adds
  <2>6. RefChunk(m).body = c
    BY <2>5, Fields
  <2> QED
    BY <1>5, <2>1, <2>3, <2>4, <2>6
<1>7. CASE Len(rest) < size
  <2>1. Adds(m, RefChunk(m), Prefix(rest, Len(rest)), "incomplete", m.rest)
    BY <1>1, <1>3, <1>7, ChunkDataTaken DEF Adds
  <2> QED
    BY <1>4, <1>5, <1>6, <2>1
<1>8. CASE ~(Len(rest) < size)
  <2>1. \E s, after : Adds(m, RefChunk(m), Prefix(rest, size), s, after)
    <3>1. CASE Len(rest) < size + 2
      <4>1. Adds(m, RefChunk(m), Prefix(rest, size), "incomplete", m.rest)
        BY <1>1, <1>3, <1>8, <3>1, ChunkDataTaken DEF Adds
      <4> QED
        BY <4>1
    <3>2. CASE ~(Len(rest) < size + 2) /\ ~CrlfAt(rest, size)
      <4>1. Adds(m, RefChunk(m), Prefix(rest, size), "InvalidData", m.rest)
        BY <1>1, <1>3, <1>8, <3>2, ChunkDataTaken DEF Adds
      <4> QED
        BY <4>1
    <3>3. CASE ~(Len(rest) < size + 2) /\ CrlfAt(rest, size)
      <4>1. Adds(m, RefChunk(m), Prefix(rest, size), "chunks", Suffix(rest, size + 2))
        BY <1>1, <1>3, <1>8, <3>3, ChunkDataTaken DEF Adds
      <4> QED
        BY <4>1
    <3> QED
      BY <3>1, <3>2, <3>3
  <2>2. size <= Len(rest)
    BY <1>1, <1>4, <1>8
  <2> QED
    BY <1>1, <1>6, <2>1, <2>2
<1> QED
  BY <1>7, <1>8

\* A message of the run, and the reference.
LEMMA StandsWithin ==
    ASSUME NEW w \in Seq(Bytes), NEW d, NEW n \in Nat, NEW m, m = RefParse(w, d)[n],
           NEW ahead, Stands(m, ahead, phase, remaining, body, trailers), IsChunked,
           NEW ref, ref = Reference(w, d)
    PROVE  /\ RefType(ref) /\ Begins(body, ref.body) /\ Begins(trailers, ref.trailers)
<1>1. RefType(m) /\ RefType(ref) /\ Later(m, ref)
  BY ReferenceIs
<1>2. Begins(trailers, ref.trailers)
  BY <1>1 DEF Stands, Later
<1>3. CASE phase \in {"BodyChunkedSize", "ChunkedTrailer"}
  BY <1>1, <1>2, <1>3 DEF Stands, Later
<1>4. CASE phase \in {"BodyChunkedData", "BodyChunkedDataCrlf"}
  <2>1. PICK p, size : InChunk(m, p, size, size - remaining, ahead, body)
    BY <1>4 DEF Stands
  <2>2. m.status = "chunks"
    BY <2>1 DEF InChunk, ChunkStarts
  <2>3. PICK r : r = RefChunk(m)
    OBVIOUS
  <2>4. r = RefParse(w, d)[n + 1] /\ n + 1 \in Nat
    BY <2>2, <2>3, ParseSteps DEF RefStep
  <2>5. RefType(r) /\ Later(r, ref)
    BY <2>4, ReferenceIs
  <2>6. body \in Seq(Bytes) /\ Begins(body, r.body)
    BY <1>1, <2>1, <2>3, ChunkBegins
  <2>7. Begins(body, ref.body)
    BY <1>1, <2>5, <2>6, BeginsTrans DEF RefType, Later
  <2> QED
    BY <1>1, <1>2, <2>7
<1> QED
  BY <1>3, <1>4 DEF IsChunked

\* The bytes fed and those to come are the wire.
LEMMA WireSplits ==
    ASSUME BodyTypeOK
    PROVE  /\ Suffix(wire, sent) \in Seq(Bytes) /\ Len(Suffix(wire, sent)) = Len(wire) - sent
           /\ Prefix(wire, sent) \o Suffix(wire, sent) = wire
<1>1. wire \in Seq(Bytes) /\ sent \in Nat /\ sent <= Len(wire) /\ Len(wire) \in Nat
  BY BodyLengths DEF BodyTypeOK
<1>2. Suffix(wire, sent) \in Seq(Bytes) /\ Len(Suffix(wire, sent)) = Len(wire) - sent
  BY <1>1, AfterLine
<1>3. PICK k : k = Len(wire) - sent
  OBVIOUS
<1>4. k \in Nat /\ sent + k = Len(wire)
  BY <1>1, <1>3
<1>5. SubSeq(wire, 1, sent) \o SubSeq(wire, sent + 1, sent + k) = SubSeq(wire, 1, sent + k)
  BY <1>1, <1>4, PrefixExtends
<1>6. SubSeq(wire, 1, Len(wire)) = wire
  BY <1>1, SubSeqFull
<1> QED
  BY <1>2, <1>4, <1>5, <1>6 DEF Prefix, Suffix

\* However the bytes are cut into feeds and however calls and feeds interleave,
\* the body bytes and trailers delivered are a prefix of those that the reference
\* reads from the whole byte string.
THEOREM BodyDecodesLikeWhole == BodySpec => []DecodesLikeWhole
<1>1. BodyInv /\ Follows => DecodesLikeWhole
  <2> SUFFICES ASSUME BodyInv, Follows, IsChunked, ~failed,
                      NEW ref, ref = Reference(wire, declared_trailers)
               PROVE  /\ Len(body) <= Len(ref.body) /\ body = Prefix(ref.body, Len(body))
                      /\ given = << >>
                      /\ Len(trailers) <= Len(ref.trailers)
                      /\ trailers = Prefix(ref.trailers, Len(trailers))
    BY DEF DecodesLikeWhole
  <2>1. /\ BodyTypeOK /\ wire \in Seq(Bytes) /\ body \in Seq(Bytes)
        /\ trailers \in Seq(DOMAIN Field)
    BY DEF BodyInv, BodyTypeOK
  <2>2. PICK t : t = Suffix(wire, sent)
    OBVIOUS
  <2>3. t \in Seq(Bytes) /\ Prefix(wire, sent) \o t = wire
    BY <2>1, <2>2, WireSplits
  <2>4. PICK n \in Nat : Stands(RefParse(Prefix(wire, sent) \o t, declared_trailers)[n],
                                buf \o t, phase, remaining, body, trailers)
    BY <2>3 DEF Follows
  <2>5. Stands(RefParse(wire, declared_trailers)[n], buf \o t, phase, remaining, body, trailers)
    BY <2>3, <2>4
  <2>6. RefType(ref) /\ Begins(body, ref.body) /\ Begins(trailers, ref.trailers)
    BY <2>1, <2>5, StandsWithin
  <2>7. Len(body) <= Len(ref.body) /\ body = Prefix(ref.body, Len(body))
    BY <2>1, <2>6, BeginsPrefix DEF RefType
  <2>8. Len(trailers) <= Len(ref.trailers) /\ trailers = Prefix(ref.trailers, Len(trailers))
    BY <2>1, <2>6, BeginsPrefix DEF RefType
  <2> QED
    BY <2>7, <2>8 DEF Follows
<1> QED
  BY <1>1, FollowsInvariant, PTL

\* What is in front of t.
LEMMA Front ==
    ASSUME NEW b \in Seq(Bytes), NEW t \in Seq(Bytes), NEW s, s = b \o t
    PROVE  b = Prefix(s, Len(s) - Len(t))
<1>1. Len(b) \in Nat /\ Len(t) \in Nat /\ Len(s) = Len(b) + Len(t)
  BY LenProperties, ConcatProperties
<1>2. Len(s) - Len(t) = Len(b)
  BY <1>1
<1>3. SubSeq(b \o t, 1, Len(b)) = SubSeq(b, 1, Len(b))
  BY <1>1, PrefixOfConcat
<1>4. SubSeq(b, 1, Len(b)) = b
  BY SubSeqFull
<1> QED
  BY <1>2, <1>3, <1>4 DEF Prefix

\* Complete is reached exactly where the reference completes, with its whole body and
\* all its trailers and the bytes behind it left in the buffer, and an error is the
\* error that the whole byte string has.
THEOREM BodyEndsLikeWhole == BodySpec => EndsLikeWhole
<1> DEFINE Ends ==
        IsChunked /\ ~failed =>
          LET ref == Reference(wire, declared_trailers)
          IN  /\ phase' = "Complete" =>
                    /\ ref.status = "Complete"
                    /\ body' = ref.body /\ given' = ref.trailers
                    /\ buf' = Prefix(ref.rest, Len(ref.rest) - (Len(wire) - sent))
              /\ failed' => result' = ref.status
<1>1. BodyInv /\ Blocked /\ Follows /\ [BodyNext]_bodyVars => [Ends]_bodyVars
  <2> SUFFICES ASSUME BodyInv, Blocked, Follows, BodyNext, IsChunked, ~failed,
                      NEW ref, ref = Reference(wire, declared_trailers)
               PROVE  /\ phase' = "Complete" =>
                            /\ ref.status = "Complete"
                            /\ body' = ref.body /\ given' = ref.trailers
                            /\ buf' = Prefix(ref.rest, Len(ref.rest) - (Len(wire) - sent))
                      /\ failed' => result' = ref.status
    OBVIOUS
  <2>1. BodyTypeOK /\ wire \in Seq(Bytes) /\ given = << >> /\ phase # "Complete"
    BY DEF BodyInv, BodyTypeOK, Follows, IsChunked
  <2>2. ASSUME NEW n \in FeedSizes, Feed(n) PROVE phase' # "Complete" /\ ~failed'
    BY <2>1, <2>2 DEF Feed, historyVars
  <2>3. CASE TrailerStep \/ \E len \in 0..(Len(buf) + 1) : ConsumeBody(len)
    <3>1. TrailerStep \/ \E len \in Nat : ConsumeBody(len)
      BY <2>1, <2>3, BodyLengths
    <3>2. PICK t : t = Suffix(wire, sent)
      OBVIOUS
    <3>3. t \in Seq(Bytes) /\ Prefix(wire, sent) \o t = wire /\ Len(t) = Len(wire) - sent
      BY <2>1, <3>2, WireSplits
    <3>4. PICK n \in Nat : Stands(RefParse(Prefix(wire, sent) \o t, declared_trailers)[n],
                                  buf \o t, phase, remaining, body, trailers)
      BY <3>3 DEF Follows
    <3>5. PICK w, d, m : w = wire /\ d = declared_trailers /\ m = RefParse(w, d)[n]
      OBVIOUS
    <3>6. Stands(m, buf \o t, phase, remaining, body, trailers)
      BY <3>3, <3>4, <3>5
    <3>7. w \in Seq(Bytes) /\ RefType(m)
      BY <2>1, <3>5, ParseTypes
    <3>8. AtRef(m, t)
      BY <2>1, <3>3, <3>6, <3>7 DEF AtRef
    <3>9. PICK r : r = RefStep(m, d)
      OBVIOUS
    <3>10. Moves(m, r, t)
      BY <3>1, <3>5, <3>8, <3>9, CallMoves DEF Blocked
    <3>11. r = RefParse(w, d)[n + 1] /\ n + 1 \in Nat
      BY <3>5, <3>9, ParseSteps
    <3>12. ~Running(r) => ref = r
      BY <3>5, <3>7, <3>11, ReferenceIs
    <3>13. ASSUME failed' PROVE phase' # "Complete" /\ result' = ref.status
      BY <3>10, <3>12, <3>13 DEF Moves
    <3>14. ASSUME phase' = "Complete"
           PROVE  /\ ref.status = "Complete" /\ body' = ref.body /\ given' = ref.trailers
                  /\ buf' = Prefix(ref.rest, Len(ref.rest) - (Len(wire) - sent))
      <4>1. PICK ahead : ahead = buf' \o t
        OBVIOUS
      <4>2. r = Message(body', given', "Complete", ahead)
        BY <3>10, <3>14, <4>1 DEF Moves
      <4>3. r.status = "Complete" /\ r.body = body' /\ r.trailers = given' /\ r.rest = ahead
        BY <4>2, Fields
      <4>4. ref = r
        BY <3>12, <4>3 DEF Running
      <4>5. buf' \in Seq(Bytes)
        BY BodyInvStep DEF BodyInv, BodyTypeOK
      <4>6. buf' = Prefix(ahead, Len(ahead) - Len(t))
        BY <3>3, <4>1, <4>5, Front
      <4> QED
        BY <3>3, <4>3, <4>4, <4>6
    <3> QED
      BY <3>13, <3>14
  <2> QED
    BY <2>2, <2>3 DEF BodyNext
<1> QED
  BY <1>1, FollowsInvariant, PTL DEF BodySpec, EndsLikeWhole

\* Where NeedData was returned, the decoder has used what is in the buffer.
Waiting ==
    result = "NeedData" /\ call = "idle" =>
        /\ phase \in {"BodyChunkedSize", "ChunkedTrailer"} => LineEnds(buf) = {}
        /\ phase = "BodyChunkedDataCrlf" => Len(buf) < 2

LEMMA WaitingStep == BodyInv /\ Blocked /\ Waiting /\ [BodyNext]_bodyVars => Waiting'
<1> SUFFICES ASSUME BodyInv, Blocked, Waiting, [BodyNext]_bodyVars,
                    result' = "NeedData", call' = "idle"
             PROVE  /\ phase' \in {"BodyChunkedSize", "ChunkedTrailer"} => LineEnds(buf') = {}
                    /\ phase' = "BodyChunkedDataCrlf" => Len(buf') < 2
  BY DEF Waiting
<1>1. CASE UNCHANGED bodyVars
  BY <1>1 DEF bodyVars, Waiting
<1>2. ASSUME NEW n, Feed(n) PROVE FALSE
  BY <1>2 DEF Feed
<1>3. ASSUME NEW rest, AfterChunkData(rest)
      PROVE  phase' = "BodyChunkedDataCrlf" /\ Len(buf') < 2
  BY <1>3 DEF AfterChunkData
<1>4. ASSUME NEW len \in Nat, ConsumeBody(len)
      PROVE  /\ phase' \in {"BodyChunkedSize", "ChunkedTrailer"} => LineEnds(buf') = {}
             /\ phase' = "BodyChunkedDataCrlf" => Len(buf') < 2
  <2>1. CASE ConsumeTooMuch(len) \/ NotInBody \/ ConsumeComplete \/ ProcessTrailers
    BY <2>1 DEF ConsumeTooMuch, NotInBody, ConsumeComplete, ProcessTrailers, Returns
  <2>2. CASE ConsumeContentLength(len)
    BY <2>2 DEF ConsumeContentLength
  <2>3. CASE ConsumeChunkedData(len)
    BY <1>3, <2>3 DEF ConsumeChunkedData
  <2>4. CASE ConsumeCloseDelimited(len) \/ ProgressInData
    BY <2>4 DEF ConsumeCloseDelimited, ProgressInData, Returns
  <2>5. CASE ProcessChunkedSize
    BY <2>5 DEF ProcessChunkedSize, RefuseChunkLine, Returns, inputVars
  <2>6. CASE ProcessDataCrlf
    BY <1>3, <2>6 DEF ProcessDataCrlf
  <2> QED
    BY <1>4, <2>1, <2>2, <2>3, <2>4, <2>5, <2>6 DEF ConsumeBody
<1>5. CASE TrailerStep
  <2>1. phase = "ChunkedTrailer"
    BY <1>5 DEF TrailerStep, Blocked
  <2>2. LineEnds(buf) = {} /\ buf' = buf /\ phase' = phase
    BY <1>5 DEF TrailerStep, TrailerLine, TrailersReturn
  <2> QED
    BY <2>1, <2>2
<1>6. \A len \in 0..(Len(buf) + 1) : len \in Nat
  BY BodyLengths DEF BodyInv
<1> QED
  BY <1>1, <1>2, <1>4, <1>5, <1>6 DEF BodyNext

\* A chunk of which not everything is there.
LEMMA ChunkIncomplete ==
    ASSUME NEW m, RefType(m), NEW p, NEW size, NEW k, NEW ahead, NEW b,
           InChunk(m, p, size, k, ahead, b),
           \/ Len(ahead) = 0 /\ k < size
           \/ Len(ahead) < 2 /\ k = size
    PROVE  RefChunk(m) = Message(b, m.trailers, "incomplete", m.rest)
<1>1. /\ m.rest \in Seq(Bytes) /\ m.body \in Seq(Bytes) /\ size \in Nat
      /\ ChunkStarts(m, p, size) /\ k \in Nat /\ k <= size
  BY DEF RefType, ChunkStarts, InChunk
<1>2. p \in Nat /\ p + 2 <= Len(m.rest)
  BY <1>1, FirstLineIs DEF ChunkStarts
<1>3. PICK rest : rest = Suffix(m.rest, p + 2)
  OBVIOUS
<1>4. rest \in Seq(Bytes) /\ Len(rest) \in Nat
  BY <1>1, <1>2, <1>3, AfterLine, LenProperties
<1>5. k <= Len(rest) /\ b = m.body \o Prefix(rest, k) /\ ahead = Suffix(rest, k)
  BY <1>3 DEF InChunk
<1>6. Len(ahead) = Len(rest) - k
  BY <1>1, <1>4, <1>5, AfterLine
<1>7. CASE Len(ahead) = 0 /\ k < size
  <2>1. k = Len(rest) /\ Len(rest) < size
    BY <1>1, <1>4, <1>6, <1>7
  <2> QED
    BY <1>1, <1>3, <1>5, <2>1, ChunkDataTaken
<1>8. CASE Len(ahead) < 2 /\ k = size
  <2>1. ~(Len(rest) < size) /\ Len(rest) < size + 2
    BY <1>1, <1>4, <1>5, <1>6, <1>8
  <2> QED
    BY <1>1, <1>3, <1>5, <1>8, <2>1, ChunkDataTaken
<1> QED
  BY <1>7, <1>8

\* A caller that goes back to the network on NeedData never waits for something it
\* already has: with no body bytes on offer, everything in the bytes fed so far has
\* been delivered, and they hold no complete message.
THEOREM BodyNothingWithheld == BodySpec => []NothingWithheld
<1>1. BodyInv /\ Follows /\ Waiting => NothingWithheld
  <2> SUFFICES ASSUME BodyInv, Follows, Waiting, IsChunked, ~failed, call = "idle",
                      result = "NeedData", PeekLen = 0,
                      NEW ref, ref = Reference(Prefix(wire, sent), declared_trailers)
               PROVE  body = ref.body /\ ref.status = "incomplete"
    BY DEF NothingWithheld
  <2>1. BodyTypeOK /\ buf \in Seq(Bytes) /\ Len(buf) \in Nat /\ << >> \in Seq(Bytes)
    BY EmptySeq, LenProperties DEF BodyInv, BodyTypeOK
  <2>2. PICK w, d : w = Prefix(wire, sent) /\ d = declared_trailers
    OBVIOUS
  <2>3. w \in Seq(Bytes) /\ w \o << >> = w /\ buf \o << >> = buf
    BY <2>1, <2>2, FedBytes, ConcatEmptySeq
  <2>4. PICK n \in Nat : Stands(RefParse(Prefix(wire, sent) \o << >>, declared_trailers)[n],
                                buf \o << >>, phase, remaining, body, trailers)
    BY <2>1 DEF Follows
  <2>5. PICK m : m = RefParse(w, d)[n]
    OBVIOUS
  <2>6. Stands(m, buf, phase, remaining, body, trailers) /\ RefType(m)
    BY <2>2, <2>3, <2>4, <2>5, ParseTypes
  <2>7. PICK r : r = RefStep(m, d)
    OBVIOUS
  <2>8. r = RefParse(w, d)[n + 1] /\ n + 1 \in Nat
    BY <2>5, <2>7, ParseSteps
  <2>9. ~Running(r) => ref = r
    BY <2>2, <2>3, <2>8, ReferenceIs
  <2>10. ASSUME NEW rest, r = Message(body, m.trailers, "incomplete", rest)
         PROVE  body = ref.body /\ ref.status = "incomplete"
    <3>1. r.body = body /\ r.status = "incomplete"
      BY <2>10, Fields
    <3> QED
      BY <2>9, <3>1 DEF Running
  <2>11. CASE phase = "BodyChunkedSize"
    <3>1. LineEnds(m.rest) = {} /\ m.status = "chunks" /\ m.body = body
      BY <2>6, <2>11 DEF Stands, Waiting
    <3>2. RefChunk(m) = Message(m.body, m.trailers, "incomplete", m.rest)
      BY <3>1 DEF RefChunk
    <3> QED
      BY <2>7, <2>10, <3>1, <3>2 DEF RefStep
  <2>12. CASE phase = "ChunkedTrailer"
    <3>1. LineEnds(m.rest) = {} /\ m.status = "trailers" /\ m.body = body
      BY <2>6, <2>12 DEF Stands, Waiting
    <3>2. RefTrailer(m, d) = Message(m.body, m.trailers, "incomplete", m.rest)
      BY <3>1 DEF RefTrailer
    <3> QED
      BY <2>7, <2>10, <3>1, <3>2 DEF RefStep
  <2>13. CASE phase \in {"BodyChunkedData", "BodyChunkedDataCrlf"}
    <3>1. PICK p, size : InChunk(m, p, size, size - remaining, buf, body)
      BY <2>6, <2>13 DEF Stands
    <3>2. m.status = "chunks" /\ size \in Nat /\ remaining \in Nat
      BY <2>1, <3>1 DEF InChunk, ChunkStarts, BodyTypeOK
    <3>3. CASE phase = "BodyChunkedData"
      <4>1. remaining > 0
        BY <3>3 DEF BodyInv, WithinLimit
      <4>2. Len(buf) = 0
        BY <2>1, <3>2, <3>3, <4>1 DEF PeekLen
      <4>3. size - remaining < size
        BY <3>2, <4>1
      <4>4. RefChunk(m) = Message(body, m.trailers, "incomplete", m.rest)
        BY <2>6, <3>1, <4>2, <4>3, ChunkIncomplete
      <4> QED
        BY <2>7, <2>10, <3>2, <4>4 DEF RefStep
    <3>4. CASE phase = "BodyChunkedDataCrlf"
      <4>1. Len(buf) < 2 /\ remaining = 0
        BY <2>6, <3>4 DEF Waiting, Stands
      <4>2. size - remaining = size
        BY <3>2, <4>1
      <4>3. RefChunk(m) = Message(body, m.trailers, "incomplete", m.rest)
        BY <2>6, <3>1, <4>1, <4>2, ChunkIncomplete
      <4> QED
        BY <2>7, <2>10, <3>2, <4>3 DEF RefStep
    <3> QED
      BY <2>13, <3>3, <3>4
  <2> QED
    BY <2>11, <2>12, <2>13 DEF IsChunked
<1>2. BodyInit => Waiting
  BY DEF BodyInit, Waiting
<1>3. BodySpec => []Waiting
  BY <1>2, WaitingStep, FollowsInvariant, PTL DEF BodySpec
<1> QED
  BY <1>1, <1>3, FollowsInvariant, PTL
=============================================================================
