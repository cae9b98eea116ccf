------------------------- MODULE BodyDecoder_proofs --------------------------
(***************************************************************************)
(* Proofs about BodyDecoder, for every alphabet, every set of wires and    *)
(* every setting of the limits.                                            *)
(*                                                                         *)
(* BodyInv, the conjunction of the four invariants the runs check, is      *)
(* inductive.  The parts need each other: that the overflow branch behind  *)
(* the drain in consume_body is dead follows from WithinLimit, which in    *)
(* turn needs the bytes a drain removes to be in the buffer.               *)
(*                                                                         *)
(* There is one lemma per operation; HeadDecoder_proofs uses them for      *)
(* the same operations behind RequestDecoder and ResponseDecoder.          *)
(***************************************************************************)
EXTENDS BodyDecoder, SliceLemmas

BodyInv == BodyTypeOK /\ InputIntact /\ WithinLimit /\ TrailersAdmitted

-----------------------------------------------------------------------------
\* Lengths of the sequences in the state.
LEMMA BodyLengths ==
    ASSUME BodyTypeOK
    PROVE  /\ Len(wire) \in Nat /\ Len(buf) \in Nat /\ Len(body) \in Nat
           /\ Len(trailers) \in Nat /\ Len(given) \in Nat
           /\ sent \in Nat /\ sent <= Len(wire)
           /\ body_consumed \in Nat /\ UsizeMax \in Nat
           /\ MaxBody \in Nat /\ MaxBody <= UsizeMax
<1>1. /\ wire \in Seq(Bytes) /\ buf \in Seq(Bytes) /\ body \in Seq(Bytes)
      /\ trailers \in Seq(DOMAIN Field) /\ given \in Seq(DOMAIN Field)
  BY DEF BodyTypeOK
<1>2. /\ Len(wire) \in Nat /\ Len(buf) \in Nat /\ Len(body) \in Nat
      /\ Len(trailers) \in Nat /\ Len(given) \in Nat
  BY <1>1, LenProperties
<1> QED
  BY <1>2, BodyAssumption, ChunkLineAssumption DEF BodyTypeOK

\* buf.drain(..n).
LEMMA DrainBuf ==
    ASSUME BodyTypeOK, InputIntact, NEW n \in Nat, n <= Len(buf),
           buf' = Suffix(buf, n), wire' = wire, sent' = sent
    PROVE  /\ buf' \in Seq(Bytes) /\ Len(buf') = Len(buf) - n
           /\ InputIntact'
<1>1. /\ wire \in Seq(Bytes) /\ buf \in Seq(Bytes)
      /\ Len(wire) \in Nat /\ Len(buf) \in Nat /\ sent \in Nat /\ sent <= Len(wire)
  BY BodyLengths DEF BodyTypeOK
<1>2. buf' \in Seq(Bytes) /\ Len(buf') = Len(buf) - n
      /\ \A i \in 1..(Len(buf) - n) : buf'[i] = buf[n + i]
  BY <1>1, Slice DEF Suffix
<1>3. /\ Len(buf) <= sent /\ Len(buf) <= MaxBuffer
      /\ buf = SubSeq(wire, sent - Len(buf) + 1, sent)
  BY DEF InputIntact
<1>4. \A i \in 1..Len(buf) : buf[i] = wire[sent - Len(buf) + i]
  BY <1>1, <1>3, Window
<1> DEFINE r == SubSeq(wire, sent - (Len(buf) - n) + 1, sent)
<1>5. /\ r \in Seq(Bytes) /\ Len(r) = Len(buf) - n
      /\ \A i \in 1..(Len(buf) - n) : r[i] = wire[sent - (Len(buf) - n) + i]
  <2>1. Len(buf) - n \in Nat /\ Len(buf) - n <= sent
    BY <1>1, <1>3
  <2> QED
    BY <1>1, <2>1, Window
<1> HIDE DEF r
<1>6. \A i \in 1..Len(buf') : buf'[i] = r[i]
  BY <1>1, <1>2, <1>4, <1>5
<1>7. buf' = r
  BY <1>2, <1>5, <1>6, SeqEqual
<1>8. buf' = SubSeq(wire, sent - Len(buf') + 1, sent)
  BY <1>2, <1>7 DEF r
<1>9. Len(buf') <= sent /\ Len(buf') <= MaxBuffer
  BY <1>1, <1>2, <1>3, BodyAssumption
<1> QED
  BY <1>2, <1>8, <1>9 DEF InputIntact

\* A line that find_line reports is in the buffer, its CRLF included.
LEMMA LineInBuffer ==
    ASSUME BodyTypeOK, NEW pos \in LineEnds(buf)
    PROVE  pos \in Nat /\ pos + 2 <= Len(buf)
  BY BodyLengths DEF LineEnds, CrlfAt

\* The bytes that are handed out become part of the body.
LEMMA BodyGrows ==
    ASSUME BodyTypeOK, NEW len \in Nat, len <= Len(buf),
           body' = body \o Prefix(buf, len)
    PROVE  body' \in Seq(Bytes) /\ Len(body') = Len(body) + len
<1>1. buf \in Seq(Bytes) /\ body \in Seq(Bytes) /\ Len(buf) \in Nat
  BY BodyLengths DEF BodyTypeOK
<1>2. SubSeq(buf, 1, len) \in Seq(Bytes) /\ Len(SubSeq(buf, 1, len)) = len
  BY <1>1, Slice
<1> QED
  BY <1>1, <1>2, ConcatProperties DEF Prefix

-----------------------------------------------------------------------------
\* feed.
LEMMA FeedPreserves ==
    ASSUME BodyInv, NEW n \in FeedSizes, Feed(n)
    PROVE  BodyInv'
<1>1. BodyTypeOK /\ InputIntact /\ WithinLimit /\ TrailersAdmitted
  BY DEF BodyInv
<1>2. /\ wire \in Seq(Bytes) /\ buf \in Seq(Bytes)
      /\ Len(wire) \in Nat /\ Len(buf) \in Nat /\ sent \in Nat /\ sent <= Len(wire)
      /\ n \in Nat
  BY <1>1, BodyLengths, BodyAssumption DEF BodyTypeOK
<1> DEFINE x == SubSeq(wire, sent + 1, sent + n)
<1>3. /\ sent + n <= Len(wire) /\ Len(buf) + n <= MaxBuffer
      /\ buf' = buf \o x /\ sent' = sent + n /\ wire' = wire
  BY DEF Feed
<1>4. x \in Seq(Bytes) /\ Len(x) = n /\ \A i \in 1..n : x[i] = wire[sent + i]
  BY <1>2, <1>3, Slice
<1> HIDE DEF x
<1>5. /\ buf' \in Seq(Bytes) /\ Len(buf') = Len(buf) + n
      /\ \A i \in 1..(Len(buf) + n) :
            buf'[i] = IF i <= Len(buf) THEN buf[i] ELSE x[i - Len(buf)]
  BY <1>2, <1>3, <1>4, ConcatProperties
<1>6. /\ Len(buf) <= sent /\ buf = SubSeq(wire, sent - Len(buf) + 1, sent)
  BY <1>1 DEF InputIntact
<1>7. \A i \in 1..Len(buf) : buf[i] = wire[sent - Len(buf) + i]
  <2> DEFINE w == SubSeq(wire, sent - Len(buf) + 1, sent)
  <2>1. Len(buf) <= sent
    BY <1>6
  <2>2. \A i \in 1..Len(buf) : w[i] = wire[sent - Len(buf) + i]
    BY <1>2, <2>1, Window
  <2>3. buf = w
    BY <1>6
  <2> HIDE DEF w
  <2> QED
    BY <2>2, <2>3
<1> DEFINE r == SubSeq(wire, sent' - Len(buf') + 1, sent')
<1>8. /\ r \in Seq(Bytes) /\ Len(r) = Len(buf')
      /\ \A i \in 1..Len(buf') : r[i] = wire[sent - Len(buf) + i]
  <2>1. /\ Len(buf') \in Nat /\ Len(buf') <= sent' /\ sent' \in Nat /\ sent' <= Len(wire)
        /\ sent' - Len(buf') = sent - Len(buf)
    BY <1>2, <1>3, <1>5, <1>6
  <2>2. \A e, k \in Nat : e <= Len(wire) /\ k <= e =>
          /\ SubSeq(wire, e - k + 1, e) \in Seq(Bytes)
          /\ Len(SubSeq(wire, e - k + 1, e)) = k
          /\ \A i \in 1..k : SubSeq(wire, e - k + 1, e)[i] = wire[e - k + i]
    BY <1>2, Window
  <2>3. /\ r \in Seq(Bytes) /\ Len(r) = Len(buf')
        /\ \A i \in 1..Len(buf') : r[i] = wire[sent' - Len(buf') + i]
    BY <2>1, <2>2, Zenon
  <2> QED
    BY <2>1, <2>3, Zenon
<1> HIDE DEF r
<1>9. ASSUME NEW i \in 1..Len(buf') PROVE buf'[i] = r[i]
  <2>1. CASE i <= Len(buf)
    <3>1. i \in 1..Len(buf) /\ i \in 1..(Len(buf) + n)
      BY <1>2, <1>5, <2>1
    <3>2. buf'[i] = buf[i]
      BY <1>5, <2>1, <3>1
    <3> QED
      BY <1>7, <1>8, <3>1, <3>2
  <2>2. CASE ~(i <= Len(buf))
    <3>1. i - Len(buf) \in 1..n /\ sent + (i - Len(buf)) = sent - Len(buf) + i
      BY <1>2, <1>5, <2>2
    <3>2. buf'[i] = x[i - Len(buf)]
      BY <1>5, <2>2
    <3> QED
      BY <1>4, <1>8, <3>1, <3>2
  <2> QED
    BY <2>1, <2>2
<1>10. buf' = r
  BY <1>5, <1>8, <1>9, SeqEqual
<1>11. InputIntact'
  BY <1>2, <1>3, <1>5, <1>6, <1>10 DEF InputIntact, r
<1>12. /\ UNCHANGED <<wire, phase, remaining, decoderVars, call, advanced, historyVars>>
       /\ result' = "none"
  BY DEF Feed
<1>13. BodyTypeOK'
  BY <1>1, <1>2, <1>3, <1>5, <1>12
     DEF BodyTypeOK, decoderVars, historyVars, Results
<1>14. WithinLimit' /\ TrailersAdmitted'
  BY <1>1, <1>12 DEF WithinLimit, TrailersAdmitted, decoderVars, historyVars
<1> QED
  BY <1>11, <1>13, <1>14 DEF BodyInv

\* A call that only returns a value.
LEMMA ReturnsPreserves ==
    ASSUME BodyInv, NEW value \in Results, Returns(value)
    PROVE  BodyInv'
<1>1. /\ result' = value /\ failed' \in BOOLEAN
      /\ UNCHANGED <<wire, sent, buf, phase, remaining, decoderVars, call, advanced,
                     body, given>>
  BY DEF Returns, inputVars
<1>2. BodyTypeOK'
  BY <1>1 DEF BodyInv, BodyTypeOK, decoderVars
<1>3. InputIntact' /\ WithinLimit' /\ TrailersAdmitted'
  BY <1>1 DEF BodyInv, InputIntact, WithinLimit, TrailersAdmitted, decoderVars
<1> QED
  BY <1>2, <1>3 DEF BodyInv

\* What consume_body does with len body bytes that are on offer and within the
\* limit, whatever phase it moves to: the count stays exact.
LEMMA DeliverCounts ==
    ASSUME BodyInv, NEW len \in Nat, len <= Len(buf), Deliver(len),
           body_consumed + len <= MaxBody
    PROVE  /\ body' \in Seq(Bytes)
           /\ body_consumed' = body_consumed + len
           /\ body_consumed' = Len(body')
           /\ body_consumed' \in 0..UsizeMax
           /\ body_consumed' <= MaxBody
<1>1. BodyTypeOK /\ body_consumed = Len(body)
  BY DEF BodyInv, WithinLimit
<1>2. /\ body' = body \o Prefix(buf, len)
      /\ body_consumed' = IF body_consumed + len > UsizeMax
                            THEN body_consumed ELSE body_consumed + len
  BY DEF Deliver
<1>3. body' \in Seq(Bytes) /\ Len(body') = Len(body) + len
  BY <1>1, <1>2, BodyGrows
<1>4. body_consumed' = body_consumed + len
  BY <1>1, <1>2, BodyLengths
<1> QED
  BY <1>1, <1>3, <1>4, BodyLengths

LEMMA ContentLengthPreserves ==
    ASSUME BodyInv, NEW len \in Nat, ConsumeContentLength(len)
    PROVE  BodyInv'
<1>1. BodyTypeOK /\ InputIntact /\ WithinLimit /\ TrailersAdmitted
  BY DEF BodyInv
<1>2. /\ phase = "BodyContentLength" /\ len <= remaining /\ len <= Len(buf)
      /\ buf' = Suffix(buf, len) /\ remaining' = remaining - len
      /\ Deliver(len)
  BY DEF ConsumeContentLength, OnOffer
<1>3. /\ remaining \in Nat /\ body_consumed + remaining <= MaxBody
      /\ body_consumed + len <= MaxBody /\ body_consumed \in Nat
  BY <1>1, <1>2, BodyLengths DEF WithinLimit, BodyTypeOK
<1>4. UNCHANGED <<wire, sent, trailers, trailer_count, declared_trailers,
                  call, advanced, given>>
  BY <1>2 DEF Deliver
<1>5. buf' \in Seq(Bytes) /\ InputIntact'
  BY <1>1, <1>2, <1>4, DrainBuf
<1>6. /\ body' \in Seq(Bytes) /\ body_consumed' = body_consumed + len
      /\ body_consumed' = Len(body') /\ body_consumed' \in 0..UsizeMax
      /\ body_consumed' <= MaxBody
  BY <1>2, <1>3, DeliverCounts
<1>7. /\ phase' \in {"Complete", "BodyContentLength"}
      /\ phase' = "BodyContentLength" => len # remaining
      /\ result' \in Results /\ failed' \in BOOLEAN
  <2>1. body_consumed + len <= UsizeMax
    BY <1>1, <1>3, BodyLengths
  <2> QED
    BY <1>2, <2>1 DEF ConsumeContentLength, Results, WireErrors
<1>8. remaining' \in Nat /\ (phase' = "BodyContentLength" => remaining' > 0)
  BY <1>2, <1>3, <1>7
<1>9. BodyTypeOK'
  BY <1>1, <1>4, <1>5, <1>6, <1>7, <1>8 DEF BodyTypeOK, Phases, BodyPhases
<1>10. WithinLimit'
  <2>1. body_consumed' + remaining' <= MaxBody
    BY <1>2, <1>3, <1>6
  <2> QED
    BY <1>6, <1>7, <1>8, <2>1 DEF WithinLimit
<1>11. TrailersAdmitted'
  BY <1>1, <1>4 DEF TrailersAdmitted
<1> QED
  BY <1>5, <1>9, <1>10, <1>11 DEF BodyInv

\* The CRLF behind a chunk, once the n bytes before it are out of the way.
LEMMA AfterChunkDataEffect ==
    ASSUME BodyTypeOK, InputIntact, NEW n \in Nat, n <= Len(buf),
           AfterChunkData(Suffix(buf, n)), wire' = wire, sent' = sent
    PROVE  /\ buf' \in Seq(Bytes) /\ InputIntact'
           /\ remaining' = 0 /\ phase' \in {"BodyChunkedDataCrlf", "BodyChunkedSize"}
           /\ result' \in Results /\ failed' \in BOOLEAN
<1> DEFINE rest == Suffix(buf, n)
<1>1. buf \in Seq(Bytes) /\ Len(buf) \in Nat
  BY BodyLengths DEF BodyTypeOK
<1>2. rest \in Seq(Bytes) /\ Len(rest) = Len(buf) - n
  BY <1>1, Slice DEF Suffix
<1>3. /\ remaining' = 0 /\ phase' \in {"BodyChunkedDataCrlf", "BodyChunkedSize"}
      /\ result' \in Results /\ failed' \in BOOLEAN
  BY DEF AfterChunkData, Results, WireErrors
<1>4. buf' = rest \/ (CrlfAt(rest, 0) /\ buf' = Suffix(rest, 2))
  BY DEF AfterChunkData
<1>5. CASE buf' = rest
  BY <1>3, <1>5, DrainBuf
<1>6. CASE CrlfAt(rest, 0) /\ buf' = Suffix(rest, 2)
  <2>1. 2 <= Len(buf) - n
    BY <1>2, <1>6 DEF CrlfAt
  <2>2. Suffix(rest, 2) = Suffix(buf, n + 2)
    BY <1>1, <2>1, SuffixOfSuffix DEF Suffix
  <2>3. n + 2 \in Nat /\ n + 2 <= Len(buf)
    BY <1>1, <2>1
  <2> QED
    BY <1>3, <1>6, <2>2, <2>3, DrainBuf
<1> QED
  BY <1>4, <1>5, <1>6

LEMMA ChunkedDataPreserves ==
    ASSUME BodyInv, NEW len \in Nat, ConsumeChunkedData(len)
    PROVE  BodyInv'
<1>1. BodyTypeOK /\ InputIntact /\ WithinLimit /\ TrailersAdmitted
  BY DEF BodyInv
<1>2. /\ phase = "BodyChunkedData" /\ len <= remaining /\ len <= Len(buf)
      /\ Deliver(len)
  BY DEF ConsumeChunkedData, OnOffer
<1>3. /\ remaining \in Nat /\ body_consumed + remaining <= MaxBody
      /\ body_consumed + len <= MaxBody /\ body_consumed \in Nat
      /\ body_consumed + len <= UsizeMax
  BY <1>1, <1>2, BodyLengths DEF WithinLimit, BodyTypeOK
<1>4. UNCHANGED <<wire, sent, trailers, trailer_count, declared_trailers,
                  call, advanced, given>>
  BY <1>2 DEF Deliver
<1>5. /\ body' \in Seq(Bytes) /\ body_consumed' = body_consumed + len
      /\ body_consumed' = Len(body') /\ body_consumed' \in 0..UsizeMax
      /\ body_consumed' <= MaxBody
  BY <1>2, <1>3, DeliverCounts
<1>6. TrailersAdmitted'
  BY <1>1, <1>4 DEF TrailersAdmitted
<1>7. CASE /\ len < remaining
           /\ buf' = Suffix(buf, len) /\ remaining' = remaining - len
           /\ result' = "Advanced" /\ UNCHANGED <<phase, failed>>
  <2>1. buf' \in Seq(Bytes) /\ InputIntact'
    BY <1>1, <1>2, <1>4, <1>7, DrainBuf
  <2>2. remaining' \in Nat /\ remaining' > 0 /\ body_consumed' + remaining' <= MaxBody
    BY <1>3, <1>5, <1>7
  <2>3. BodyTypeOK'
    BY <1>1, <1>4, <1>5, <1>7, <2>1, <2>2 DEF BodyTypeOK, Results
  <2>4. WithinLimit'
    BY <1>5, <2>2 DEF WithinLimit
  <2> QED
    BY <1>6, <2>1, <2>3, <2>4 DEF BodyInv
<1>8. CASE len = remaining /\ AfterChunkData(Suffix(buf, len))
  <2>1. /\ buf' \in Seq(Bytes) /\ InputIntact'
        /\ remaining' = 0 /\ phase' \in {"BodyChunkedDataCrlf", "BodyChunkedSize"}
        /\ result' \in Results /\ failed' \in BOOLEAN
    BY <1>1, <1>2, <1>4, <1>8, AfterChunkDataEffect
  <2>2. BodyTypeOK'
    BY <1>1, <1>4, <1>5, <2>1 DEF BodyTypeOK, Phases, BodyPhases
  <2>3. WithinLimit'
    BY <1>5, <2>1 DEF WithinLimit
  <2> QED
    BY <1>6, <2>1, <2>2, <2>3 DEF BodyInv
<1>9. ~(body_consumed + len > UsizeMax)
  BY <1>1, <1>3, BodyLengths
<1> QED
  BY <1>7, <1>8, <1>9 DEF ConsumeChunkedData

LEMMA DataCrlfPreserves ==
    ASSUME BodyInv, ProcessDataCrlf
    PROVE  BodyInv'
<1>1. BodyTypeOK /\ InputIntact /\ WithinLimit /\ TrailersAdmitted
  BY DEF BodyInv
<1>2. /\ AfterChunkData(buf)
      /\ UNCHANGED <<wire, sent, decoderVars, call, advanced, body, given>>
  BY DEF ProcessDataCrlf
<1>3. buf = Suffix(buf, 0) /\ Len(buf) \in Nat
  BY <1>1, BodyLengths, SubSeqFull DEF BodyTypeOK, Suffix
<1>4. AfterChunkData(Suffix(buf, 0))
  BY <1>2, <1>3
<1>5. /\ buf' \in Seq(Bytes) /\ InputIntact'
      /\ remaining' = 0 /\ phase' \in {"BodyChunkedDataCrlf", "BodyChunkedSize"}
      /\ result' \in Results /\ failed' \in BOOLEAN
  BY <1>1, <1>2, <1>3, <1>4, AfterChunkDataEffect
<1>6. BodyTypeOK'
  BY <1>1, <1>2, <1>5 DEF BodyTypeOK, Phases, BodyPhases, decoderVars
<1>7. WithinLimit' /\ TrailersAdmitted'
  BY <1>1, <1>2, <1>5 DEF WithinLimit, TrailersAdmitted, decoderVars
<1> QED
  BY <1>5, <1>6, <1>7 DEF BodyInv

LEMMA CloseDelimitedPreserves ==
    ASSUME BodyInv, NEW len \in Nat, ConsumeCloseDelimited(len)
    PROVE  BodyInv'
<1>1. BodyTypeOK /\ InputIntact /\ WithinLimit /\ TrailersAdmitted
  BY DEF BodyInv
<1>2. CASE Returns("BodyTooLarge")
  BY <1>2, ReturnsPreserves DEF Results, WireErrors
<1>3. CASE /\ ~ExceedsBody(len) /\ buf' = Suffix(buf, len) /\ Deliver(len)
           /\ result' = "Advanced" /\ UNCHANGED <<phase, remaining, failed>>
  <2>1. /\ phase = "BodyCloseDelimited" /\ len <= Len(buf)
    BY DEF ConsumeCloseDelimited, OnOffer
  <2>2. body_consumed + len <= MaxBody
    BY <1>1, <1>3, BodyLengths DEF ExceedsBody
  <2>3. UNCHANGED <<wire, sent, trailers, trailer_count, declared_trailers,
                    call, advanced, given>>
    BY <1>3 DEF Deliver
  <2>4. buf' \in Seq(Bytes) /\ InputIntact'
    BY <1>1, <1>3, <2>1, <2>3, DrainBuf
  <2>5. /\ body' \in Seq(Bytes) /\ body_consumed' = Len(body')
        /\ body_consumed' \in 0..UsizeMax /\ body_consumed' <= MaxBody
    BY <1>3, <2>1, <2>2, DeliverCounts
  <2>6. BodyTypeOK'
    BY <1>1, <1>3, <2>3, <2>4, <2>5 DEF BodyTypeOK, Results
  <2>7. WithinLimit' /\ TrailersAdmitted'
    BY <1>1, <1>3, <2>1, <2>3, <2>5 DEF WithinLimit, TrailersAdmitted
  <2> QED
    BY <2>4, <2>6, <2>7 DEF BodyInv
<1> QED
  BY <1>2, <1>3 DEF ConsumeCloseDelimited

\* Complete: the stored trailers move to the caller.
LEMMA TrailersHandedOut ==
    ASSUME BodyInv, given' = given \o trailers, trailers' = << >>,
           UNCHANGED <<trailer_count, declared_trailers>>
    PROVE  /\ given' \in Seq(DOMAIN Field) /\ trailers' \in Seq(DOMAIN Field)
           /\ TrailersAdmitted'
<1>1. /\ given \in Seq(DOMAIN Field) /\ trailers \in Seq(DOMAIN Field)
      /\ Len(given) \in Nat /\ Len(trailers) \in Nat
  BY BodyLengths DEF BodyInv, BodyTypeOK
<1>2. TrailersAdmitted
  BY DEF BodyInv
<1>3. /\ given' \in Seq(DOMAIN Field)
      /\ Len(given') = Len(given) + Len(trailers)
      /\ \A i \in 1..(Len(given) + Len(trailers)) :
            given'[i] = IF i <= Len(given) THEN given[i] ELSE trailers[i - Len(given)]
  BY <1>1, ConcatProperties
<1>4. trailers' \in Seq(DOMAIN Field) /\ Len(trailers') = 0 /\ DOMAIN trailers' = {}
  BY EmptySeq, LenProperties
<1>5. /\ DOMAIN given' = 1..(Len(given) + Len(trailers))
      /\ DOMAIN given = 1..Len(given) /\ DOMAIN trailers = 1..Len(trailers)
  BY <1>1, <1>3, LenProperties
<1>6. ASSUME NEW i \in DOMAIN given'
      PROVE  Field[given'[i]].name \in declared_trailers \ Prohibited
  <2>1. CASE i <= Len(given)
    BY <1>1, <1>2, <1>3, <1>5, <2>1 DEF TrailersAdmitted
  <2>2. CASE ~(i <= Len(given))
    <3>1. i - Len(given) \in DOMAIN trailers
      BY <1>1, <1>5, <2>2
    <3> QED
      BY <1>2, <1>3, <1>5, <2>2, <3>1 DEF TrailersAdmitted
  <2> QED
    BY <2>1, <2>2
<1>7. TrailersAdmitted'
  BY <1>1, <1>2, <1>3, <1>4, <1>6 DEF TrailersAdmitted
<1> QED
  BY <1>3, <1>4, <1>7

LEMMA CompletePreserves ==
    ASSUME BodyInv, ConsumeComplete
    PROVE  BodyInv'
<1>1. BodyTypeOK /\ InputIntact /\ WithinLimit
  BY DEF BodyInv
<1>2. /\ given' = given \o trailers /\ trailers' = << >> /\ result' = "Complete"
      /\ UNCHANGED <<wire, sent, buf, phase, remaining, body_consumed, trailer_count,
                     declared_trailers, call, advanced, body, failed>>
  BY DEF ConsumeComplete, inputVars
<1>3. /\ given' \in Seq(DOMAIN Field) /\ trailers' \in Seq(DOMAIN Field)
      /\ TrailersAdmitted'
  BY <1>2, TrailersHandedOut
<1>4. BodyTypeOK'
  BY <1>1, <1>2, <1>3 DEF BodyTypeOK, Results
<1>5. InputIntact' /\ WithinLimit'
  BY <1>1, <1>2 DEF InputIntact, WithinLimit
<1> QED
  BY <1>3, <1>4, <1>5 DEF BodyInv

LEMMA ChunkSizeIsNat ==
    ASSUME NEW line, ValidChunkLine(line)
    PROVE  ChunkSize(line) \in Nat
<1>1. ChunkSize(line) \in 0..UsizeMax
  BY Zenon DEF ValidChunkLine
<1> QED
  BY <1>1, ChunkLineAssumption

\* A refusal keeps the line; an accepted line is drained, and opens a chunk
\* only if that fits into the limit together with what was consumed before.
LEMMA ChunkedSizePreserves ==
    ASSUME BodyInv, ProcessChunkedSize
    PROVE  BodyInv'
<1>1. BodyTypeOK /\ InputIntact /\ WithinLimit /\ TrailersAdmitted
  BY DEF BodyInv
<1>2. CASE Returns("NeedData")
  BY <1>2, ReturnsPreserves DEF Results
<1>3. ASSUME NEW value \in {"ChunkLineTooLong", "InvalidData"}, RefuseChunkLine(value)
      PROVE  BodyInv'
  BY <1>3, ReturnsPreserves DEF RefuseChunkLine, Results, WireErrors
<1>4. ASSUME NEW pos \in LineEnds(buf),
             ValidChunkLine(Prefix(buf, pos)),
             buf' = Suffix(buf, pos + 2),
             UNCHANGED <<wire, sent, decoderVars, body, given>>,
             \/ /\ phase' = "ChunkedTrailer" /\ call' = "trailers" /\ advanced' = TRUE
                /\ result' = "none" /\ UNCHANGED <<remaining, failed>>
             \/ /\ result' = "BodyTooLarge" /\ failed' = TRUE
                /\ UNCHANGED <<phase, remaining, call, advanced>>
             \/ /\ ChunkSize(Prefix(buf, pos)) > 0
                /\ ~ExceedsBody(ChunkSize(Prefix(buf, pos)))
                /\ phase' = "BodyChunkedData"
                /\ remaining' = ChunkSize(Prefix(buf, pos))
                /\ result' = "Advanced" /\ UNCHANGED <<call, advanced, failed>>
      PROVE  BodyInv'
  <2> DEFINE size == ChunkSize(Prefix(buf, pos))
  <2>1. pos + 2 \in Nat /\ pos + 2 <= Len(buf)
    BY <1>1, LineInBuffer
  <2>2. buf' \in Seq(Bytes) /\ InputIntact'
    BY <1>1, <1>4, <2>1, DrainBuf
  <2>3. TrailersAdmitted'
    BY <1>1, <1>4 DEF TrailersAdmitted, decoderVars
  <2>4. size \in Nat
    BY <1>4, ChunkSizeIsNat
  <2> HIDE DEF size
  <2>5. phase = "BodyChunkedSize"
    BY DEF ProcessChunkedSize
  <2>6. CASE phase' = "BodyChunkedData" /\ size > 0 /\ ~ExceedsBody(size)
               /\ remaining' = size /\ result' = "Advanced"
               /\ UNCHANGED <<call, advanced, failed>>
    <3>1. body_consumed + size <= MaxBody
      BY <1>1, <2>4, <2>6, BodyLengths DEF ExceedsBody
    <3>2. BodyTypeOK'
      BY <1>1, <1>4, <2>2, <2>4, <2>6
         DEF BodyTypeOK, Phases, BodyPhases, Results, decoderVars
    <3>3. WithinLimit'
      BY <1>1, <1>4, <2>6, <3>1 DEF WithinLimit, decoderVars
    <3> QED
      BY <2>2, <2>3, <3>2, <3>3 DEF BodyInv
  <2>7. CASE /\ phase' \in {"ChunkedTrailer", "BodyChunkedSize"}
             /\ call' \in {call, "trailers"} /\ advanced' \in {advanced, TRUE}
             /\ result' \in {"none", "BodyTooLarge"} /\ remaining' = remaining
             /\ failed' \in {failed, TRUE}
    <3>1. BodyTypeOK'
      BY <1>1, <1>4, <2>2, <2>7
         DEF BodyTypeOK, Phases, BodyPhases, Results, WireErrors, decoderVars
    <3>2. WithinLimit'
      BY <1>1, <1>4, <2>7 DEF WithinLimit, decoderVars
    <3> QED
      BY <2>2, <2>3, <3>1, <3>2 DEF BodyInv
  <2> QED
    BY <1>4, <2>5, <2>6, <2>7 DEF size
<1> QED
  BY <1>2, <1>3, <1>4 DEF ProcessChunkedSize

LEMMA ProcessTrailersPreserves ==
    ASSUME BodyInv, ProcessTrailers
    PROVE  BodyInv'
<1>1. /\ call' = "trailers" /\ advanced' = FALSE /\ result' = "none"
      /\ UNCHANGED <<wire, sent, buf, phase, remaining, decoderVars, body, given, failed>>
  BY DEF ProcessTrailers, inputVars, historyVars
<1>2. BodyTypeOK'
  BY <1>1 DEF BodyInv, BodyTypeOK, Results, decoderVars
<1>3. InputIntact' /\ WithinLimit' /\ TrailersAdmitted'
  BY <1>1 DEF BodyInv, InputIntact, WithinLimit, TrailersAdmitted, decoderVars
<1> QED
  BY <1>2, <1>3 DEF BodyInv

\* The loop of process_trailers returns; the line it looked at may be drained.
LEMMA TrailersReturnPreserves ==
    ASSUME BodyInv, NEW value \in Results, TrailersReturn(value),
           UNCHANGED <<trailers, trailer_count>>,
           buf' \in Seq(Bytes), InputIntact'
    PROVE  BodyInv'
<1>1. /\ call' = "idle" /\ result' = value /\ failed' \in BOOLEAN
      /\ UNCHANGED <<wire, sent, phase, remaining, body_consumed,
                     declared_trailers, advanced, body, given>>
  BY DEF TrailersReturn
<1>2. BodyTypeOK'
  BY <1>1 DEF BodyInv, BodyTypeOK
<1>3. WithinLimit' /\ TrailersAdmitted'
  BY <1>1 DEF BodyInv, WithinLimit, TrailersAdmitted
<1> QED
  BY <1>2, <1>3 DEF BodyInv

\* An admitted trailer is stored.
LEMMA TrailerStored ==
    ASSUME BodyInv, NEW line, NEW f \in AdmittedTrailers(line),
           trailer_count < MaxHeaders,
           trailers' = Append(trailers, f), trailer_count' = trailer_count + 1,
           UNCHANGED <<declared_trailers, given>>
    PROVE  trailers' \in Seq(DOMAIN Field) /\ trailer_count' \in Nat /\ TrailersAdmitted'
<1>1. /\ TrailersAdmitted /\ trailers \in Seq(DOMAIN Field) /\ Len(trailers) \in Nat
      /\ Len(given) \in Nat /\ trailer_count \in Nat /\ MaxHeaders \in Nat
  BY BodyLengths, BodyAssumption DEF BodyInv, BodyTypeOK
<1>2. f \in DOMAIN Field /\ Field[f].name \in declared_trailers \ Prohibited
  BY DEF AdmittedTrailers, ParseHeaderLine
<1>3. /\ trailers' \in Seq(DOMAIN Field) /\ Len(trailers') = Len(trailers) + 1
      /\ \A i \in 1..Len(trailers') :
            trailers'[i] = IF i <= Len(trailers) THEN trailers[i] ELSE f
      /\ DOMAIN trailers' = 1..Len(trailers') /\ DOMAIN trailers = 1..Len(trailers)
  BY <1>1, <1>2, AppendProperties, LenProperties
<1>4. ASSUME NEW i \in DOMAIN trailers'
      PROVE  Field[trailers'[i]].name \in declared_trailers \ Prohibited
  <2>1. CASE i <= Len(trailers)
    BY <1>1, <1>3, <2>1 DEF TrailersAdmitted
  <2>2. CASE ~(i <= Len(trailers))
    BY <1>2, <1>3, <2>2
  <2> QED
    BY <2>1, <2>2
<1>5. /\ Len(given) + Len(trailers') = trailer_count' /\ trailer_count' <= MaxHeaders
  BY <1>1, <1>3 DEF TrailersAdmitted
<1>6. \A i \in DOMAIN given : Field[given[i]].name \in declared_trailers \ Prohibited
  BY <1>1 DEF TrailersAdmitted
<1>7. TrailersAdmitted'
  BY <1>4, <1>5, <1>6 DEF TrailersAdmitted
<1> QED
  BY <1>1, <1>3, <1>7

LEMMA TrailerStepPreserves ==
    ASSUME BodyInv, TrailerStep
    PROVE  BodyInv'
<1>1. BodyTypeOK /\ InputIntact /\ WithinLimit /\ TrailersAdmitted
  BY DEF BodyInv
<1>2. /\ "Advanced" \in Results /\ "NeedData" \in Results /\ "InvalidData" \in Results
      /\ "HeaderLineTooLong" \in Results /\ "TooManyHeaders" \in Results
  BY DEF Results, WireErrors
<1>3. CASE /\ TrailersReturn(IF advanced THEN "Advanced" ELSE "NeedData")
           /\ UNCHANGED <<buf, trailers, trailer_count>>
  <2>1. wire' = wire /\ sent' = sent
    BY <1>3 DEF TrailersReturn
  <2>2. buf' \in Seq(Bytes) /\ InputIntact'
    BY <1>1, <1>3, <2>1 DEF BodyTypeOK, InputIntact
  <2> QED
    BY <1>2, <1>3, <2>2, TrailersReturnPreserves
<1>4. CASE /\ 0 \in LineEnds(buf) /\ buf' = Suffix(buf, 2) /\ phase' = "Complete"
           /\ given' = given \o trailers /\ trailers' = << >>
           /\ call' = "idle" /\ result' = "Complete"
           /\ UNCHANGED <<wire, sent, remaining, body_consumed, trailer_count,
                          declared_trailers, advanced, body, failed>>
  <2>1. 2 <= Len(buf)
    BY <1>1, <1>4, LineInBuffer
  <2>2. buf' \in Seq(Bytes) /\ InputIntact'
    BY <1>1, <1>4, <2>1, DrainBuf
  <2>3. /\ given' \in Seq(DOMAIN Field) /\ trailers' \in Seq(DOMAIN Field)
        /\ TrailersAdmitted'
    BY <1>4, TrailersHandedOut
  <2>4. BodyTypeOK'
    BY <1>1, <1>4, <2>2, <2>3 DEF BodyTypeOK, Phases, Results
  <2>5. WithinLimit'
    BY <1>1, <1>4 DEF WithinLimit
  <2> QED
    BY <2>2, <2>3, <2>4, <2>5 DEF BodyInv
<1>5. ASSUME NEW pos \in LineEnds(buf), TrailerLine(pos)
      PROVE  BodyInv'
  <2> DEFINE line == Prefix(buf, pos)
  <2>1. pos + 2 \in Nat /\ pos + 2 <= Len(buf)
    BY <1>1, LineInBuffer
  <2>2. ASSUME NEW value \in {"HeaderLineTooLong", "TooManyHeaders", "InvalidData"},
               TrailersReturn(value), UNCHANGED <<buf, trailers, trailer_count>>
        PROVE  BodyInv'
    <3>1. wire' = wire /\ sent' = sent
      BY <2>2 DEF TrailersReturn
    <3>2. buf' \in Seq(Bytes) /\ InputIntact'
      BY <1>1, <2>2, <3>1 DEF BodyTypeOK, InputIntact
    <3> QED
      BY <1>2, <2>2, <3>2, TrailersReturnPreserves
  <2>3. CASE /\ buf' = Suffix(buf, pos + 2) /\ TrailersReturn("InvalidData")
             /\ UNCHANGED <<trailers, trailer_count>>
    <3>1. wire' = wire /\ sent' = sent
      BY <2>3 DEF TrailersReturn
    <3>2. buf' \in Seq(Bytes) /\ InputIntact'
      BY <1>1, <2>1, <2>3, <3>1, DrainBuf
    <3> QED
      BY <1>2, <2>3, <3>2, TrailersReturnPreserves
  <2>4. ASSUME NEW f \in AdmittedTrailers(line), trailer_count < MaxHeaders,
               buf' = Suffix(buf, pos + 2),
               trailers' = Append(trailers, f), trailer_count' = trailer_count + 1,
               advanced' = TRUE,
               UNCHANGED <<wire, sent, phase, remaining, body_consumed,
                           declared_trailers, call, result, historyVars>>
        PROVE  BodyInv'
    <3>1. buf' \in Seq(Bytes) /\ InputIntact'
      BY <1>1, <2>1, <2>4, DrainBuf
    <3>2. /\ trailers' \in Seq(DOMAIN Field) /\ trailer_count' \in Nat
          /\ TrailersAdmitted'
      BY <2>4, TrailerStored DEF historyVars
    <3>3. BodyTypeOK'
      BY <1>1, <2>4, <3>1, <3>2 DEF BodyTypeOK, historyVars
    <3>4. WithinLimit'
      BY <1>1, <2>4 DEF WithinLimit, historyVars
    <3> QED
      BY <3>1, <3>2, <3>3, <3>4 DEF BodyInv
  <2> QED
    BY <1>5, <2>2, <2>3, <2>4 DEF TrailerLine
<1> QED
  BY <1>3, <1>4, <1>5 DEF TrailerStep

-----------------------------------------------------------------------------
\* consume_body and progress, in every phase.
LEMMA ConsumeBodyPreserves ==
    ASSUME BodyInv, NEW len \in Nat, ConsumeBody(len)
    PROVE  BodyInv'
<1>1. "Misuse" \in Results /\ "NeedData" \in Results
  BY DEF Results
<1>2. CASE ConsumeTooMuch(len) \/ ProgressInData \/ NotInBody
  BY <1>1, <1>2, ReturnsPreserves DEF ConsumeTooMuch, ProgressInData, NotInBody
<1>3. CASE ConsumeContentLength(len)
  BY <1>3, ContentLengthPreserves
<1>4. CASE ConsumeChunkedData(len)
  BY <1>4, ChunkedDataPreserves
<1>5. CASE ConsumeCloseDelimited(len)
  BY <1>5, CloseDelimitedPreserves
<1>6. CASE ProcessChunkedSize
  BY <1>6, ChunkedSizePreserves
<1>7. CASE ProcessDataCrlf
  BY <1>7, DataCrlfPreserves
<1>8. CASE ProcessTrailers
  BY <1>8, ProcessTrailersPreserves
<1>9. CASE ConsumeComplete
  BY <1>9, CompletePreserves
<1> QED
  BY <1>2, <1>3, <1>4, <1>5, <1>6, <1>7, <1>8, <1>9 DEF ConsumeBody

\* What consume_body and progress may do to the state that a header section
\* relies on: they never enter or leave a header section and change nothing in
\* one; Complete is only returned in phase Complete.
LEMMA ConsumeBodyEffect ==
    ASSUME BodyInv, call = "idle", NEW len \in Nat, ConsumeBody(len)
    PROVE  /\ phase' \in {"StartLine", "Headers"}
                => phase' = phase /\ UNCHANGED <<trailers, given, body,
                                                 body_consumed, trailer_count>>
           /\ phase = "Headers" => phase' = "Headers"
           /\ result' = "Complete" => phase' = "Complete"
           /\ phase = "Complete" => phase' = "Complete"
           /\ call' \in {"idle", "trailers"}
           /\ call' = "trailers" => phase' = "ChunkedTrailer"
<1>1. CASE ConsumeTooMuch(len) \/ ProgressInData \/ NotInBody
  BY <1>1 DEF ConsumeTooMuch, ProgressInData, NotInBody, Returns, decoderVars
<1>2. CASE ConsumeContentLength(len)
  <2>1. phase = "BodyContentLength" /\ phase' \in {"Complete", "BodyContentLength"}
        /\ call' = call
    BY <1>2 DEF ConsumeContentLength, Deliver
  <2>2. ~(body_consumed + len > UsizeMax) /\ body_consumed + len <= UsizeMax
    BY <1>2, BodyLengths DEF BodyInv, WithinLimit, BodyTypeOK, ConsumeContentLength, OnOffer
  <2>3. CASE len = remaining
    BY <1>2, <2>1, <2>2, <2>3 DEF ConsumeContentLength
  <2>4. CASE len # remaining
    <3>1. result' \in {"Advanced", "NeedData"}
      BY <1>2, <2>2, <2>4, Zenon DEF ConsumeContentLength
    <3> QED
      BY <2>1, <3>1
  <2> QED
    BY <2>3, <2>4
<1>3. ASSUME NEW rest, AfterChunkData(rest)
      PROVE  phase' \in {"BodyChunkedDataCrlf", "BodyChunkedSize"} /\ result' # "Complete"
  BY <1>3 DEF AfterChunkData
<1>4. CASE ConsumeChunkedData(len)
  BY <1>3, <1>4 DEF ConsumeChunkedData, Deliver
<1>5. CASE ConsumeCloseDelimited(len)
  BY <1>5 DEF ConsumeCloseDelimited, Deliver, Returns, decoderVars
<1>6. CASE ProcessChunkedSize
  BY <1>6 DEF ProcessChunkedSize, RefuseChunkLine, Returns
<1>7. CASE ProcessDataCrlf
  BY <1>3, <1>7 DEF ProcessDataCrlf
<1>8. CASE ProcessTrailers
  BY <1>8 DEF ProcessTrailers
<1>9. CASE ConsumeComplete
  BY <1>9 DEF ConsumeComplete
<1> QED
  BY <1>1, <1>2, <1>4, <1>5, <1>6, <1>7, <1>8, <1>9 DEF ConsumeBody

\* The trailer loop.
LEMMA TrailerStepEffect ==
    ASSUME phase = "ChunkedTrailer", result # "Complete", TrailerStep
    PROVE  /\ phase' \in {"ChunkedTrailer", "Complete"}
           /\ result' = "Complete" => phase' = "Complete"
           /\ call' \in {"idle", "trailers"}
           /\ call' = "trailers" => phase' = "ChunkedTrailer"
<1>1. ASSUME NEW value \in {"Advanced", "NeedData", "InvalidData", "HeaderLineTooLong",
                            "TooManyHeaders"}, TrailersReturn(value)
      PROVE  phase' = "ChunkedTrailer" /\ result' # "Complete" /\ call' = "idle"
  BY <1>1 DEF TrailersReturn
<1>2. ASSUME NEW pos, TrailerLine(pos)
      PROVE  phase' = "ChunkedTrailer" /\ result' # "Complete" /\ call' \in {"idle", "trailers"}
  BY <1>1, <1>2 DEF TrailerLine, TrailerStep
<1> QED
  BY <1>1, <1>2 DEF TrailerStep

LEMMA BodyInvInit == BodyInit => BodyInv
<1> SUFFICES ASSUME BodyInit PROVE BodyInv
  OBVIOUS
<1>1. /\ wire \in Seq(Bytes) /\ sent = 0 /\ buf = << >>
      /\ trailers = << >> /\ body_consumed = 0 /\ trailer_count = 0
      /\ call = "idle" /\ advanced = FALSE /\ result = "none"
      /\ body = << >> /\ given = << >> /\ failed = FALSE
  BY BodyAssumption DEF BodyInit
<1>2. /\ phase \in Phases /\ remaining \in Nat
      /\ phase \in {"BodyContentLength", "BodyChunkedData"}
            => remaining > 0 /\ remaining <= MaxBody
  BY BodyAssumption, ChunkLineAssumption DEF BodyInit, Phases, BodyPhases
<1>3. Len(<< >>) = 0 /\ Len(wire) \in Nat
  BY <1>1, EmptySeq, LenProperties
<1>4. << >> \in Seq(Bytes) /\ << >> \in Seq(DOMAIN Field) /\ DOMAIN << >> = {}
  BY EmptySeq, LenProperties
<1>5. BodyTypeOK
  <2>1. sent \in 0..Len(wire) /\ body_consumed \in 0..UsizeMax /\ trailer_count \in Nat
    BY <1>1, <1>3, ChunkLineAssumption
  <2>2. /\ buf \in Seq(Bytes) /\ body \in Seq(Bytes)
        /\ trailers \in Seq(DOMAIN Field) /\ given \in Seq(DOMAIN Field)
    BY <1>1, <1>4
  <2>3. result \in Results /\ call \in {"idle", "headers", "trailers"}
        /\ advanced \in BOOLEAN /\ failed \in BOOLEAN
    BY <1>1 DEF Results
  <2> QED
    BY <1>1, <1>2, <2>1, <2>2, <2>3 DEF BodyTypeOK
<1>6. InputIntact
  <2>1. SubSeq(wire, 1, 0) = << >>
    BY SubSeqEmpty
  <2> QED
    BY <1>1, <1>3, <2>1, BodyAssumption DEF InputIntact
<1>7. WithinLimit
  BY <1>1, <1>2, <1>3, BodyAssumption DEF WithinLimit
<1>8. TrailersAdmitted
  BY <1>1, <1>3, <1>4, BodyAssumption DEF TrailersAdmitted
<1> QED
  BY <1>5, <1>6, <1>7, <1>8 DEF BodyInv

LEMMA BodyInvStep == BodyInv /\ [BodyNext]_bodyVars => BodyInv'
<1> SUFFICES ASSUME BodyInv, [BodyNext]_bodyVars PROVE BodyInv'
  OBVIOUS
<1>1. ASSUME NEW n \in FeedSizes, Feed(n) PROVE BodyInv'
  BY <1>1, FeedPreserves
<1>2. ASSUME NEW len \in 0..(Len(buf) + 1), ConsumeBody(len) PROVE BodyInv'
  <2>1. len \in Nat
    BY BodyLengths DEF BodyInv
  <2> QED
    BY <1>2, <2>1, ConsumeBodyPreserves
<1>3. CASE TrailerStep
  BY <1>3, TrailerStepPreserves
<1>4. CASE UNCHANGED bodyVars
  BY <1>4 DEF BodyInv, bodyVars, BodyTypeOK, InputIntact, WithinLimit, TrailersAdmitted
<1> QED
  BY <1>1, <1>2, <1>3, <1>4 DEF BodyNext

LEMMA BodyInvariant == BodySpec => []BodyInv
  BY BodyInvInit, BodyInvStep, PTL DEF BodySpec

\* Type correctness of the body state machine; `remaining` never underflows.
THEOREM BodyTypeCorrect == BodySpec => []BodyTypeOK
  BY BodyInvariant, PTL DEF BodyInv

\* max_body_size holds in every framing, also after errors and retries, and
\* the overflow check of consume_body behind the drain can never fail.
THEOREM BodyWithinLimit == BodySpec => []WithinLimit
  BY BodyInvariant, PTL DEF BodyInv

\* Only announced, permitted trailers are ever stored or returned, each once,
\* and never more than max_headers_count.
THEOREM BodyTrailersAdmitted == BodySpec => []TrailersAdmitted
  BY BodyInvariant, PTL DEF BodyInv
-----------------------------------------------------------------------------
\* A buffer holds at most one first line.
LEMMA OneFirstLine ==
    ASSUME NEW s \in Seq(Bytes), NEW p \in LineEnds(s), NEW q \in LineEnds(s)
    PROVE  p = q
<1>1. /\ p \in Nat /\ q \in Nat
      /\ CrlfAt(s, p) /\ CrlfAt(s, q)
      /\ \A r \in 0..(p - 1) : ~CrlfAt(s, r)
      /\ \A r \in 0..(q - 1) : ~CrlfAt(s, r)
  BY LenProperties DEF LineEnds
<1>2. p < q => p \in 0..(q - 1)
  BY <1>1
<1>3. q < p => q \in 0..(p - 1)
  BY <1>1
<1> QED
  BY <1>1, <1>2, <1>3

\* A line that is whole stays the first line, whatever arrives behind it.
LEMMA FirstLineStays ==
    ASSUME NEW s \in Seq(Bytes), NEW t \in Seq(Bytes), NEW p \in LineEnds(s)
    PROVE  p \in LineEnds(s \o t)
<1>1. /\ Len(s) \in Nat /\ Len(t) \in Nat /\ Len(s \o t) = Len(s) + Len(t)
      /\ \A i \in 1..Len(s) : (s \o t)[i] = s[i]
  BY LenProperties, ConcatProperties
<1>2. p \in Nat /\ p + 2 <= Len(s) /\ CrlfAt(s, p) /\ \A q \in 0..(p - 1) : ~CrlfAt(s, q)
  <2>1. p \in 0..Len(s) /\ CrlfAt(s, p) /\ \A q \in 0..(p - 1) : ~CrlfAt(s, q)
    BY DEF LineEnds
  <2>2. p \in Nat
    BY <1>1, <2>1
  <2>3. p + 2 <= Len(s)
    BY <2>1 DEF CrlfAt
  <2> QED
    BY <2>1, <2>2, <2>3
<1>3. ASSUME NEW q \in 0..p PROVE CrlfAt(s \o t, q) <=> CrlfAt(s, q)
  <2>1. q + 1 \in 1..Len(s) /\ q + 2 \in 1..Len(s) /\ q + 2 <= Len(s \o t)
    BY <1>1, <1>2
  <2> QED
    BY <1>1, <1>2, <2>1 DEF CrlfAt
<1>4. p \in 0..Len(s \o t) /\ p \in 0..p
  BY <1>1, <1>2
<1>5. \A q \in 0..(p - 1) : q \in 0..p
  BY <1>2
<1> QED
  BY <1>2, <1>3, <1>4, <1>5 DEF LineEnds

\* The decoder stands in front of a chunk-size line, or of a trailer line, that
\* a limit makes it refuse.
ChunkLineBlocked ==
    /\ phase = "BodyChunkedSize" /\ call = "idle"
    /\ \E p \in LineEnds(buf) : p > MaxChunkLine

TrailerBlocked ==
    /\ phase = "ChunkedTrailer"
    /\ \E p \in LineEnds(buf) : p > 0 /\ (p > MaxHeaderLine \/ trailer_count >= MaxHeaders)

LimitErrors == {"HeaderLineTooLong", "TooManyHeaders"}

Blocked ==
    /\ call = "trailers" => phase = "ChunkedTrailer"
    /\ result = "ChunkLineTooLong" => ChunkLineBlocked
    /\ result \in LimitErrors => TrailerBlocked

LEMMA FeedKeepsLine ==
    ASSUME BodyTypeOK, NEW n \in FeedSizes, Feed(n), NEW p \in LineEnds(buf)
    PROVE  p \in LineEnds(buf')
<1>1. buf \in Seq(Bytes) /\ wire \in Seq(Bytes) /\ n \in Nat /\ sent \in Nat
      /\ Len(wire) \in Nat /\ sent + n <= Len(wire)
  BY BodyLengths, BodyAssumption DEF BodyTypeOK, Feed
<1>2. SubSeq(wire, sent + 1, sent + n) \in Seq(Bytes)
  BY <1>1, Slice
<1> QED
  BY <1>1, <1>2, FirstLineStays DEF Feed

\* Nothing moves the decoder past a chunk-size line that is too long.
LEMMA ChunkLineStaysBlocked ==
    BodyInv /\ ChunkLineBlocked /\ [BodyNext]_bodyVars => ChunkLineBlocked'
<1> SUFFICES ASSUME BodyInv, ChunkLineBlocked, [BodyNext]_bodyVars PROVE ChunkLineBlocked'
  OBVIOUS
<1>1. BodyTypeOK /\ buf \in Seq(Bytes) /\ MaxChunkLine \in Nat
  BY BodyAssumption DEF BodyInv, BodyTypeOK
<1>2. PICK p \in LineEnds(buf) : p > MaxChunkLine
  BY DEF ChunkLineBlocked
<1>3. phase = "BodyChunkedSize" /\ call = "idle"
  BY DEF ChunkLineBlocked
<1>4. ASSUME NEW n \in FeedSizes, Feed(n) PROVE ChunkLineBlocked'
  <2>1. p \in LineEnds(buf') /\ phase' = phase /\ call' = call
    BY <1>1, <1>4, FeedKeepsLine DEF Feed
  <2> QED
    BY <1>2, <1>3, <2>1 DEF ChunkLineBlocked
<1>5. ASSUME NEW value, Returns(value) PROVE ChunkLineBlocked'
  BY <1>2, <1>3, <1>5 DEF Returns, inputVars, ChunkLineBlocked
<1>6. ASSUME NEW len, ConsumeBody(len) PROVE ChunkLineBlocked'
  <2>1. ProcessChunkedSize
    BY <1>3, <1>6 DEF ConsumeBody, ConsumeTooMuch, ConsumeContentLength, ConsumeChunkedData,
                      ConsumeCloseDelimited, ProgressInData, ProcessDataCrlf,
                      ProcessTrailers, ConsumeComplete, NotInBody
  <2>2. \A q \in LineEnds(buf) : q = p
    BY <1>1, OneFirstLine
  <2>3. p \in Nat /\ ~(p <= MaxChunkLine)
    BY <1>1, <1>2, LineInBuffer
  <2>4. Returns("NeedData") \/ Returns("ChunkLineTooLong") \/ Returns("InvalidData")
    BY <2>1, <2>2, <2>3 DEF ProcessChunkedSize, RefuseChunkLine
  <2> QED
    BY <1>5, <2>4
<1>7. ~TrailerStep
  BY <1>3 DEF TrailerStep
<1>8. CASE UNCHANGED bodyVars
  BY <1>2, <1>3, <1>8 DEF bodyVars, ChunkLineBlocked
<1> QED
  BY <1>4, <1>6, <1>7, <1>8 DEF BodyNext

\* Nor past a trailer line that is too long, or one too many.
LEMMA TrailerStaysBlocked ==
    BodyInv /\ TrailerBlocked /\ [BodyNext]_bodyVars => TrailerBlocked'
<1> SUFFICES ASSUME BodyInv, TrailerBlocked, [BodyNext]_bodyVars PROVE TrailerBlocked'
  OBVIOUS
<1>1. /\ BodyTypeOK /\ buf \in Seq(Bytes) /\ MaxHeaderLine \in Nat /\ MaxHeaders \in Nat
      /\ trailer_count \in Nat
  BY BodyAssumption DEF BodyInv, BodyTypeOK
<1>2. PICK p \in LineEnds(buf) : p > 0 /\ (p > MaxHeaderLine \/ trailer_count >= MaxHeaders)
  BY DEF TrailerBlocked
<1>3. phase = "ChunkedTrailer"
  BY DEF TrailerBlocked
<1>4. ASSUME NEW n \in FeedSizes, Feed(n) PROVE TrailerBlocked'
  <2>1. p \in LineEnds(buf') /\ phase' = phase /\ trailer_count' = trailer_count
    BY <1>1, <1>4, FeedKeepsLine DEF Feed, decoderVars
  <2> QED
    BY <1>2, <1>3, <2>1 DEF TrailerBlocked
<1>5. ASSUME NEW len, ConsumeBody(len) PROVE TrailerBlocked'
  <2>1. ProcessTrailers
    BY <1>3, <1>5 DEF ConsumeBody, ConsumeTooMuch, ConsumeContentLength, ConsumeChunkedData,
                      ConsumeCloseDelimited, ProgressInData, ProcessDataCrlf,
                      ProcessChunkedSize, ConsumeComplete, NotInBody
  <2> QED
    BY <1>2, <1>3, <2>1 DEF ProcessTrailers, inputVars, decoderVars, TrailerBlocked
<1>6. CASE TrailerStep
  <2>1. \A q \in LineEnds(buf) : q = p
    BY <1>1, OneFirstLine
  <2>2. p \in Nat /\ ~(p <= MaxHeaderLine /\ trailer_count < MaxHeaders)
    BY <1>1, <1>2, LineInBuffer
  <2>3. LineEnds(buf) # {} /\ 0 \notin LineEnds(buf)
    BY <1>2, <2>1, <2>2
  <2>4. TrailerLine(p)
    BY <1>6, <2>1, <2>3 DEF TrailerStep
  <2>5. UNCHANGED <<buf, trailer_count>> /\ phase' = phase
    BY <2>2, <2>4 DEF TrailerLine, TrailersReturn
  <2> QED
    BY <1>2, <1>3, <2>5 DEF TrailerBlocked
<1>7. CASE UNCHANGED bodyVars
  BY <1>2, <1>3, <1>7 DEF bodyVars, TrailerBlocked
<1> QED
  BY <1>4, <1>5, <1>6, <1>7 DEF BodyNext

\* Where a limit error is returned, the decoder is in front of such a line.
LEMMA BlockedStep == BodyInv /\ Blocked /\ [BodyNext]_bodyVars => Blocked'
<1> SUFFICES ASSUME BodyInv, Blocked, [BodyNext]_bodyVars PROVE Blocked'
  OBVIOUS
<1>1. call' = "trailers" => phase' = "ChunkedTrailer"
  <2>1. ASSUME NEW len \in 0..(Len(buf) + 1), ConsumeBody(len)
        PROVE  call' = "trailers" => phase' = "ChunkedTrailer"
    <3>1. len \in Nat /\ call = "idle"
      BY <2>1, BodyLengths DEF BodyInv, ConsumeBody
    <3> QED
      BY <2>1, <3>1, ConsumeBodyEffect
  <2>2. ASSUME TrailerStep PROVE call' = "trailers" => phase' = "ChunkedTrailer"
    BY <2>2 DEF TrailerStep, TrailerLine, TrailersReturn, Blocked
  <2>3. ASSUME NEW n \in FeedSizes, Feed(n) PROVE call' = call /\ phase' = phase
    BY <2>3 DEF Feed
  <2> QED
    BY <2>1, <2>2, <2>3 DEF BodyNext, bodyVars, Blocked
<1>2. CASE result' = result
  BY <1>2, <1>1, ChunkLineStaysBlocked, TrailerStaysBlocked DEF Blocked
<1>3. CASE result' \notin LimitErrors \cup {"ChunkLineTooLong"}
  BY <1>3, <1>1 DEF Blocked
<1>4. ASSUME NEW len, ConsumeBody(len), result' \in LimitErrors \cup {"ChunkLineTooLong"}
      PROVE  Blocked'
  <2>1. ProcessChunkedSize
    <3>1. \A rest : AfterChunkData(rest) => result' \in {"NeedData", "Advanced", "InvalidData"}
      BY DEF AfterChunkData
    <3>2. ConsumeContentLength(len)
             => result' \in {"BodyTooLarge", "Complete", "Advanced", "NeedData"}
      BY DEF ConsumeContentLength
    <3>3. ConsumeChunkedData(len)
             => result' \in {"BodyTooLarge", "NeedData", "Advanced", "InvalidData"}
      BY <3>1 DEF ConsumeChunkedData
    <3>4. ConsumeCloseDelimited(len) => result' \in {"BodyTooLarge", "Advanced"}
      BY DEF ConsumeCloseDelimited, Returns
    <3>5. ProcessDataCrlf => result' \in {"NeedData", "Advanced", "InvalidData"}
      BY <3>1 DEF ProcessDataCrlf
    <3>6. ConsumeTooMuch(len) \/ ProgressInData \/ NotInBody \/ ProcessTrailers \/ ConsumeComplete
             => result' \in {"Misuse", "NeedData", "none", "Complete"}
      BY DEF ConsumeTooMuch, ProgressInData, NotInBody, ProcessTrailers, ConsumeComplete, Returns
    <3> QED
      BY <1>4, <3>2, <3>3, <3>4, <3>5, <3>6 DEF ConsumeBody, LimitErrors
  <2>2. PICK p \in LineEnds(buf) : p > MaxChunkLine /\ Returns("ChunkLineTooLong")
    BY <1>4, <2>1 DEF ProcessChunkedSize, RefuseChunkLine, Returns, LimitErrors
  <2>3. phase' = "BodyChunkedSize" /\ call' = "idle" /\ buf' = buf /\ result' = "ChunkLineTooLong"
    BY <1>4, <2>1, <2>2 DEF ConsumeBody, ProcessChunkedSize, Returns, inputVars
  <2> QED
    BY <1>1, <2>2, <2>3 DEF Blocked, ChunkLineBlocked, LimitErrors
<1>5. ASSUME TrailerStep, result' # result, result' \in LimitErrors \cup {"ChunkLineTooLong"}
      PROVE  Blocked'
  <2>1. PICK p \in LineEnds(buf) : p > 0 /\ TrailerLine(p)
    BY <1>5 DEF TrailerStep, TrailersReturn, LimitErrors
  <2>2. /\ p > MaxHeaderLine \/ trailer_count >= MaxHeaders
        /\ UNCHANGED <<buf, trailer_count>> /\ phase' = phase /\ result' \in LimitErrors
    <3>1. ~(result' = "InvalidData")
      BY <1>5 DEF LimitErrors
    <3> QED
      BY <1>5, <2>1, <3>1 DEF TrailerLine, TrailersReturn, LimitErrors
  <2>3. phase = "ChunkedTrailer"
    BY <1>5 DEF TrailerStep, Blocked
  <2> QED
    BY <1>1, <2>1, <2>2, <2>3 DEF Blocked, TrailerBlocked, LimitErrors
<1>6. ASSUME NEW n \in FeedSizes, Feed(n) PROVE result' = "none"
  BY <1>6 DEF Feed
<1>7. CASE UNCHANGED bodyVars
  BY <1>2, <1>7 DEF bodyVars
<1> QED
  BY <1>2, <1>3, <1>4, <1>5, <1>6, <1>7 DEF BodyNext, LimitErrors

LEMMA BlockedInvariant == BodySpec => []Blocked
<1>1. BodyInit => Blocked
  BY DEF BodyInit, Blocked, LimitErrors
<1> QED
  BY <1>1, BlockedStep, BodyInvariant, PTL DEF BodySpec

\* The refusal of a line because of a limit is final: no feed and no call that
\* follows takes the decoder past the line, so that the bytes behind it are never
\* taken for a body or for the next message.
THEOREM BodyRefusalFinal == BodySpec => LimitRefusalFinal
<1>3. ChunkLineBlocked => phase = "BodyChunkedSize"
  BY DEF ChunkLineBlocked
<1>4. TrailerBlocked => phase = "ChunkedTrailer"
  BY DEF TrailerBlocked
<1>5. Blocked => /\ result = "ChunkLineTooLong" => ChunkLineBlocked
                 /\ result \in {"HeaderLineTooLong", "TooManyHeaders"} => TrailerBlocked
  BY DEF Blocked, LimitErrors
<1> QED
  BY <1>3, <1>4, <1>5, BodyInvariant, BlockedInvariant, ChunkLineStaysBlocked, TrailerStaysBlocked, PTL
     DEF BodySpec, LimitRefusalFinal

-----------------------------------------------------------------------------
\* The steps that take bytes out of the buffer account for each of them.
LEMMA FeedAccounted ==
    ASSUME BodyTypeOK, NEW n \in FeedSizes, Feed(n)
    PROVE  Accounted
<1>1. n \in Nat /\ sent \in Nat /\ Len(wire) \in Nat /\ sent + n <= Len(wire)
  BY BodyLengths, BodyAssumption DEF Feed
<1>2. sent' \in sent..Len(wire)
  BY <1>1 DEF Feed
<1>3. TakesInput
  BY <1>2 DEF TakesInput, Feed, historyVars
<1> QED
  BY <1>3 DEF Accounted

LEMMA ConsumeBodyAccounted ==
    ASSUME BodyTypeOK, NEW len \in Nat, ConsumeBody(len)
    PROVE  Accounted
<1>1. ASSUME NEW value, Returns(value) PROVE Accounted
  BY <1>1 DEF Returns, inputVars, Accounted
<1>2. CASE ConsumeTooMuch(len) \/ ProgressInData \/ NotInBody
  BY <1>1, <1>2 DEF ConsumeTooMuch, ProgressInData, NotInBody
<1>3. CASE ConsumeComplete \/ ProcessTrailers
  BY <1>3 DEF ConsumeComplete, ProcessTrailers, inputVars, historyVars, Accounted
<1>4. ASSUME OnOffer(len) PROVE len \in 0..Len(buf)
  BY <1>4, BodyLengths DEF OnOffer
<1>5. ASSUME OnOffer(len), Deliver(len), buf' = Suffix(buf, len) PROVE Accounted
  BY <1>4, <1>5 DEF Deliver, DeliversBody, Accounted
<1>6. CASE ConsumeContentLength(len)
  BY <1>5, <1>6 DEF ConsumeContentLength
<1>7. CASE ConsumeCloseDelimited(len)
  BY <1>1, <1>5, <1>7 DEF ConsumeCloseDelimited
<1>8. CASE ConsumeChunkedData(len)
  <2>1. OnOffer(len) /\ Deliver(len) /\ phase = "BodyChunkedData"
    BY <1>8 DEF ConsumeChunkedData
  <2>2. CASE buf' = Suffix(buf, len)
    BY <1>5, <2>1, <2>2
  <2>3. CASE buf' # Suffix(buf, len)
    <3>1. len = remaining /\ AfterChunkData(Suffix(buf, len))
      BY <1>8, <2>3 DEF ConsumeChunkedData
    <3>2. CrlfAt(Suffix(buf, len), 0) /\ buf' = Suffix(Suffix(buf, len), 2)
      BY <2>3, <3>1 DEF AfterChunkData
    <3> QED
      BY <1>4, <2>1, <3>1, <3>2 DEF Deliver, DeliversBody, Accounted
  <2> QED
    BY <2>2, <2>3
<1>9. CASE ProcessDataCrlf
  <2>1. phase = "BodyChunkedDataCrlf" /\ UNCHANGED <<wire, sent, body>>
    BY <1>9 DEF ProcessDataCrlf
  <2>2. buf' = buf \/ (CrlfAt(buf, 0) /\ buf' = Suffix(buf, 2))
    BY <1>9 DEF ProcessDataCrlf, AfterChunkData
  <2> QED
    BY <2>1, <2>2 DEF ReadsCrlf, Accounted
<1>10. CASE ProcessChunkedSize
  <2>1. CASE \E value : Returns(value)
    BY <1>1, <2>1
  <2>2. CASE ~\E value : Returns(value)
    <3>1. PICK pos \in LineEnds(buf) :
            /\ buf' = Suffix(buf, pos + 2) /\ UNCHANGED <<wire, sent, body>>
            /\ \/ phase' = "ChunkedTrailer" /\ ChunkSize(Prefix(buf, pos)) = 0
               \/ phase' = "BodyChunkedData" /\ remaining' = ChunkSize(Prefix(buf, pos))
               \/ result' = "BodyTooLarge"
      BY <1>10, <2>2 DEF ProcessChunkedSize, RefuseChunkLine
    <3>2. ReadsChunkLine
      BY <1>10, <3>1 DEF ReadsChunkLine, ProcessChunkedSize
    <3> QED
      BY <3>1, <3>2 DEF Accounted
  <2> QED
    BY <2>1, <2>2
<1> QED
  BY <1>2, <1>3, <1>6, <1>7, <1>8, <1>9, <1>10 DEF ConsumeBody

LEMMA TrailerStepAccounted ==
    ASSUME BodyTypeOK, phase = "ChunkedTrailer", TrailerStep
    PROVE  Accounted
<1>1. UNCHANGED <<wire, sent, body>>
  BY DEF TrailerStep, TrailerLine, TrailersReturn, historyVars
<1>2. CASE buf' = buf
  BY <1>1, <1>2 DEF Accounted
<1>3. CASE 0 \in LineEnds(buf) /\ buf' = Suffix(buf, 2) /\ phase' = "Complete"
             /\ given' = given \o trailers
  <2>1. Suffix(buf, 0 + 2) = Suffix(buf, 2)
    OBVIOUS
  <2>2. ReadsTrailerLine
    BY <1>1, <1>3, <2>1 DEF ReadsTrailerLine
  <2> QED
    BY <1>1, <2>2 DEF Accounted
<1>4. ASSUME NEW pos \in LineEnds(buf), pos > 0, TrailerLine(pos), buf' # buf
      PROVE  Accounted
  <2>1. buf' = Suffix(buf, pos + 2)
    BY <1>4 DEF TrailerLine
  <2>2. \/ result' = "InvalidData"
        \/ \E f \in ParseHeaderLine(Prefix(buf, pos)) : trailers' = Append(trailers, f)
    BY <1>4 DEF TrailerLine, TrailersReturn, AdmittedTrailers
  <2>3. ReadsTrailerLine
    BY <1>1, <1>4, <2>1, <2>2 DEF ReadsTrailerLine
  <2> QED
    BY <1>1, <2>3 DEF Accounted
<1> QED
  BY <1>2, <1>3, <1>4 DEF TrailerStep

\* No sequence of feeds and calls, failing ones included, makes the decoder
\* repeat, invent or skip a byte of its input: the buffer is the undrained end
\* of what was fed, and what a step takes out of it is body that is delivered
\* or framing that the decoder has taken over or refused.
THEOREM BodyInputAccounted == BodySpec => []InputIntact /\ InputAccounted
<1>1. BodyInv /\ Blocked /\ [BodyNext]_bodyVars => [Accounted]_bodyVars
  <2> SUFFICES ASSUME BodyInv, Blocked, BodyNext PROVE Accounted
    OBVIOUS
  <2>1. BodyTypeOK
    BY DEF BodyInv
  <2>2. ASSUME NEW n \in FeedSizes, Feed(n) PROVE Accounted
    BY <2>1, <2>2, FeedAccounted
  <2>3. ASSUME NEW len \in 0..(Len(buf) + 1), ConsumeBody(len) PROVE Accounted
    <3>1. len \in Nat
      BY <2>1, BodyLengths
    <3> QED
      BY <2>1, <2>3, <3>1, ConsumeBodyAccounted
  <2>4. CASE TrailerStep
    <3>1. phase = "ChunkedTrailer"
      BY <2>4 DEF TrailerStep, Blocked
    <3> QED
      BY <2>1, <2>4, <3>1, TrailerStepAccounted
  <2> QED
    BY <2>2, <2>3, <2>4 DEF BodyNext
<1>2. BodyInv => InputIntact
  BY DEF BodyInv
<1> QED
  BY <1>1, <1>2, BodyInvariant, BlockedInvariant, PTL DEF BodySpec, InputAccounted
=============================================================================
