-------------------------- MODULE HeadDecoder_proofs --------------------------
(***************************************************************************)
(* Proofs about RequestDecoder and ResponseDecoder: for every alphabet,    *)
(* every wire and every setting of the limits, and for callers that use    *)
(* either API or both.                                                     *)
(*                                                                         *)
(* The invariants that the runs check are not inductive.  HeadFresh and    *)
(* DecodeLoop strengthen them: a header section always starts from a body  *)
(* decoder that was reset, so that a new framing starts from zero, and the *)
(* loop of decode() is left through its finish only when the message is    *)
(* complete, so that it finds no header section half-read.                 *)
(*                                                                         *)
(* The steps that the two decoders share come first, then those of each.   *)
(***************************************************************************)
EXTENDS RequestDecoder, ResponseDecoder, BodyDecoder_proofs

\* Nothing of the previous message is left when a header section is read.
HeadFresh ==
    phase \in {"StartLine", "Headers"} =>
        /\ trailers = << >> /\ given = << >> /\ body = << >>
        /\ body_consumed = 0 /\ trailer_count = 0

\* Where the loop of decode() can be.
DecodeLoop ==
    /\ result = "Complete" => phase = "Complete"
    /\ decoding \in {"body", "closing"} => call = "idle"
    /\ decoded_body_kind = "None" => decoding = "body" /\ phase = "Complete"

\* The types of what HeadDecoder adds.
HeadTypes ==
    /\ start_line \in DOMAIN StartLine \cup {"none"}
    /\ headers \in Seq(DOMAIN Field)
    /\ decoded_body \in Seq(Bytes)
    /\ decoding \in {"no", "head", "body", "consumed", "progressed", "closing"}
    /\ taken \in Seq(Bytes)

HeadInv == HeadTypes /\ UnwrapsSafe /\ HeadFresh /\ DecodeLoop

DecoderInv == BodyInv /\ HeadInv

-----------------------------------------------------------------------------
\* What the end of a header section may decide.
Bounded(k) ==
    /\ k.kind \in KindErrors
                   \cup {"ContentLength", "Chunked", "None", "Tunnel", "CloseDelimited"}
    /\ k.kind \notin KindErrors => k.len \in Nat /\ k.len <= MaxBody

\* A step of decode_headers: it may drain the buffer, and choose a framing
\* whose length is within the limit.
LEMMA HeadStepBody ==
    ASSUME BodyInv, HeadFresh, phase \in {"StartLine", "Headers"},
           buf' \in Seq(Bytes), InputIntact',
           UNCHANGED <<wire, sent, trailers, body_consumed, trailer_count,
                       advanced, body, given>>,
           phase' \in Phases, remaining' \in Nat,
           phase' \in {"BodyContentLength", "BodyChunkedData"}
               => remaining' > 0 /\ remaining' <= MaxBody,
           call' \in {"idle", "headers", "trailers"},
           result' \in Results, failed' \in BOOLEAN
    PROVE  BodyInv'
<1>1. /\ trailers = << >> /\ given = << >> /\ body = << >>
      /\ body_consumed = 0 /\ trailer_count = 0
  BY DEF HeadFresh
<1>2. BodyTypeOK'
  BY DEF BodyInv, BodyTypeOK
<1>3. WithinLimit'
  <2>1. body_consumed' = 0 /\ body' = << >> /\ Len(<< >>) = 0 /\ MaxBody \in Nat
    BY <1>1, EmptySeq, BodyAssumption, ChunkLineAssumption
  <2>2. 0 = Len(<< >>) /\ 0 <= MaxBody
    BY <2>1
  <2>3. \A r \in Nat : r <= MaxBody => 0 + r <= MaxBody
    BY <2>1
  <2> QED
    BY <2>1, <2>2, <2>3, Zenon DEF WithinLimit
<1>4. TrailersAdmitted'
  <2>1. /\ trailers' = << >> /\ given' = << >> /\ trailer_count' = 0
        /\ Len(<< >>) = 0 /\ DOMAIN << >> = {} /\ MaxHeaders \in Nat
    BY <1>1, EmptySeq, BodyAssumption
  <2> QED
    BY <2>1 DEF TrailersAdmitted
<1> QED
  BY <1>2, <1>3, <1>4 DEF BodyInv

\* The body decoder is reset in front of a new message.
LEMMA FreshBody ==
    ASSUME wire' \in Seq(Bytes), sent' \in 0..Len(wire'), buf' \in Seq(Bytes),
           InputIntact', ResetDecoder, phase' = "StartLine", remaining' \in Nat,
           call' \in {"idle", "headers", "trailers"}, advanced' \in BOOLEAN,
           result' \in Results, failed' \in BOOLEAN
    PROVE  BodyInv' /\ HeadFresh'
<1>1. /\ trailers' = << >> /\ given' = << >> /\ body' = << >>
      /\ body_consumed' = 0 /\ trailer_count' = 0
  BY DEF ResetDecoder
<1>2. /\ Len(<< >>) = 0 /\ DOMAIN << >> = {}
      /\ << >> \in Seq(Bytes) /\ << >> \in Seq(DOMAIN Field)
  BY EmptySeq
<1>3. MaxBody \in Nat /\ MaxHeaders \in Nat /\ UsizeMax \in Nat
  BY BodyAssumption, ChunkLineAssumption
<1>4. BodyTypeOK'
  <2>1. body_consumed' \in 0..UsizeMax /\ trailer_count' \in Nat
    BY <1>1, <1>3
  <2>2. /\ trailers' \in Seq(DOMAIN Field) /\ given' \in Seq(DOMAIN Field)
        /\ body' \in Seq(Bytes)
    BY <1>1, <1>2
  <2>3. phase' \in Phases
    BY DEF Phases
  <2> QED
    BY <2>1, <2>2, <2>3 DEF BodyTypeOK
<1>5. WithinLimit'
  BY <1>1, <1>2, <1>3 DEF WithinLimit
<1>6. TrailersAdmitted'
  BY <1>1, <1>2, <1>3 DEF TrailersAdmitted
<1>7. HeadFresh'
  BY <1>1 DEF HeadFresh
<1> QED
  BY <1>4, <1>5, <1>6, <1>7 DEF BodyInv

\* Consuming what peek_body offers does not enter the trailers.
LEMMA OfferConsumed ==
    ASSUME call = "idle", PeekLen > 0, ConsumeBody(PeekLen)
    PROVE  call' = "idle"
<1>1. phase \in {"BodyContentLength", "BodyChunkedData", "BodyCloseDelimited"}
  BY DEF PeekLen
<1> HIDE DEF PeekLen
<1>2. \/ ConsumeTooMuch(PeekLen) \/ ProgressInData
      \/ ConsumeContentLength(PeekLen) \/ ConsumeChunkedData(PeekLen)
      \/ ConsumeCloseDelimited(PeekLen)
  BY <1>1 DEF ConsumeBody, ProcessChunkedSize, ProcessDataCrlf, ProcessTrailers,
              ConsumeComplete, NotInBody
<1> QED
  BY <1>2 DEF ConsumeTooMuch, ProgressInData, ConsumeContentLength, ConsumeChunkedData,
              ConsumeCloseDelimited, Deliver, Returns

-----------------------------------------------------------------------------
\* The values a step may return.
LEMMA SomeResults ==
    /\ WireErrors \subseteq Results /\ KindErrors \subseteq WireErrors
    /\ {"none", "Advanced", "NeedData", "Complete", "Misuse", "Head", "Message"} \subseteq Results
    /\ {"InvalidData", "HeaderLineTooLong", "TooManyHeaders"} \subseteq WireErrors
    /\ "Complete" \notin WireErrors
    /\ {"none", "ContentLength", "Chunked", "None", "Tunnel", "CloseDelimited"} \cap WireErrors = {}
  BY DEF Results, WireErrors, KindErrors

\* decode_headers returns without a head, having drained a line or not.
LEMMA HeadReturnsPreserves ==
    ASSUME DecoderInv, phase \in {"StartLine", "Headers"},
           decoding \in {"no", "head"},
           NEW value \in WireErrors \cup {"NeedData"}, HeadReturns(value),
           buf' \in Seq(Bytes), InputIntact', phase' = phase, UNCHANGED sectionVars
    PROVE  DecoderInv'
<1>1. BodyInv /\ HeadTypes /\ UnwrapsSafe /\ HeadFresh /\ DecodeLoop
  BY DEF DecoderInv, HeadInv
<1>2. /\ call' = "idle" /\ decoding' = "no" /\ result' = value
      /\ failed' = (failed \/ value \in WireErrors)
      /\ UNCHANGED <<wire, sent, remaining, trailers, body_consumed, trailer_count,
                     advanced, body, given, decoded_head, decoded_body_kind,
                     decoded_body, taken>>
      /\ UNCHANGED <<start_line, headers>>
  BY DEF HeadReturns, decoderVars, sectionVars
<1>3. BodyInv'
  <2>1. phase' \in Phases /\ phase' \notin {"BodyContentLength", "BodyChunkedData"}
    BY DEF Phases
  <2>2. remaining' \in Nat /\ failed' \in BOOLEAN
    BY <1>1, <1>2 DEF BodyInv, BodyTypeOK
  <2>3. result' \in Results
    BY <1>2, SomeResults
  <2> QED
    BY <1>1, <1>2, <2>1, <2>2, <2>3, HeadStepBody
<1>4. HeadTypes'
  BY <1>1, <1>2 DEF HeadTypes
<1>5. UnwrapsSafe'
  BY <1>1, <1>2 DEF UnwrapsSafe
<1>6. HeadFresh'
  BY <1>1, <1>2 DEF HeadFresh
<1>7. DecodeLoop'
  BY <1>1, <1>2, SomeResults DEF DecodeLoop
<1> QED
  BY <1>3, <1>4, <1>5, <1>6, <1>7 DEF DecoderInv, HeadInv

\* decode_headers goes on to a header line.
LEMMA HeadContinuesPreserves ==
    ASSUME DecoderInv, phase \in {"StartLine", "Headers"},
           decoding \in {"no", "head"}, HeadContinues,
           buf' \in Seq(Bytes), InputIntact', phase' = "Headers",
           start_line' \in DOMAIN StartLine,
           headers' \in Seq(DOMAIN Field), Len(headers') <= MaxHeaders,
           UNCHANGED <<decoderVars, body, given, done>>
    PROVE  DecoderInv'
<1>1. BodyInv /\ HeadTypes /\ UnwrapsSafe /\ HeadFresh /\ DecodeLoop
  BY DEF DecoderInv, HeadInv
<1>2. /\ call' = "headers" /\ result' = "none"
      /\ UNCHANGED <<wire, sent, remaining, advanced, failed>>
      /\ UNCHANGED <<trailers, body_consumed, trailer_count, body, given>>
      /\ UNCHANGED <<decoded_head, decoded_body_kind, decoded_body, decoding, taken>>
  BY DEF HeadContinues, decoderVars, decodeVars
<1>3. BodyInv'
  <2>1. phase' \in Phases /\ phase' \notin {"BodyContentLength", "BodyChunkedData"}
    BY DEF Phases
  <2>2. remaining' \in Nat /\ failed' \in BOOLEAN
    BY <1>1, <1>2 DEF BodyInv, BodyTypeOK
  <2>3. result' \in Results
    BY <1>2, SomeResults
  <2> QED
    BY <1>1, <1>2, <2>1, <2>2, <2>3, HeadStepBody
<1>4. HeadTypes'
  BY <1>1, <1>2 DEF HeadTypes
<1>5. UnwrapsSafe'
  BY <1>1, <1>2, HeadAssumption DEF UnwrapsSafe
<1>6. HeadFresh'
  BY <1>1, <1>2 DEF HeadFresh
<1>7. DecodeLoop'
  BY <1>1, <1>2 DEF DecodeLoop
<1> QED
  BY <1>3, <1>4, <1>5, <1>6, <1>7 DEF DecoderInv, HeadInv

LEMMA StartLinePreserves ==
    ASSUME DecoderInv, decoding \in {"no", "head"},
           NEW valid \in SUBSET DOMAIN StartLine, StartLineStep(valid)
    PROVE  DecoderInv'
<1>1. BodyTypeOK /\ InputIntact /\ UnwrapsSafe /\ HeadTypes /\ phase = "StartLine"
  BY DEF DecoderInv, BodyInv, HeadInv, StartLineStep
<1>2. /\ "NeedData" \in WireErrors \cup {"NeedData"}
      /\ "InvalidData" \in WireErrors \cup {"NeedData"}
  BY SomeResults
<1>3. ASSUME NEW value \in WireErrors \cup {"NeedData"}, HeadReturns(value),
             UNCHANGED <<buf, phase, sectionVars>>
      PROVE  DecoderInv'
  <2>1. wire' = wire /\ sent' = sent
    BY <1>3 DEF HeadReturns
  <2>2. buf' \in Seq(Bytes) /\ InputIntact'
    BY <1>1, <1>3, <2>1 DEF BodyTypeOK, InputIntact
  <2> QED
    BY <1>1, <1>3, <2>2, HeadReturnsPreserves
<1>4. ASSUME NEW pos \in LineEnds(buf), buf' = Suffix(buf, pos + 2),
             HeadReturns("InvalidData"), UNCHANGED <<phase, sectionVars>>
      PROVE  DecoderInv'
  <2>1. wire' = wire /\ sent' = sent
    BY <1>4 DEF HeadReturns
  <2>2. pos + 2 \in Nat /\ pos + 2 <= Len(buf)
    BY <1>1, LineInBuffer
  <2>3. buf' \in Seq(Bytes) /\ InputIntact'
    BY <1>1, <1>4, <2>1, <2>2, DrainBuf
  <2> QED
    BY <1>1, <1>2, <1>4, <2>3, HeadReturnsPreserves
<1>5. ASSUME NEW pos \in LineEnds(buf), buf' = Suffix(buf, pos + 2),
             NEW s \in valid, start_line' = s, phase' = "Headers",
             HeadContinues, UNCHANGED <<headers, decoderVars, body, given, done>>
      PROVE  DecoderInv'
  <2>1. wire' = wire /\ sent' = sent
    BY <1>5 DEF HeadContinues
  <2>2. pos + 2 \in Nat /\ pos + 2 <= Len(buf)
    BY <1>1, LineInBuffer
  <2>3. buf' \in Seq(Bytes) /\ InputIntact'
    BY <1>1, <1>5, <2>1, <2>2, DrainBuf
  <2>4. start_line' \in DOMAIN StartLine
    BY <1>5
  <2>5. headers' \in Seq(DOMAIN Field) /\ Len(headers') <= MaxHeaders
    BY <1>1, <1>5 DEF HeadTypes, UnwrapsSafe
  <2> QED
    BY <1>1, <1>5, <2>3, <2>4, <2>5, HeadContinuesPreserves
<1> QED
  BY <1>2, <1>3, <1>4, <1>5 DEF StartLineStep

LEMMA HeaderLinePreserves ==
    ASSUME DecoderInv, decoding \in {"no", "head"}, HeaderLineStep
    PROVE  DecoderInv'
<1>1. BodyTypeOK /\ InputIntact /\ UnwrapsSafe /\ HeadTypes /\ phase = "Headers"
  BY DEF DecoderInv, BodyInv, HeadInv, HeaderLineStep
<1>2. {"NeedData", "InvalidData", "HeaderLineTooLong", "TooManyHeaders"}
        \subseteq WireErrors \cup {"NeedData"}
  BY SomeResults
<1>3. ASSUME NEW value \in WireErrors \cup {"NeedData"}, HeadReturns(value),
             UNCHANGED <<buf, phase, sectionVars>>
      PROVE  DecoderInv'
  <2>1. wire' = wire /\ sent' = sent
    BY <1>3 DEF HeadReturns
  <2>2. buf' \in Seq(Bytes) /\ InputIntact'
    BY <1>1, <1>3, <2>1 DEF BodyTypeOK, InputIntact
  <2> QED
    BY <1>1, <1>3, <2>2, HeadReturnsPreserves
<1>4. ASSUME NEW pos \in LineEnds(buf), buf' = Suffix(buf, pos + 2),
             HeadReturns("InvalidData"), UNCHANGED <<phase, start_line>>, UNCHANGED headers
      PROVE  DecoderInv'
  <2>1. wire' = wire /\ sent' = sent
    BY <1>4 DEF HeadReturns
  <2>2. pos + 2 \in Nat /\ pos + 2 <= Len(buf)
    BY <1>1, LineInBuffer
  <2>3. buf' \in Seq(Bytes) /\ InputIntact'
    BY <1>1, <1>4, <2>1, <2>2, DrainBuf
  <2> QED
    BY <1>1, <1>2, <1>4, <2>3, HeadReturnsPreserves DEF sectionVars
<1>5. ASSUME NEW pos \in LineEnds(buf), buf' = Suffix(buf, pos + 2),
             Len(headers) < MaxHeaders, UNCHANGED <<phase, start_line>>,
             NEW f \in DOMAIN Field, headers' = Append(headers, f),
             HeadContinues, UNCHANGED <<decoderVars, body, given, done>>
      PROVE  DecoderInv'
  <2>1. wire' = wire /\ sent' = sent
    BY <1>5 DEF HeadContinues
  <2>2. pos + 2 \in Nat /\ pos + 2 <= Len(buf)
    BY <1>1, LineInBuffer
  <2>3. buf' \in Seq(Bytes) /\ InputIntact'
    BY <1>1, <1>5, <2>1, <2>2, DrainBuf
  <2>4. start_line' \in DOMAIN StartLine
    BY <1>1, <1>5 DEF HeadTypes, UnwrapsSafe
  <2>5. headers' \in Seq(DOMAIN Field) /\ Len(headers') = Len(headers) + 1
    BY <1>1, <1>5, AppendProperties DEF HeadTypes
  <2>6. Len(headers') <= MaxHeaders
    <3>1. Len(headers) \in Nat /\ MaxHeaders \in Nat
      BY <1>1, LenProperties, BodyAssumption DEF HeadTypes
    <3> QED
      BY <1>5, <2>5, <3>1
  <2> QED
    BY <1>1, <1>5, <2>3, <2>4, <2>5, <2>6, HeadContinuesPreserves
<1>6. ASSUME NEW line, NEW f \in ParseHeaderLine(line) PROVE f \in DOMAIN Field
  BY <1>6 DEF ParseHeaderLine
<1>7. ASSUME NEW pos \in LineEnds(buf) \ {0},
             LET line == Prefix(buf, pos)
                 refusal == IF pos > MaxHeaderLine THEN "HeaderLineTooLong"
                            ELSE IF Len(headers) >= MaxHeaders THEN "TooManyHeaders"
                            ELSE "InvalidData"
             IN  \/ /\ \/ pos > MaxHeaderLine \/ Len(headers) >= MaxHeaders
                       \/ ~IsUtf8(line)
                    /\ HeadReturns(refusal)
                    /\ UNCHANGED <<buf, phase, sectionVars>>
                 \/ /\ pos <= MaxHeaderLine /\ Len(headers) < MaxHeaders /\ IsUtf8(line)
                    /\ buf' = Suffix(buf, pos + 2)
                    /\ UNCHANGED <<phase, start_line>>
                    /\ \/ /\ ParseHeaderLine(line) = {}
                          /\ HeadReturns("InvalidData")
                          /\ UNCHANGED headers
                       \/ \E f \in ParseHeaderLine(line) :
                          /\ headers' = Append(headers, f)
                          /\ HeadContinues
                          /\ UNCHANGED <<decoderVars, body, given, done>>
      PROVE  DecoderInv'
  <2> DEFINE line == Prefix(buf, pos)
             refusal == IF pos > MaxHeaderLine THEN "HeaderLineTooLong"
                        ELSE IF Len(headers) >= MaxHeaders THEN "TooManyHeaders"
                        ELSE "InvalidData"
  <2>1. CASE HeadReturns(refusal) /\ UNCHANGED <<buf, phase, sectionVars>>
    <3>1. refusal \in WireErrors \cup {"NeedData"}
      BY <1>2
    <3> QED
      BY <1>3, <2>1, <3>1
  <2>2. CASE /\ buf' = Suffix(buf, pos + 2) /\ UNCHANGED <<phase, start_line>>
             /\ HeadReturns("InvalidData") /\ UNCHANGED headers
    BY <1>4, <2>2
  <2>3. CASE /\ Len(headers) < MaxHeaders
             /\ buf' = Suffix(buf, pos + 2) /\ UNCHANGED <<phase, start_line>>
             /\ \E f \in ParseHeaderLine(line) :
                   /\ headers' = Append(headers, f)
                   /\ HeadContinues
                   /\ UNCHANGED <<decoderVars, body, given, done>>
    BY <1>5, <1>6, <2>3
  <2> QED
    BY <1>7, <2>1, <2>2, <2>3
<1> QED
  BY <1>2, <1>3, <1>7 DEF HeaderLineStep

\* The end of a header section.
LEMMA HeaderEndPreserves ==
    ASSUME DecoderInv, decoding \in {"no", "head"},
           NEW k, Bounded(k), NEW fields, HeaderEndStep(k, fields)
    PROVE  DecoderInv'
<1>1. BodyInv /\ HeadTypes /\ UnwrapsSafe /\ HeadFresh /\ DecodeLoop
      /\ BodyTypeOK /\ InputIntact /\ phase = "Headers"
  BY DEF DecoderInv, BodyInv, HeadInv, HeaderEndStep
<1>2. /\ k.kind \in KindErrors \cup {"ContentLength", "Chunked", "None", "Tunnel", "CloseDelimited"}
      /\ k.kind \notin KindErrors => k.len \in Nat /\ k.len <= MaxBody
  BY DEF Bounded
<1>3. 0 \in LineEnds(buf) /\ buf' = Suffix(buf, 2) /\ wire' = wire /\ sent' = sent
  BY DEF HeaderEndStep, HeadReturns
<1>4. buf' \in Seq(Bytes) /\ InputIntact'
  <2>1. 2 \in Nat /\ 2 <= Len(buf)
    BY <1>1, <1>3, LineInBuffer
  <2> QED
    BY <1>1, <1>3, <2>1, DrainBuf
<1>5. CASE k.kind \in KindErrors
  <2>1. HeadReturns(k.kind) /\ phase' = phase /\ UNCHANGED sectionVars
    BY <1>5 DEF HeaderEndStep
  <2>2. k.kind \in WireErrors \cup {"NeedData"}
    BY <1>5, SomeResults
  <2> QED
    BY <1>1, <1>4, <2>1, <2>2, HeadReturnsPreserves
<1>6. CASE k.kind \notin KindErrors
  <2> DEFINE head == [line |-> start_line, headers |-> fields]
  <2>1. /\ IF decoding = "head"
             THEN /\ decoded_head' = <<head>> /\ decoded_body_kind' = k.kind
                  /\ decoding' = "body"
             ELSE UNCHANGED <<decoded_head, decoded_body_kind, decoding>>
        /\ phase' = PhaseOf(k) /\ remaining' = k.len
        /\ start_line' = "none" /\ headers' = << >>
        /\ call' = "idle" /\ result' = "Head"
        /\ UNCHANGED <<wire, sent, trailers, body_consumed, trailer_count,
                       advanced, decoded_body, taken>>
        /\ UNCHANGED <<body, given, failed>>
    BY <1>6 DEF HeaderEndStep, historyVars
  <2>2. k.kind \in {"ContentLength", "Chunked", "None", "Tunnel", "CloseDelimited"} /\ k.len \in Nat
        /\ k.len <= MaxBody
    BY <1>2, <1>6
  <2>3. /\ phase' \in {"BodyContentLength", "Complete", "BodyChunkedSize", "Tunnel",
                     "BodyCloseDelimited"}
        /\ phase' = "BodyContentLength" => k.len > 0
        /\ k.kind = "None" => phase' = "Complete"
    BY <2>1, <2>2 DEF PhaseOf
  <2>4. BodyInv'
    <3>1. phase' \in Phases /\ phase' # "BodyChunkedData"
      BY <2>3 DEF Phases, BodyPhases
    <3>2. remaining' \in Nat
          /\ (phase' = "BodyContentLength" => remaining' > 0 /\ remaining' <= MaxBody)
      BY <2>1, <2>2, <2>3
    <3>3. result' \in Results /\ failed' \in BOOLEAN
      BY <1>1, <2>1, SomeResults DEF BodyTypeOK
    <3> QED
      BY <1>1, <1>4, <2>1, <3>1, <3>2, <3>3, HeadStepBody
  <2>5. HeadTypes'
    BY <1>1, <2>1, EmptySeq DEF HeadTypes
  <2>6. UnwrapsSafe'
    <3>1. Len(headers') <= MaxHeaders
      <4>1. Len(<< >>) = 0 /\ MaxHeaders \in Nat
        BY EmptySeq, BodyAssumption
      <4>2. Len(<< >>) <= MaxHeaders
        BY <4>1
      <4> QED
        BY <2>1, <4>2, Zenon
    <3>2. <<head>> # << >>
      OBVIOUS
    <3> HIDE DEF head
    <3>3. (decoded_head' # << >>) <=> (decoded_body_kind' # "none")
      <4>1. CASE decoding = "head"
        <5>1. decoded_head' # << >>
          BY <2>1, <3>2, <4>1, Zenon
        <5>2. decoded_body_kind' # "none"
          BY <2>1, <2>2, <4>1
        <5> QED
          BY <5>1, <5>2
      <4>2. CASE decoding # "head"
        BY <1>1, <2>1, <4>2, Zenon DEF UnwrapsSafe
      <4> QED
        BY <4>1, <4>2
    <3>4. /\ decoding' # "head"
          /\ decoding' \notin {"no", "head"} => decoded_head' # << >>
      BY <1>1, <2>1, <3>2
    <3> QED
      BY <2>1, <2>3, <3>1, <3>3, <3>4 DEF UnwrapsSafe
  <2>7. HeadFresh'
    BY <2>3 DEF HeadFresh
  <2>8. DecodeLoop'
    BY <1>1, <2>1, <2>3 DEF DecodeLoop
  <2> QED
    BY <2>4, <2>5, <2>6, <2>7, <2>8 DEF DecoderInv, HeadInv
<1> QED
  BY <1>5, <1>6

\* decode_headers behind a finished message.
LEMMA NextMessagePreserves ==
    ASSUME DecoderInv, decoding = "no", NextMessageStep
    PROVE  DecoderInv'
<1>1. HeadTypes /\ UnwrapsSafe /\ DecodeLoop /\ BodyTypeOK /\ InputIntact
  BY DEF DecoderInv, BodyInv, HeadInv
<1>2. /\ phase' = "StartLine" /\ start_line' = "none" /\ headers' = << >>
      /\ ResetDecoder /\ call' = "headers" /\ result' = "none"
      /\ UNCHANGED <<wire, sent, buf, remaining, advanced, failed>>
      /\ UNCHANGED <<decoded_head, decoded_body_kind, decoded_body, decoding, taken>>
  BY DEF NextMessageStep, HeadContinues, decodeVars
<1>3. /\ wire' \in Seq(Bytes) /\ sent' \in 0..Len(wire') /\ buf' \in Seq(Bytes)
      /\ remaining' \in Nat /\ advanced' \in BOOLEAN /\ failed' \in BOOLEAN
      /\ InputIntact' /\ result' \in Results
  BY <1>1, <1>2, SomeResults DEF BodyTypeOK, InputIntact
<1>4. BodyInv' /\ HeadFresh'
  BY <1>2, <1>3, FreshBody
<1>5. HeadTypes'
  BY <1>1, <1>2, EmptySeq DEF HeadTypes
<1>6. UnwrapsSafe'
  <2>1. Len(<< >>) = 0 /\ MaxHeaders \in Nat
    BY EmptySeq, BodyAssumption
  <2>2. Len(<< >>) <= MaxHeaders
    BY <2>1
  <2>3. Len(headers') <= MaxHeaders
    BY <1>2, <2>2, Zenon
  <2> QED
    BY <1>1, <1>2, <2>3 DEF UnwrapsSafe
<1>7. DecodeLoop'
  BY <1>1, <1>2 DEF DecodeLoop
<1> QED
  BY <1>4, <1>5, <1>6, <1>7 DEF DecoderInv, HeadInv

\* decode_headers, called or in its loop.
LEMMA HeadStepPreserves ==
    ASSUME DecoderInv, Idle \/ call = "headers",
           NEW valid \in SUBSET DOMAIN StartLine, NEW k, Bounded(k), NEW fields,
           \/ StartLineStep(valid) \/ HeaderLineStep
           \/ HeaderEndStep(k, fields) \/ NextMessageStep
    PROVE  DecoderInv'
<1>1. UnwrapsSafe /\ HeadTypes
  BY DEF DecoderInv, HeadInv
<1>2. decoding \in {"no", "head"}
  BY <1>1 DEF UnwrapsSafe, HeadTypes, Idle
<1>3. ASSUME NextMessageStep PROVE decoding = "no"
  BY <1>1, <1>3 DEF UnwrapsSafe, NextMessageStep, Idle
<1> QED
  BY <1>2, <1>3, StartLinePreserves, HeaderLinePreserves, HeaderEndPreserves,
     NextMessagePreserves

-----------------------------------------------------------------------------
\* A call on the body that leaves the head decoder's variables alone.
LEMMA HeadAfterBody ==
    ASSUME HeadInv, BodyInv', UNCHANGED headVars,
           decoding # "head", decoded_body_kind # "None",
           decoding \in {"body", "closing"} => call' = "idle",
           phase' \in {"StartLine", "Headers"}
               => phase' = phase /\ UNCHANGED <<trailers, given, body,
                                                body_consumed, trailer_count>>,
           phase = "Headers" => phase' = "Headers",
           result' = "Complete" => phase' = "Complete",
           call' \in {"idle", "trailers"},
           call' = "trailers" => phase' = "ChunkedTrailer"
    PROVE  DecoderInv'
<1>1. HeadTypes /\ UnwrapsSafe /\ HeadFresh /\ DecodeLoop
  BY DEF HeadInv
<1>2. UNCHANGED <<start_line, headers, decoded_head, decoded_body_kind,
                  decoded_body, decoding, taken>>
  BY DEF headVars
<1>3. HeadTypes'
  BY <1>1, <1>2 DEF HeadTypes
<1>4. UnwrapsSafe'
  BY <1>1, <1>2 DEF UnwrapsSafe
<1>5. HeadFresh'
  BY <1>1 DEF HeadFresh
<1>6. DecodeLoop'
  BY <1>1, <1>2 DEF DecodeLoop
<1> QED
  BY <1>3, <1>4, <1>5, <1>6 DEF DecoderInv, HeadInv

\* A call that only returns a value, between two operations.
LEMMA IdleReturnsPreserves ==
    ASSUME DecoderInv, Idle, NEW value \in Results \ {"Complete"}, Returns(value),
           UNCHANGED headVars
    PROVE  DecoderInv'
<1>1. BodyInv /\ HeadInv /\ DecodeLoop /\ UnwrapsSafe
  BY DEF DecoderInv, HeadInv
<1>2. BodyInv'
  BY <1>1, ReturnsPreserves
<1>3. call = "idle" /\ decoding = "no" /\ decoded_body_kind # "None"
  BY <1>1 DEF Idle, DecodeLoop
<1>4. /\ UNCHANGED <<phase, call, trailers, given, body, body_consumed, trailer_count>>
      /\ result' # "Complete"
  BY DEF Returns, decoderVars
<1> QED
  BY <1>1, <1>2, <1>3, <1>4, HeadAfterBody

\* consume_body and progress of the streaming API.
LEMMA StreamPreserves ==
    ASSUME DecoderInv, Idle, NEW len \in Nat, ConsumeBody(len), UNCHANGED headVars
    PROVE  DecoderInv'
<1>1. BodyInv /\ HeadInv /\ DecodeLoop
  BY DEF DecoderInv, HeadInv
<1>2. BodyInv'
  BY <1>1, ConsumeBodyPreserves
<1>3. call = "idle" /\ decoding = "no" /\ decoded_body_kind # "None"
  BY <1>1 DEF Idle, DecodeLoop
<1> QED
  BY <1>1, <1>2, <1>3, ConsumeBodyEffect, HeadAfterBody

LEMMA TrailerLoopPreserves ==
    ASSUME DecoderInv, TrailerStep, UNCHANGED headVars
    PROVE  DecoderInv'
<1>1. BodyInv /\ HeadInv /\ UnwrapsSafe /\ DecodeLoop
  BY DEF DecoderInv, HeadInv
<1>2. call = "trailers"
  BY DEF TrailerStep
<1>3. BodyInv'
  BY <1>1, <1>2, TrailerStepPreserves
<1>4. /\ phase = "ChunkedTrailer" /\ result # "Complete"
      /\ decoding \notin {"head", "body", "closing"} /\ decoded_body_kind # "None"
  BY <1>1, <1>2 DEF UnwrapsSafe, DecodeLoop
<1> QED
  BY <1>1, <1>2, <1>3, <1>4, TrailerStepEffect, HeadAfterBody

LEMMA HeadFeedPreserves ==
    ASSUME DecoderInv, decoding = "no", NEW n \in FeedSizes, Feed(n), UNCHANGED headVars
    PROVE  DecoderInv'
<1>1. BodyInv /\ HeadInv /\ DecodeLoop
  BY DEF DecoderInv, HeadInv
<1>2. BodyInv'
  BY <1>1, FeedPreserves
<1>3. /\ call = "idle" /\ result' = "none"
      /\ UNCHANGED <<phase, call, trailers, given, body, body_consumed, trailer_count>>
  BY DEF Feed, decoderVars, historyVars
<1>4. decoded_body_kind # "None"
  BY <1>1 DEF DecodeLoop
<1> QED
  BY <1>1, <1>2, <1>3, <1>4, HeadAfterBody

-----------------------------------------------------------------------------
\* decode() starts, or resumes in the body.
LEMMA DecodeStartsPreserves ==
    ASSUME DecoderInv, DecodeStarts
    PROVE  DecoderInv'
<1>1. BodyInv /\ HeadTypes /\ UnwrapsSafe /\ HeadFresh /\ DecodeLoop
  BY DEF DecoderInv, HeadInv
<1>2. /\ call = "idle" /\ decoding = "no"
      /\ decoded_head # << >> \/ phase \in {"StartLine", "Headers"}
      /\ decoding' = IF decoded_head = << >> THEN "head" ELSE "body"
      /\ call' = IF decoded_head = << >> THEN "headers" ELSE "idle"
      /\ result' = "none"
      /\ UNCHANGED <<wire, sent, buf, phase, remaining, trailers, body_consumed,
                     trailer_count, declared_trailers, advanced>>
      /\ UNCHANGED <<body, given, failed>>
      /\ UNCHANGED <<start_line, headers, decoded_head, decoded_body_kind,
                     decoded_body, taken>>
  BY DEF DecodeStarts, Idle, inputVars, decoderVars, historyVars, sectionVars
<1>3. BodyInv'
  <2>1. BodyTypeOK'
    BY <1>1, <1>2, SomeResults DEF BodyInv, BodyTypeOK
  <2>2. InputIntact' /\ WithinLimit' /\ TrailersAdmitted'
    BY <1>1, <1>2 DEF BodyInv, InputIntact, WithinLimit, TrailersAdmitted
  <2> QED
    BY <2>1, <2>2 DEF BodyInv
<1>4. HeadTypes'
  BY <1>1, <1>2 DEF HeadTypes
<1>5. UnwrapsSafe'
  BY <1>1, <1>2 DEF UnwrapsSafe
<1>6. HeadFresh'
  BY <1>1, <1>2 DEF HeadFresh
<1>7. DecodeLoop'
  BY <1>1, <1>2 DEF DecodeLoop
<1> QED
  BY <1>3, <1>4, <1>5, <1>6, <1>7 DEF DecoderInv, HeadInv

\* The inner call of decode().
LEMMA DecodeInnerPreserves ==
    ASSUME DecoderInv, DecodeInner
    PROVE  DecoderInv'
<1>1. BodyInv /\ HeadTypes /\ UnwrapsSafe /\ HeadFresh /\ DecodeLoop /\ BodyTypeOK
  BY DEF DecoderInv, HeadInv, BodyInv
<1>2. /\ decoding = "body" /\ call = "idle"
      /\ decoded_body_kind \in {"ContentLength", "Chunked"}
      /\ decoded_body' = decoded_body \o Prefix(buf, PeekLen)
      /\ decoding' \in {"consumed", "progressed"}
      /\ ConsumeBody(PeekLen)
      /\ UNCHANGED <<start_line, headers, decoded_head, decoded_body_kind, taken>>
  BY DEF DecodeInner, sectionVars
<1>3. PeekLen \in Nat /\ PeekLen <= Len(buf)
  BY <1>1, BodyLengths DEF PeekLen, BodyTypeOK
<1>4. BodyInv'
  BY <1>1, <1>2, <1>3, ConsumeBodyPreserves
<1>5. /\ phase' \in {"StartLine", "Headers"}
           => phase' = phase /\ UNCHANGED <<trailers, given, body,
                                            body_consumed, trailer_count>>
      /\ phase = "Headers" => phase' = "Headers"
      /\ result' = "Complete" => phase' = "Complete"
      /\ call' \in {"idle", "trailers"}
      /\ call' = "trailers" => phase' = "ChunkedTrailer"
  BY <1>1, <1>2, <1>3, ConsumeBodyEffect
<1>6. HeadTypes'
  <2>1. SubSeq(buf, 1, PeekLen) \in Seq(Bytes)
    BY <1>1, <1>3, Slice DEF BodyTypeOK
  <2>2. decoded_body' \in Seq(Bytes)
    BY <1>1, <1>2, <2>1, ConcatProperties DEF HeadTypes, Prefix
  <2> QED
    BY <1>1, <1>2, <2>2 DEF HeadTypes
<1>7. UnwrapsSafe'
  BY <1>1, <1>2, <1>5 DEF UnwrapsSafe
<1>8. HeadFresh'
  BY <1>1, <1>5 DEF HeadFresh
<1>9. DecodeLoop'
  BY <1>1, <1>2, <1>5 DEF DecodeLoop
<1> QED
  BY <1>4, <1>6, <1>7, <1>8, <1>9 DEF DecoderInv, HeadInv

LEMMA DecodeAgainPreserves ==
    ASSUME DecoderInv, DecodeAgain
    PROVE  DecoderInv'
<1>1. BodyInv /\ HeadTypes /\ UnwrapsSafe /\ HeadFresh /\ DecodeLoop
  BY DEF DecoderInv, HeadInv
<1>2. /\ decoding \in {"consumed", "progressed"} /\ call = "idle"
      /\ decoding' = "body" /\ UNCHANGED bodyVars
      /\ UNCHANGED <<start_line, headers, decoded_head, decoded_body_kind,
                     decoded_body, taken>>
  BY DEF DecodeAgain, sectionVars
<1>3. BodyInv'
  BY <1>1, <1>2, BodyInvStep
<1>4. HeadTypes'
  BY <1>1, <1>2 DEF HeadTypes
<1>5. UnwrapsSafe'
  BY <1>1, <1>2 DEF UnwrapsSafe, bodyVars
<1>6. HeadFresh'
  BY <1>1, <1>2 DEF HeadFresh, bodyVars
<1>7. DecodeLoop'
  BY <1>1, <1>2 DEF DecodeLoop, bodyVars
<1> QED
  BY <1>3, <1>4, <1>5, <1>6, <1>7 DEF DecoderInv, HeadInv

\* decode() returns without a message, and keeps its head for the next call.
LEMMA DecodeReturnsPreserves ==
    ASSUME DecoderInv, call = "idle", decoding \notin {"no", "head"},
           decoded_body_kind # "None", NEW value \in Results,
           value = "Complete" => phase = "Complete", DecodeReturns(value)
    PROVE  DecoderInv'
<1>1. BodyInv /\ HeadTypes /\ UnwrapsSafe /\ HeadFresh /\ DecodeLoop
  BY DEF DecoderInv, HeadInv
<1>2. /\ decoding' = "no" /\ result' = value
      /\ Returns(value)
      /\ UNCHANGED <<phase, call, trailers, given, body, body_consumed, trailer_count>>
      /\ UNCHANGED <<start_line, headers, decoded_head, decoded_body_kind,
                     decoded_body, taken>>
  BY DEF DecodeReturns, Returns, sectionVars, decoderVars
<1>3. BodyInv'
  BY <1>1, <1>2, ReturnsPreserves
<1>4. HeadTypes'
  BY <1>1, <1>2 DEF HeadTypes
<1>5. UnwrapsSafe'
  BY <1>1, <1>2 DEF UnwrapsSafe
<1>6. HeadFresh'
  BY <1>1, <1>2 DEF HeadFresh
<1>7. DecodeLoop'
  BY <1>1, <1>2 DEF DecodeLoop
<1> QED
  BY <1>3, <1>4, <1>5, <1>6, <1>7 DEF DecoderInv, HeadInv

\* decode() returns the message: it is complete, so no header section is open.
LEMMA DecodeFinishPreserves ==
    ASSUME DecoderInv, DecodeFinish
    PROVE  DecoderInv'
<1>1. BodyTypeOK /\ InputIntact /\ HeadTypes /\ UnwrapsSafe /\ DecodeLoop
  BY DEF DecoderInv, HeadInv, BodyInv
<1>2. phase = "Complete" /\ call = "idle"
  BY <1>1 DEF DecodeFinish, DecodeFinished, DecodeLoop
<1>3. /\ phase' = "StartLine" /\ ResetDecoder /\ result' = "Message"
      /\ decoded_head' = << >> /\ decoded_body_kind' = "none"
      /\ decoded_body' = << >> /\ decoding' = "no"
      /\ UNCHANGED <<wire, sent, buf, remaining, call, advanced, failed>>
      /\ UNCHANGED <<start_line, headers, taken>>
  BY DEF DecodeFinish, inputVars, sectionVars
<1>4. /\ wire' \in Seq(Bytes) /\ sent' \in 0..Len(wire') /\ buf' \in Seq(Bytes)
      /\ remaining' \in Nat /\ advanced' \in BOOLEAN /\ failed' \in BOOLEAN
      /\ InputIntact' /\ result' \in Results
  BY <1>1, <1>3, SomeResults DEF BodyTypeOK, InputIntact
<1>5. BodyInv' /\ HeadFresh'
  BY <1>2, <1>3, <1>4, FreshBody
<1>6. HeadTypes'
  BY <1>1, <1>3, EmptySeq DEF HeadTypes
<1>7. UnwrapsSafe'
  BY <1>1, <1>2, <1>3 DEF UnwrapsSafe
<1>8. DecodeLoop'
  BY <1>3 DEF DecodeLoop
<1> QED
  BY <1>5, <1>6, <1>7, <1>8 DEF DecoderInv, HeadInv

\* An empty buffer is the end of whatever was fed.
LEMMA EmptyBuffer ==
    ASSUME wire' \in Seq(Bytes), sent' \in 0..Len(wire'), buf' = << >>
    PROVE  buf' \in Seq(Bytes) /\ InputIntact'
<1>1. Len(<< >>) = 0 /\ << >> \in Seq(Bytes) /\ MaxBuffer \in Nat /\ sent' \in Nat
  BY EmptySeq, BodyAssumption, LenProperties
<1>2. \A n \in Nat : n - 0 + 1 = n + 1 /\ n < n + 1 /\ n + 1 \in Int /\ n \in Int
  OBVIOUS
<1>3. \A w : \A n \in Nat : SubSeq(w, n + 1, n) = << >>
  BY <1>2, SubSeqEmpty
<1>4. Len(buf') = 0
  BY <1>1, Zenon
<1>5. \A n \in Nat : 0 <= n
  OBVIOUS
<1>6. Len(buf') <= sent' /\ Len(buf') <= MaxBuffer
  BY <1>1, <1>4, <1>5, Zenon
<1>7. SubSeq(wire', sent' - Len(buf') + 1, sent') = << >>
  <2>1. sent' - Len(buf') + 1 = sent' + 1
    BY <1>1, <1>2, <1>4, Zenon
  <2> QED
    BY <1>1, <1>3, <2>1, Zenon
<1> QED
  BY <1>1, <1>6, <1>7, Zenon DEF InputIntact

\* take_remaining.
LEMMA TakeRemainingPreserves ==
    ASSUME DecoderInv, TakeRemaining
    PROVE  DecoderInv'
<1>1. BodyInv /\ HeadTypes /\ UnwrapsSafe /\ HeadFresh /\ DecodeLoop /\ BodyTypeOK
  BY DEF DecoderInv, HeadInv, BodyInv
<1>2. /\ taken' = taken \o buf /\ buf' = << >> /\ result' = "none"
      /\ UNCHANGED <<wire, sent, phase, remaining, trailers, body_consumed,
                     trailer_count, declared_trailers, call, advanced>>
      /\ UNCHANGED <<body, given, failed>>
      /\ UNCHANGED <<start_line, headers>>
      /\ UNCHANGED <<decoded_head, decoded_body_kind, decoded_body, decoding>>
  BY DEF TakeRemaining, decoderVars, historyVars, sectionVars, decodeVars
<1>3. buf' \in Seq(Bytes) /\ InputIntact'
  <2>1. wire' \in Seq(Bytes) /\ sent' \in 0..Len(wire')
    BY <1>1, <1>2 DEF BodyTypeOK
  <2> QED
    BY <1>2, <2>1, EmptyBuffer
<1>4. BodyTypeOK'
  BY <1>1, <1>2, <1>3, SomeResults DEF BodyTypeOK
<1>5. WithinLimit' /\ TrailersAdmitted'
  BY <1>1, <1>2 DEF BodyInv, WithinLimit, TrailersAdmitted
<1>6. HeadTypes'
  <2>1. taken' \in Seq(Bytes)
    BY <1>1, <1>2, ConcatProperties DEF HeadTypes, BodyTypeOK
  <2> QED
    BY <1>1, <1>2, <2>1 DEF HeadTypes
<1>7. UnwrapsSafe'
  BY <1>1, <1>2 DEF UnwrapsSafe
<1>8. HeadFresh'
  BY <1>1, <1>2 DEF HeadFresh
<1>9. DecodeLoop'
  BY <1>1, <1>2 DEF DecodeLoop
<1> QED
  BY <1>3, <1>4, <1>5, <1>6, <1>7, <1>8, <1>9 DEF DecoderInv, BodyInv, HeadInv

\* The head decoder without a message: what new() and reset() leave.
HeadReset ==
    /\ phase = "StartLine" /\ start_line = "none" /\ headers = << >>
    /\ decoded_head = << >> /\ decoded_body_kind = "none" /\ decoded_body = << >>
    /\ call = "idle" /\ decoding = "no" /\ result = "none" /\ taken = << >>

LEMMA FreshHead == HeadReset => HeadTypes /\ UnwrapsSafe /\ DecodeLoop
<1> SUFFICES ASSUME HeadReset PROVE HeadTypes /\ UnwrapsSafe /\ DecodeLoop
  OBVIOUS
<1>1. Len(<< >>) = 0 /\ << >> \in Seq(Bytes) /\ << >> \in Seq(DOMAIN Field)
      /\ MaxHeaders \in Nat
  BY EmptySeq, BodyAssumption
<1>2. Len(<< >>) <= MaxHeaders
  BY <1>1
<1>3. Len(headers) <= MaxHeaders
  BY <1>2, Zenon DEF HeadReset
<1>4. HeadTypes
  BY <1>1 DEF HeadReset, HeadTypes
<1>5. UnwrapsSafe
  BY <1>3 DEF HeadReset, UnwrapsSafe
<1>6. DecodeLoop
  BY DEF HeadReset, DecodeLoop
<1> QED
  BY <1>4, <1>5, <1>6

\* What both forms of reset do to the state they share.
Resets ==
    /\ Idle
    /\ wire' = Suffix(wire, sent) /\ sent' = 0 /\ buf' = << >>
    /\ phase' = "StartLine" /\ remaining' = 0 /\ ResetDecoder
    /\ start_line' = "none" /\ headers' = << >>
    /\ decoded_head' = << >> /\ decoded_body_kind' = "none" /\ decoded_body' = << >>
    /\ failed' = FALSE /\ taken' = << >> /\ result' = "none"
    /\ UNCHANGED <<call, advanced, decoding>>

LEMMA ResetPreserves ==
    ASSUME DecoderInv, Resets
    PROVE  DecoderInv'
<1>1. BodyTypeOK
  BY DEF DecoderInv, BodyInv
<1>2. /\ call = "idle" /\ decoding = "no"
      /\ wire' = Suffix(wire, sent) /\ sent' = 0 /\ buf' = << >>
      /\ phase' = "StartLine" /\ remaining' = 0 /\ ResetDecoder
      /\ start_line' = "none" /\ headers' = << >>
      /\ decoded_head' = << >> /\ decoded_body_kind' = "none" /\ decoded_body' = << >>
      /\ failed' = FALSE /\ taken' = << >> /\ result' = "none"
      /\ UNCHANGED <<call, advanced, decoding>>
  BY DEF Resets, Idle
<1>3. wire' \in Seq(Bytes) /\ sent' \in 0..Len(wire')
  <2>1. wire \in Seq(Bytes) /\ sent \in Nat /\ sent <= Len(wire) /\ Len(wire) \in Nat
    BY <1>1, BodyLengths DEF BodyTypeOK
  <2>2. wire' \in Seq(Bytes)
    BY <1>2, <2>1, Slice DEF Suffix
  <2>3. Len(wire') \in Nat
    BY <2>2, LenProperties
  <2> QED
    BY <1>2, <2>2, <2>3
<1>4. buf' \in Seq(Bytes) /\ InputIntact'
  BY <1>2, <1>3, EmptyBuffer
<1>5. /\ remaining' \in Nat /\ failed' \in BOOLEAN
      /\ result' \in Results /\ call' = "idle" /\ decoding' = "no"
  BY <1>2, SomeResults
<1>6. BodyInv' /\ HeadFresh'
  <2>1. advanced' \in BOOLEAN
    BY <1>1, <1>2 DEF BodyTypeOK
  <2> QED
    BY <1>2, <1>3, <1>4, <1>5, <2>1, FreshBody
<1>7. HeadTypes' /\ UnwrapsSafe' /\ DecodeLoop'
  <2>1. HeadReset'
    BY <1>2, <1>5 DEF HeadReset
  <2> QED
    BY <2>1, FreshHead, PTL
<1> QED
  BY <1>6, <1>7 DEF DecoderInv, HeadInv

LEMMA DecoderInvInit == HeadInit => DecoderInv
<1> SUFFICES ASSUME HeadInit PROVE DecoderInv
  OBVIOUS
<1>1. BodyInit
  <2>1. {} \in SUBSET {Field[f].name : f \in DOMAIN Field}
    OBVIOUS
  <2> QED
    BY <2>1 DEF HeadInit, BodyInit, Phases
<1>2. BodyInv
  BY <1>1, BodyInvInit
<1>3. HeadTypes /\ UnwrapsSafe /\ DecodeLoop
  BY FreshHead DEF HeadReset, HeadInit
<1>4. HeadFresh
  BY DEF HeadInit, HeadFresh
<1> QED
  BY <1>2, <1>3, <1>4 DEF DecoderInv, HeadInv

\* decode() ends on the outcome of its inner call, or in front of a tunnel.
LEMMA DecodeStopsPreserves ==
    ASSUME DecoderInv, DecodeStops \/ DecodeTunnel
    PROVE  DecoderInv'
<1>1. "Misuse" \in Results
  BY SomeResults
<1>2. CASE DecodeStops
  <2>1. DecodeLoop /\ result \in Results
    BY DEF DecoderInv, HeadInv, BodyInv, BodyTypeOK
  <2>2. /\ decoding \in {"consumed", "progressed"} /\ call = "idle"
        /\ DecodeReturns(result)
    BY <1>2 DEF DecodeStops
  <2>3. decoded_body_kind # "None" /\ (result = "Complete" => phase = "Complete")
    BY <2>1, <2>2 DEF DecodeLoop
  <2> QED
    BY <2>1, <2>2, <2>3, DecodeReturnsPreserves
<1>3. CASE DecodeTunnel
  <2>1. /\ decoding = "body" /\ decoded_body_kind = "Tunnel" /\ DecodeReturns("Misuse")
        /\ call = "idle"
    BY <1>3 DEF DecodeTunnel, DecoderInv, HeadInv, DecodeLoop
  <2> QED
    BY <1>1, <2>1, DecodeReturnsPreserves
<1> QED
  BY <1>2, <1>3

\* A step that changes nothing of what the invariant speaks of.
LEMMA DecoderStutters ==
    ASSUME DecoderInv, UNCHANGED bodyVars, UNCHANGED headVars
    PROVE  DecoderInv'
<1>1. BodyInv'
  BY BodyInvStep DEF DecoderInv
<1>2. HeadInv'
  BY DEF bodyVars, headVars, DecoderInv, HeadInv, HeadTypes, UnwrapsSafe, HeadFresh,
         DecodeLoop
<1> QED
  BY <1>1, <1>2 DEF DecoderInv

LEMMA DecoderInvImplies ==
    DecoderInv => UnwrapsSafe /\ HeadTypeOK /\ WithinLimit /\ InputIntact /\ TrailersAdmitted
  BY DEF DecoderInv, HeadInv, HeadTypes, HeadTypeOK, BodyInv

-----------------------------------------------------------------------------
\* What the steps that both decoders share take out of the buffer.
LEMMA StillAccounted ==
    ASSUME UNCHANGED <<wire, sent, buf, body>>
    PROVE  HeadAccounted
  BY DEF HeadAccounted, Accounted

LEMMA HeadLineAccounted ==
    ASSUME DecoderInv,
           NEW valid \in SUBSET DOMAIN StartLine, NEW k, NEW fields,
           StartLineStep(valid) \/ HeaderLineStep \/ HeaderEndStep(k, fields)
    PROVE  HeadAccounted
<1>1. {"InvalidData"} \cup KindErrors \subseteq WireErrors
  BY SomeResults
<1>2. ASSUME NEW value, HeadReturns(value)
      PROVE  UNCHANGED <<wire, sent, body>> /\ result' = value
  BY <1>2 DEF HeadReturns
<1>3. ASSUME HeadContinues PROVE UNCHANGED <<wire, sent>>
  BY <1>3 DEF HeadContinues
<1>4. ASSUME NEW value, HeadReturns(value), UNCHANGED <<buf, phase, sectionVars>>
      PROVE  HeadAccounted
  BY <1>2, <1>4, StillAccounted
<1>5. ASSUME NEW pos \in LineEnds(buf), buf' = Suffix(buf, pos + 2),
             NEW value \in WireErrors, HeadReturns(value),
             phase \in {"StartLine", "Headers"}
      PROVE  HeadAccounted
  <2>1. ReadsHeadLine
    BY <1>2, <1>5 DEF ReadsHeadLine
  <2> QED
    BY <2>1 DEF HeadAccounted
<1>6. CASE StartLineStep(valid)
  <2>1. ASSUME NEW pos \in LineEnds(buf), buf' = Suffix(buf, pos + 2),
               NEW s \in valid, Prefix(buf, pos) = <<s>>, start_line' = s,
               phase' = "Headers", HeadContinues, body' = body
        PROVE  HeadAccounted
    <3>1. phase = "StartLine"
      BY <1>6 DEF StartLineStep
    <3>2. ReadsHeadLine
      BY <1>3, <2>1, <3>1 DEF ReadsHeadLine
    <3> QED
      BY <3>2 DEF HeadAccounted
  <2> QED
    BY <1>1, <1>4, <1>5, <1>6, <2>1 DEF StartLineStep
<1>7. CASE HeaderLineStep
  <2>1. ASSUME NEW pos \in LineEnds(buf) \ {0}, buf' = Suffix(buf, pos + 2),
               NEW f \in ParseHeaderLine(Prefix(buf, pos)), headers' = Append(headers, f),
               HeadContinues, body' = body
        PROVE  HeadAccounted
    <3>1. phase = "Headers"
      BY <1>7 DEF HeaderLineStep
    <3>2. pos \in LineEnds(buf) /\ pos > 0
      BY LineInBuffer DEF DecoderInv, BodyInv
    <3>3. ReadsHeadLine
      BY <1>3, <2>1, <3>1, <3>2 DEF ReadsHeadLine
    <3> QED
      BY <3>3 DEF HeadAccounted
  <2>2. CASE \E value : HeadReturns(value) /\ UNCHANGED <<buf, phase, sectionVars>>
    BY <1>4, <2>2
  <2>3. CASE ~\E value : HeadReturns(value) /\ UNCHANGED <<buf, phase, sectionVars>>
    <3>1. PICK pos \in LineEnds(buf) \ {0} :
            /\ buf' = Suffix(buf, pos + 2)
            /\ \/ HeadReturns("InvalidData")
               \/ \E f \in ParseHeaderLine(Prefix(buf, pos)) :
                     headers' = Append(headers, f) /\ HeadContinues /\ body' = body
      BY <1>7, <2>3 DEF HeaderLineStep
    <3>2. phase \in {"StartLine", "Headers"}
      BY <1>7 DEF HeaderLineStep
    <3> QED
      BY <1>1, <1>5, <2>1, <3>1, <3>2
  <2> QED
    BY <2>2, <2>3
<1>8. CASE HeaderEndStep(k, fields)
  <2>1. phase = "Headers" /\ 0 \in LineEnds(buf) /\ buf' = Suffix(buf, 0 + 2)
    BY <1>8 DEF HeaderEndStep
  <2>2. CASE k.kind \in KindErrors
    <3>1. HeadReturns(k.kind)
      BY <1>8, <2>2 DEF HeaderEndStep
    <3> QED
      BY <1>1, <1>5, <2>1, <2>2, <3>1
  <2>3. CASE k.kind \notin KindErrors
    <3>1. UNCHANGED <<wire, sent, body>> /\ result' = "Head"
      BY <1>8, <2>3 DEF HeaderEndStep, historyVars
    <3>2. ReadsHeadLine
      BY <2>1, <3>1 DEF ReadsHeadLine
    <3> QED
      BY <3>2 DEF HeadAccounted
  <2> QED
    BY <2>2, <2>3
<1> QED
  BY <1>6, <1>7, <1>8

LEMMA EndAccounted ==
    ASSUME NextMessageStep \/ DecodeFinish
    PROVE  HeadAccounted
<1>1. UNCHANGED inputVars /\ body' = << >> /\ phase' = "StartLine"
  BY DEF NextMessageStep, DecodeFinish, HeadContinues, ResetDecoder, inputVars
<1>2. \E b \in {body, decoded_body} : done' = Append(done, [body |-> b, trailers |-> given])
  BY DEF NextMessageStep, DecodeFinish
<1> QED
  BY <1>1, <1>2 DEF EndsMessage, HeadAccounted

LEMMA CallAccounted ==
    ASSUME DecoderInv, NEW len \in Nat, ConsumeBody(len) \/ Returns("Misuse")
    PROVE  HeadAccounted
<1>1. CASE Returns("Misuse")
  BY <1>1, StillAccounted DEF Returns, inputVars
<1>2. CASE ConsumeBody(len)
  BY <1>2, ConsumeBodyAccounted DEF DecoderInv, BodyInv, HeadAccounted
<1> QED
  BY <1>1, <1>2

LEMMA PeekAccounted ==
    ASSUME DecoderInv, ConsumeBody(PeekLen)
    PROVE  HeadAccounted
<1>1. PeekLen \in Nat
  BY BodyLengths DEF DecoderInv, BodyInv, BodyTypeOK, PeekLen
<1> QED
  BY <1>1, CallAccounted

LEMMA TrailerLoopAccounted ==
    ASSUME DecoderInv, TrailerStep
    PROVE  HeadAccounted
<1>1. BodyTypeOK /\ phase = "ChunkedTrailer"
  BY DEF DecoderInv, BodyInv, HeadInv, UnwrapsSafe, TrailerStep
<1> QED
  BY <1>1, TrailerStepAccounted DEF HeadAccounted

LEMMA FedAccounted ==
    ASSUME DecoderInv, NEW n \in FeedSizes, Feed(n)
    PROVE  HeadAccounted
  BY FeedAccounted DEF DecoderInv, BodyInv, HeadAccounted

LEMMA DecodeAccounted ==
    ASSUME DecoderInv,
           \/ DecodeRefused \/ DecodeStarts \/ DecodeInner \/ DecodeAgain
           \/ DecodeStops \/ DecodeFinish \/ DecodeTunnel
    PROVE  HeadAccounted
<1>1. CASE DecodeRefused
  BY <1>1, StillAccounted DEF DecodeRefused, Returns, inputVars
<1>2. CASE DecodeStarts
  BY <1>2, StillAccounted DEF DecodeStarts, inputVars, historyVars
<1>3. CASE DecodeInner
  BY <1>3, PeekAccounted DEF DecodeInner
<1>4. CASE DecodeAgain
  BY <1>4, StillAccounted DEF DecodeAgain, bodyVars
<1>5. CASE DecodeStops \/ DecodeTunnel
  BY <1>5, StillAccounted DEF DecodeStops, DecodeTunnel, DecodeReturns, inputVars
<1> QED
  BY <1>1, <1>2, <1>3, <1>4, <1>5, EndAccounted

LEMMA RestAccounted ==
    ASSUME TakeRemaining \/ Resets
    PROVE  HeadAccounted
<1>1. CASE TakeRemaining
  BY <1>1 DEF TakeRemaining, historyVars, TakesRest, HeadAccounted
<1>2. CASE Resets
  BY <1>2 DEF Resets, ResetDecoder, DropsRest, HeadAccounted
<1> QED
  BY <1>1, <1>2

-----------------------------------------------------------------------------
\* Content-Length values that agree are one number.
LEMMA HeadLengths ==
    ASSUME NEW hs \in Seq(DOMAIN Field), ContentLengthOk(hs), ContentLengths(hs) # {}
    PROVE  (CHOOSE n \in ContentLengths(hs) : TRUE) \in Nat
<1> DEFINE lengths == ContentLengths(hs)
<1>1. ASSUME NEW m \in lengths PROVE m \in Nat \cup {NotANumber}
  <2>1. PICK p \in Positions(hs, "content-length") : m = Element(hs, p)
    BY DEF ContentLengths, Elements
  <2>2. PICK i \in Occurrences(hs, "content-length") :
             p \in {<<i, j>> : j \in DOMAIN Field[hs[i]].list}
    BY DEF Positions
  <2>3. PICK j \in DOMAIN Field[hs[i]].list : p = <<i, j>>
    BY <2>2
  <2>4. hs[i] \in DOMAIN Field /\ Field[hs[i]].name = "content-length"
    BY DEF Occurrences
  <2>5. m = Field[hs[i]].list[j]
    BY <2>1, <2>3 DEF Element
  <2> QED
    BY <2>4, <2>5, FramingAssumption
<1>2. (CHOOSE n \in lengths : TRUE) \in lengths
  OBVIOUS
<1> QED
  BY <1>1, <1>2 DEF ContentLengthOk

\* The framing of a request: its length is a number within the limit.
LEMMA RequestKindBounded ==
    ASSUME NEW hs \in Seq(DOMAIN Field), NEW version
    PROVE  LET k == RequestBodyKind(hs, version, MaxBody)
           IN  /\ k.kind \in KindErrors \cup {"ContentLength", "Chunked", "None"}
               /\ k.kind \notin KindErrors => k.len \in Nat /\ k.len <= MaxBody
<1> DEFINE lengths == ContentLengths(hs)
           n == CHOOSE m \in lengths : TRUE
<1>1. MaxBody \in Nat
  BY BodyAssumption, ChunkLineAssumption
<1>4. ContentLengthOk(hs) /\ lengths # {} => n \in Nat
  BY HeadLengths
<1>5. /\ KindOfLength(n, MaxBody).kind \in {"BodyTooLarge", "ContentLength"}
      /\ /\ KindOfLength(n, MaxBody).kind # "BodyTooLarge" /\ n \in Nat
         => KindOfLength(n, MaxBody).len \in Nat /\ KindOfLength(n, MaxBody).len <= MaxBody
  BY <1>1 DEF KindOfLength, Kind
<1>6. \A e : Kind(e).kind = e /\ Kind(e).len = 0
  BY DEF Kind
<1> HIDE DEF n
<1> QED
  BY <1>1, <1>4, <1>5, <1>6 DEF RequestBodyKind, KindErrors, n

\* What the end of a header section decides for a start line that was accepted.
LEMMA RequestKindFramed ==
    ASSUME HeadTypes
    PROVE  Bounded(RequestKind)
<1> DEFINE version == StartLine[start_line].version
           k == RequestBodyKind(headers, version, MaxBody)
<1>1. /\ k.kind \in KindErrors \cup {"ContentLength", "Chunked", "None"}
      /\ k.kind \notin KindErrors => k.len \in Nat /\ k.len <= MaxBody
  BY RequestKindBounded DEF HeadTypes
<1>2. \A e : Kind(e).kind = e /\ Kind(e).len = 0
  BY DEF Kind
<1>3. RequestKind \in {Kind("InvalidData"), Kind("Tunnel"), k}
  BY DEF RequestKind
<1>4. MaxBody \in Nat
  BY BodyAssumption, ChunkLineAssumption
<1> HIDE DEF k
<1> QED
  BY <1>1, <1>2, <1>3, <1>4 DEF KindErrors, Bounded

LEMMA RequestHeadStepPreserves ==
    ASSUME DecoderInv, Idle \/ call = "headers", RequestHeadStep
    PROVE  DecoderInv'
<1>1. RequestLines \in SUBSET DOMAIN StartLine
  BY DEF RequestLines
<1>2. Bounded(RequestKind)
  BY RequestKindFramed DEF DecoderInv, HeadInv
<1>3. \/ StartLineStep(RequestLines) \/ HeaderLineStep
      \/ HeaderEndStep(RequestKind, headers) \/ NextMessageStep
  BY DEF RequestHeadStep
<1> QED
  BY <1>1, <1>2, <1>3, HeadStepPreserves

LEMMA RequestInvStep == DecoderInv /\ [RequestNext]_requestVars => DecoderInv'
<1> SUFFICES ASSUME DecoderInv, [RequestNext]_requestVars PROVE DecoderInv'
  OBVIOUS
<1>1. "Misuse" \in Results \ {"Complete"}
  BY SomeResults
<1>2. ASSUME NEW n \in FeedSizes, decoding = "no" /\ Feed(n) /\ UNCHANGED headVars
      PROVE  DecoderInv'
  BY <1>2, HeadFeedPreserves
<1>3. CASE DecodeHeaders
  BY <1>1, <1>3, RequestHeadStepPreserves, IdleReturnsPreserves DEF DecodeHeaders, HeadMisuse
<1>4. CASE HeadLoop
  BY <1>4, RequestHeadStepPreserves DEF HeadLoop
<1>5. ASSUME NEW len \in 0..(Len(buf) + 1), Consume(len) PROVE DecoderInv'
  <2>1. len \in Nat
    BY BodyLengths DEF DecoderInv, BodyInv
  <2> QED
    BY <1>1, <1>5, <2>1, StreamPreserves, IdleReturnsPreserves DEF Consume
<1>6. CASE Progress
  BY <1>6, StreamPreserves DEF Progress
<1>7. CASE TrailerLoop
  BY <1>7, TrailerLoopPreserves DEF TrailerLoop
<1>8. CASE DecodeRefused
  BY <1>1, <1>8, IdleReturnsPreserves DEF DecodeRefused
<1>9. CASE DecodeStarts \/ DecodeInner \/ DecodeAgain \/ DecodeFinish
  BY <1>9, DecodeStartsPreserves, DecodeInnerPreserves, DecodeAgainPreserves,
     DecodeFinishPreserves
<1>10. CASE DecodeStops \/ DecodeTunnel
  BY <1>10, DecodeStopsPreserves
<1>11. CASE TakeRemaining
  BY <1>11, TakeRemainingPreserves
<1>12. CASE Reset
  BY <1>12, ResetPreserves DEF Reset, Resets
<1>13. CASE UNCHANGED requestVars
  BY <1>13, DecoderStutters DEF requestVars, bodyVars, headVars
<1> QED
  BY <1>2, <1>3, <1>4, <1>5, <1>6, <1>7, <1>8, <1>9, <1>10, <1>11, <1>12, <1>13
     DEF RequestNext

LEMMA RequestInvariant == RequestSpec => []DecoderInv
  BY DecoderInvInit, RequestInvStep, PTL DEF RequestSpec

\* No unwrap() of decode_headers and decode() can fail, whatever the peer sends
\* and however the caller orders, mixes and repeats the operations of both APIs,
\* also after errors.
THEOREM RequestUnwrapsSafe == RequestSpec => []UnwrapsSafe
  BY RequestInvariant, DecoderInvImplies, PTL

\* Type correctness of the request decoder.
THEOREM RequestTypeCorrect == RequestSpec => []HeadTypeOK
  BY RequestInvariant, DecoderInvImplies, PTL

\* max_body_size holds for every request of a connection: the count starts from
\* zero with each, and no order of calls carries it over or resets it early.
THEOREM RequestWithinLimit == RequestSpec => []WithinLimit
  BY RequestInvariant, DecoderInvImplies, PTL

\* Over a whole connection, requests refused half-way included, no byte is
\* repeated, invented or skipped: the buffer of the decoder is the undrained end
\* of what was fed, and each step that takes bytes out of it accounts for all of
\* them, as a line that was taken over or refused, as body that is delivered, or
\* because the caller took or dropped the rest.
THEOREM RequestBytesAccounted == RequestSpec => []InputIntact /\ RequestInputAccounted
<1>1. DecoderInv /\ [RequestNext]_requestVars => [HeadAccounted]_requestVars
  <2> SUFFICES ASSUME DecoderInv, RequestNext PROVE HeadAccounted
    OBVIOUS
  <2>1. ASSUME RequestHeadStep PROVE HeadAccounted
    <3>1. RequestLines \in SUBSET DOMAIN StartLine
      BY DEF RequestLines
    <3> QED
      BY <2>1, <3>1, HeadLineAccounted, EndAccounted DEF RequestHeadStep
  <2>2. CASE DecodeHeaders \/ HeadLoop
    <3>1. CASE HeadMisuse
      BY <3>1, StillAccounted DEF HeadMisuse, Returns, inputVars
    <3> QED
      BY <2>1, <2>2, <3>1 DEF DecodeHeaders, HeadLoop
  <2>3. ASSUME NEW len \in 0..(Len(buf) + 1), Consume(len) PROVE HeadAccounted
    <3>1. len \in Nat
      BY BodyLengths DEF DecoderInv, BodyInv
    <3> QED
      BY <2>3, <3>1, CallAccounted DEF Consume
  <2>4. CASE Progress
    BY <2>4, CallAccounted DEF Progress
  <2>5. CASE TrailerLoop
    BY <2>5, TrailerLoopAccounted DEF TrailerLoop
  <2>6. ASSUME NEW n \in FeedSizes, Feed(n) PROVE HeadAccounted
    BY <2>6, FedAccounted
  <2>7. CASE Reset
    BY <2>7, RestAccounted DEF Reset, Resets
  <2> QED
    BY <2>2, <2>3, <2>4, <2>5, <2>6, <2>7, DecodeAccounted, RestAccounted DEF RequestNext
<1> QED
  BY <1>1, RequestInvariant, DecoderInvImplies, PTL DEF RequestSpec, RequestInputAccounted

\* A trailer that is stored or returned was announced by its own request.
THEOREM RequestTrailersAdmitted == RequestSpec => []TrailersAdmitted
  BY RequestInvariant, DecoderInvImplies, PTL

-----------------------------------------------------------------------------
\* The framing of a response, for any method that was announced.
LEMMA ResponseKindBounded ==
    ASSUME HeadTypes
    PROVE  Bounded(ResponseKind)
<1> DEFINE lengths == ContentLengths(headers)
           n == CHOOSE m \in lengths : TRUE
<1>1. MaxBody \in Nat
  BY BodyAssumption, ChunkLineAssumption
<1>2. ContentLengthOk(headers) /\ lengths # {} => n \in Nat
  BY HeadLengths DEF HeadTypes
<1>3. /\ KindOfLength(n, MaxBody).kind \in {"BodyTooLarge", "ContentLength"}
      /\ /\ KindOfLength(n, MaxBody).kind # "BodyTooLarge" /\ n \in Nat
         => KindOfLength(n, MaxBody).len \in Nat /\ KindOfLength(n, MaxBody).len <= MaxBody
  BY <1>1 DEF KindOfLength, Kind
<1>4. \A e : Kind(e).kind = e /\ Kind(e).len = 0
  BY DEF Kind
<1> HIDE DEF n
<1>5. \/ ResponseKind \in {Kind("None"), Kind("Tunnel"), Kind("InvalidData"),
                            Kind("Chunked"), Kind("CloseDelimited")}
      \/ /\ ResponseKind = KindOfLength(n, MaxBody)
         /\ ContentLengthOk(headers) /\ lengths # {}
  BY DEF ResponseKind, ResponseBodyKind, n
<1> QED
  BY <1>1, <1>2, <1>3, <1>4, <1>5 DEF KindErrors, Bounded

LEMMA ResponseHeadStepPreserves ==
    ASSUME DecoderInv, Idle \/ call = "headers", ResponseHeadStep
    PROVE  DecoderInv'
<1>1. StatusLines \in SUBSET DOMAIN StartLine
  BY DEF StatusLines
<1>2. Bounded(ResponseKind)
  BY ResponseKindBounded DEF DecoderInv, HeadInv
<1>3. \/ StartLineStep(StatusLines) \/ HeaderLineStep
      \/ HeaderEndStep(ResponseKind, HeadFields) \/ NextMessageStep
  BY DEF ResponseHeadStep
<1> QED
  BY <1>1, <1>2, <1>3, HeadStepPreserves

\* mark_eof: a body that was open to the end of the connection is complete.
LEMMA MarkEofPreserves ==
    ASSUME DecoderInv, MarkEof
    PROVE  DecoderInv'
<1>1. BodyInv /\ HeadInv /\ DecodeLoop
  BY DEF DecoderInv, HeadInv
<1>2. /\ call = "idle" /\ decoding = "no" /\ result' = "none"
      /\ phase' = IF phase = "BodyCloseDelimited" THEN "Complete" ELSE phase
      /\ UNCHANGED <<wire, sent, buf, remaining, trailers, body_consumed,
                     trailer_count, declared_trailers, call, advanced>>
      /\ UNCHANGED <<body, given, failed>> /\ UNCHANGED headVars
  BY DEF MarkEof, Idle, inputVars, decoderVars, historyVars
<1>3. BodyInv'
  <2>1. BodyTypeOK /\ InputIntact /\ WithinLimit /\ TrailersAdmitted
    BY <1>1 DEF BodyInv
  <2>2. phase' \in Phases /\ result' \in Results
    BY <1>2, <2>1, SomeResults DEF BodyTypeOK, Phases
  <2>3. BodyTypeOK'
    BY <1>2, <2>1, <2>2 DEF BodyTypeOK
  <2>4. InputIntact' /\ TrailersAdmitted'
    BY <1>2, <2>1 DEF InputIntact, TrailersAdmitted
  <2>5. WithinLimit'
    BY <1>2, <2>1 DEF WithinLimit
  <2> QED
    BY <2>3, <2>4, <2>5 DEF BodyInv
<1>4. decoded_body_kind # "None"
  BY <1>1, <1>2 DEF DecodeLoop
<1> QED
  BY <1>1, <1>2, <1>3, <1>4, HeadAfterBody

\* set_request_method touches nothing but the method.
LEMMA SetRequestMethodPreserves ==
    ASSUME DecoderInv, NEW m \in Methods, SetRequestMethod(m)
    PROVE  DecoderInv'
<1>1. Idle /\ Returns("none") /\ UNCHANGED headVars
  <2>1. "none" \notin WireErrors /\ failed \in BOOLEAN
    BY SomeResults DEF DecoderInv, BodyInv, BodyTypeOK
  <2> QED
    BY <2>1 DEF SetRequestMethod, Returns, historyVars
<1>2. "none" \in Results \ {"Complete"}
  BY SomeResults
<1> QED
  BY <1>1, <1>2, IdleReturnsPreserves

\* decode() takes what is buffered of a close-delimited body.
LEMMA DecodeCloseDelimitedPreserves ==
    ASSUME DecoderInv, DecodeCloseDelimited
    PROVE  DecoderInv'
<1>1. BodyInv /\ HeadTypes /\ UnwrapsSafe /\ HeadFresh /\ DecodeLoop /\ BodyTypeOK
  BY DEF DecoderInv, HeadInv, BodyInv
<1>2. /\ decoding = "body" /\ decoded_body_kind = "CloseDelimited" /\ PeekLen > 0
      /\ call = "idle"
  BY <1>1 DEF DecodeCloseDelimited, DecodeLoop
<1>3. CASE DecodeReturns("BodyTooLarge")
  BY <1>2, <1>3, DecodeReturnsPreserves DEF Results, WireErrors
<1>4. CASE /\ decoded_body' = decoded_body \o Prefix(buf, PeekLen)
           /\ decoding' = "closing" /\ ConsumeBody(PeekLen)
           /\ UNCHANGED <<sectionVars, decoded_head, decoded_body_kind, api,
                          heads, done, taken>>
  <2>1. PeekLen \in Nat /\ PeekLen <= Len(buf)
    BY <1>1, BodyLengths DEF PeekLen, BodyTypeOK
  <2>2. BodyInv'
    BY <1>1, <1>4, <2>1, ConsumeBodyPreserves
  <2>3. /\ phase' \in {"StartLine", "Headers"}
             => phase' = phase /\ UNCHANGED <<trailers, given, body,
                                              body_consumed, trailer_count>>
        /\ phase = "Headers" => phase' = "Headers"
        /\ result' = "Complete" => phase' = "Complete"
        /\ call' \in {"idle", "trailers"}
        /\ call' = "trailers" => phase' = "ChunkedTrailer"
    BY <1>1, <1>2, <1>4, <2>1, ConsumeBodyEffect
  <2>4. call' = "idle"
    BY <1>1, <1>2, <1>4, OfferConsumed
  <2>5. UNCHANGED <<start_line, headers, decoded_head, decoded_body_kind, taken>>
    BY <1>4 DEF sectionVars
  <2>6. HeadTypes'
    <3>1. SubSeq(buf, 1, PeekLen) \in Seq(Bytes)
      BY <1>1, <2>1, Slice DEF BodyTypeOK
    <3>2. decoded_body' \in Seq(Bytes)
      BY <1>1, <1>4, <3>1, ConcatProperties DEF HeadTypes, Prefix
    <3> QED
      BY <1>1, <1>4, <2>5, <3>2 DEF HeadTypes
  <2>7. UnwrapsSafe'
    BY <1>1, <1>2, <1>4, <2>3, <2>5 DEF UnwrapsSafe
  <2>8. HeadFresh'
    BY <1>1, <2>3 DEF HeadFresh
  <2>9. DecodeLoop'
    BY <1>1, <1>2, <1>4, <2>3, <2>4, <2>5 DEF DecodeLoop
  <2> QED
    BY <2>2, <2>6, <2>7, <2>8, <2>9 DEF DecoderInv, HeadInv
<1> QED
  BY <1>3, <1>4 DEF DecodeCloseDelimited

LEMMA DecodeNotClosedPreserves ==
    ASSUME DecoderInv, DecodeNotClosed
    PROVE  DecoderInv'
<1>1. DecodeLoop /\ HeadTypes
  BY DEF DecoderInv, HeadInv
<1>2. CASE decoding = "closing"
  <2> DEFINE value == IF result \in WireErrors \cup {"Misuse"} THEN result ELSE "NeedData"
  <2>1. DecodeReturns(value)
    BY <1>2 DEF DecodeNotClosed
  <2>2. value \in Results /\ value # "Complete"
    BY SomeResults
  <2>3. call = "idle" /\ decoded_body_kind # "None"
    BY <1>1, <1>2 DEF DecodeLoop
  <2> HIDE DEF value
  <2> QED
    BY <1>2, <2>1, <2>2, <2>3, DecodeReturnsPreserves
<1>3. CASE decoding # "closing"
  <2>1. /\ decoding = "body" /\ decoded_body_kind = "CloseDelimited"
        /\ DecodeReturns("NeedData") /\ call = "idle"
    BY <1>1, <1>3 DEF DecodeNotClosed, DecodeLoop
  <2> QED
    BY <2>1, SomeResults, DecodeReturnsPreserves
<1> QED
  BY <1>2, <1>3

LEMMA ResponseInvStep == DecoderInv /\ [ResponseNext]_responseVars => DecoderInv'
<1> SUFFICES ASSUME DecoderInv, [ResponseNext]_responseVars PROVE DecoderInv'
  OBVIOUS
<1>1. "Misuse" \in Results \ {"Complete"}
  BY SomeResults
<1>2. ASSUME NEW n \in FeedSizes, decoding = "no" /\ Feed(n) /\ UNCHANGED headVars
      PROVE  DecoderInv'
  BY <1>2, HeadFeedPreserves
<1>3. ASSUME NEW m \in Methods, SetRequestMethod(m) PROVE DecoderInv'
  BY <1>3, SetRequestMethodPreserves
<1>4. CASE MarkEof
  BY <1>4, MarkEofPreserves
<1>5. CASE DecodeResponseHeaders
  BY <1>1, <1>5, ResponseHeadStepPreserves, IdleReturnsPreserves
     DEF DecodeResponseHeaders, HeadMisuse
<1>6. CASE ResponseHeadLoop
  BY <1>6, ResponseHeadStepPreserves DEF ResponseHeadLoop
<1>7. ASSUME NEW len \in 0..(Len(buf) + 1), Consume(len) PROVE DecoderInv'
  <2>1. len \in Nat
    BY BodyLengths DEF DecoderInv, BodyInv
  <2> QED
    BY <1>1, <1>7, <2>1, StreamPreserves, IdleReturnsPreserves DEF Consume
<1>8. CASE Progress
  BY <1>8, StreamPreserves DEF Progress
<1>9. CASE TrailerStep /\ UNCHANGED headVars
  BY <1>9, TrailerLoopPreserves
<1>10. CASE DecodeResponse
  <2>1. CASE DecodeRefused
    BY <1>1, <2>1, IdleReturnsPreserves DEF DecodeRefused
  <2>2. CASE DecodeStarts \/ DecodeInner \/ DecodeAgain \/ DecodeFinish
    BY <2>2, DecodeStartsPreserves, DecodeInnerPreserves, DecodeAgainPreserves,
       DecodeFinishPreserves
  <2>3. CASE DecodeStops \/ DecodeTunnel
    BY <2>3, DecodeStopsPreserves
  <2>4. CASE DecodeCloseDelimited \/ DecodeNotClosed
    BY <2>4, DecodeCloseDelimitedPreserves, DecodeNotClosedPreserves
  <2> QED
    BY <1>10, <2>1, <2>2, <2>3, <2>4 DEF DecodeResponse
<1>11. CASE TakeRemaining
  BY <1>11, TakeRemainingPreserves
<1>12. CASE ResetResponse
  BY <1>12, ResetPreserves DEF ResetResponse, Resets
<1>13. CASE UNCHANGED responseVars
  BY <1>13, DecoderStutters DEF responseVars, bodyVars, headVars
<1> QED
  BY <1>2, <1>3, <1>4, <1>5, <1>6, <1>7, <1>8, <1>9, <1>10, <1>11, <1>12, <1>13
     DEF ResponseNext

LEMMA ResponseInvariant == ResponseSpec => []DecoderInv
  BY DecoderInvInit, ResponseInvStep, PTL DEF ResponseSpec, ResponseInit

\* No unwrap() of the response decoder can fail, in any order of the calls of
\* both APIs, set_request_method and mark_eof included.
THEOREM ResponseUnwrapsSafe == ResponseSpec => []UnwrapsSafe
  BY ResponseInvariant, DecoderInvImplies, PTL

\* Type correctness of the response decoder.
THEOREM ResponseTypeCorrect == ResponseSpec => []HeadTypeOK
  BY ResponseInvariant, DecoderInvImplies, PTL

\* max_body_size holds for every response, the ones that end with the
\* connection included, where no length is announced that could be checked.
THEOREM ResponseWithinLimit == ResponseSpec => []WithinLimit
  BY ResponseInvariant, DecoderInvImplies, PTL

\* Over a whole connection no byte of a response, nor of the one behind it, is
\* repeated, invented or skipped, mark_eof and close-delimited bodies included.
THEOREM ResponseBytesAccounted == ResponseSpec => []InputIntact /\ ResponseInputAccounted
<1>1. DecoderInv /\ [ResponseNext]_responseVars => [HeadAccounted]_responseVars
  <2> SUFFICES ASSUME DecoderInv, ResponseNext PROVE HeadAccounted
    OBVIOUS
  <2>1. ASSUME ResponseHeadStep PROVE HeadAccounted
    <3>1. StatusLines \in SUBSET DOMAIN StartLine
      BY DEF StatusLines
    <3> QED
      BY <2>1, <3>1, HeadLineAccounted, EndAccounted DEF ResponseHeadStep
  <2>2. CASE DecodeResponseHeaders \/ ResponseHeadLoop
    <3>1. CASE HeadMisuse
      BY <3>1, StillAccounted DEF HeadMisuse, Returns, inputVars
    <3> QED
      BY <2>1, <2>2, <3>1 DEF DecodeResponseHeaders, ResponseHeadLoop
  <2>3. ASSUME NEW len \in 0..(Len(buf) + 1), Consume(len) PROVE HeadAccounted
    <3>1. len \in Nat
      BY BodyLengths DEF DecoderInv, BodyInv
    <3> QED
      BY <2>3, <3>1, CallAccounted DEF Consume
  <2>4. CASE Progress
    BY <2>4, CallAccounted DEF Progress
  <2>5. CASE TrailerStep
    BY <2>5, TrailerLoopAccounted
  <2>6. ASSUME NEW n \in FeedSizes, Feed(n) PROVE HeadAccounted
    BY <2>6, FedAccounted
  <2>7. ASSUME MarkEof \/ \E m \in Methods : SetRequestMethod(m) PROVE HeadAccounted
    BY <2>7, StillAccounted DEF MarkEof, SetRequestMethod, inputVars, historyVars
  <2>8. CASE DecodeResponse
    <3>1. CASE DecodeCloseDelimited \/ DecodeNotClosed
      <4>1. ASSUME NEW value, DecodeReturns(value) PROVE HeadAccounted
        BY <4>1, StillAccounted DEF DecodeReturns, inputVars
      <4> QED
        BY <3>1, <4>1, PeekAccounted DEF DecodeCloseDelimited, DecodeNotClosed
    <3> QED
      BY <2>8, <3>1, DecodeAccounted DEF DecodeResponse
  <2>9. CASE ResetResponse
    BY <2>9, RestAccounted DEF ResetResponse, Resets
  <2> QED
    BY <2>2, <2>3, <2>4, <2>5, <2>6, <2>7, <2>8, <2>9, RestAccounted DEF ResponseNext
<1> QED
  BY <1>1, ResponseInvariant, DecoderInvImplies, PTL DEF ResponseSpec, ResponseInputAccounted

\* A trailer that is stored or returned was announced by its own response.
THEOREM ResponseTrailersAdmitted == ResponseSpec => []TrailersAdmitted
  BY ResponseInvariant, DecoderInvImplies, PTL
=============================================================================
