------------------------------ MODULE WholeBody ------------------------------
(***************************************************************************)
(* The reference for chunked bodies: a parser that is given a byte string  *)
(* whole and takes one chunk or one trailer line after the other off it,   *)
(* with no buffer and no calls; and what it means that BodyDecoder, which  *)
(* gets the bytes in pieces, agrees with it.                               *)
(***************************************************************************)
EXTENDS BodyDecoder

\* A message as far as it is read.  While its status is "chunks" or "trailers",
\* `rest` is what follows; otherwise the status says how it ends.
Message(b, t, s, rest) == [body |-> b, trailers |-> t, status |-> s, rest |-> rest]

FirstLine(w) == CHOOSE p \in LineEnds(w) : TRUE

\* chunk = chunk-size [ chunk-ext ] CRLF chunk-data CRLF
RefChunk(m) ==
    LET w == m.rest
        line == Prefix(w, FirstLine(w))
        size == ChunkSize(line)
        rest == Suffix(w, FirstLine(w) + 2)
        Ends(status) == Message(m.body, m.trailers, status, w)
        With(n, status, next) == Message(m.body \o Prefix(rest, n), m.trailers, status, next)
    IN  IF LineEnds(w) = {} THEN Ends("incomplete")
        ELSE IF FirstLine(w) > MaxChunkLine THEN Ends("ChunkLineTooLong")
        ELSE IF ~ValidChunkLine(line) THEN Ends("InvalidData")
        ELSE IF size = 0 THEN Message(m.body, m.trailers, "trailers", rest)
        ELSE IF Len(m.body) + size > MaxBody THEN Ends("BodyTooLarge")
        ELSE IF Len(rest) < size THEN With(Len(rest), "incomplete", w)
        ELSE IF Len(rest) < size + 2 THEN With(size, "incomplete", w)
        ELSE IF ~CrlfAt(rest, size) THEN With(size, "InvalidData", w)
        ELSE With(size, "chunks", Suffix(rest, size + 2))

\* trailer-section = *( field-line CRLF ), and the CRLF that ends the body.
RefTrailer(m, declared) ==
    LET w == m.rest
        line == Prefix(w, FirstLine(w))
        fields == {f \in ParseHeaderLine(line) : Field[f].name \in declared \ Prohibited}
        Ends(status) == Message(m.body, m.trailers, status, w)
    IN  IF LineEnds(w) = {} THEN Ends("incomplete")
        ELSE IF FirstLine(w) = 0 THEN Message(m.body, m.trailers, "Complete", Suffix(w, 2))
        ELSE IF FirstLine(w) > MaxHeaderLine THEN Ends("HeaderLineTooLong")
        ELSE IF Len(m.trailers) >= MaxHeaders THEN Ends("TooManyHeaders")
        ELSE IF ~IsUtf8(line) \/ fields = {} THEN Ends("InvalidData")
        ELSE Message(m.body, Append(m.trailers, CHOOSE f \in fields : TRUE), "trailers",
                     Suffix(w, FirstLine(w) + 2))

\* chunked-body = *chunk last-chunk trailer-section CRLF
RefStep(m, declared) ==
    CASE m.status = "chunks" -> RefChunk(m)
      [] m.status = "trailers" -> RefTrailer(m, declared)
      [] OTHER -> m

\* The message after n steps on w.
RefParse(w, declared) ==
    LET parse[n \in Nat] == IF n = 0 THEN Message(<< >>, << >>, "chunks", w)
                            ELSE RefStep(parse[n - 1], declared)
    IN  parse

\* The chunked body that the byte string w starts with: a step that does not end
\* it takes at least one byte off w.
Reference(w, declared) == RefParse(w, declared)[Len(w) + 1]

-----------------------------------------------------------------------------
\* The chunked messages: nothing has been consumed in another framing.
IsChunked == phase \in {"BodyChunkedSize", "BodyChunkedData",
                        "BodyChunkedDataCrlf", "ChunkedTrailer"}

\* However the bytes are cut into feeds and however the calls interleave with
\* them, a chunked body is decoded as if it had been there whole: what was
\* delivered is a prefix of the reference, nothing is delivered before its
\* chunk is known to be within the limits, and the first error reported is the
\* one the whole byte string has.
DecodesLikeWhole ==
    IsChunked /\ ~failed => LET ref == Reference(wire, declared_trailers)
                            IN  /\ Len(body) <= Len(ref.body)
                                /\ body = Prefix(ref.body, Len(body))
                                /\ given = << >>
                                /\ Len(trailers) <= Len(ref.trailers)
                                /\ trailers = Prefix(ref.trailers, Len(trailers))

\* Completion and failure are those of the reference: Complete comes with the
\* whole body and all trailers, and leaves exactly the following bytes in the
\* buffer; an error is the error of the reference.
EndsLikeWhole ==
    [][IsChunked /\ ~failed =>
         LET ref == Reference(wire, declared_trailers)
         IN  /\ phase' = "Complete" =>
                   /\ ref.status = "Complete"
                   /\ body' = ref.body /\ given' = ref.trailers
                   /\ buf' = Prefix(ref.rest, Len(ref.rest) - (Len(wire) - sent))
             /\ failed' => result' = ref.status
      ]_bodyVars

\* NeedData is only returned when there is nothing left to do: with no body
\* bytes on offer, what was delivered is all that the bytes fed so far contain,
\* and they do not hold a complete message.  A caller that goes back to the
\* network on NeedData therefore never waits for a message it already has.
NothingWithheld ==
    IsChunked /\ ~failed /\ call = "idle" /\ result = "NeedData" /\ PeekLen = 0
      => LET ref == Reference(Prefix(wire, sent), declared_trailers)
         IN  body = ref.body /\ ref.status = "incomplete"
=============================================================================
