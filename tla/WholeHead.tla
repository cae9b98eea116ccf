------------------------------ MODULE WholeHead ------------------------------
(***************************************************************************)
(* The reference for message heads and for bodies of every framing, over a *)
(* byte string that is given whole (see WholeBody).  Used by TLC only.     *)
(***************************************************************************)
EXTENDS HeadDecoder, WholeBody, SequencesExt

\* A header section, or why there is none.
Section(status, line, hs, rest) ==
    [status |-> status, line |-> line, headers |-> hs, rest |-> rest]

\* The header lines in w, after the fields hs.
RECURSIVE RefHeaders(_, _, _)
RefHeaders(w, line, hs) ==
    IF LineEnds(w) = {} THEN Section("incomplete", line, hs, w)
    ELSE LET pos == CHOOSE p \in LineEnds(w) : TRUE
             fs == ParseHeaderLine(Prefix(w, pos))
         IN  IF pos = 0 THEN Section("end", line, hs, Suffix(w, 2))
             ELSE IF pos > MaxHeaderLine THEN Section("HeaderLineTooLong", line, hs, w)
             ELSE IF Len(hs) >= MaxHeaders THEN Section("TooManyHeaders", line, hs, w)
             ELSE IF fs = {} THEN Section("InvalidData", line, hs, w)
             ELSE RefHeaders(Suffix(w, pos + 2), line, Append(hs, CHOOSE f \in fs : TRUE))

\* The head that w starts with.
RefHead(w, valid) ==
    IF LineEnds(w) = {} THEN Section("incomplete", "none", << >>, w)
    ELSE LET pos == CHOOSE p \in LineEnds(w) : TRUE
         IN  IF pos = 1 /\ w[1] \in valid
               THEN RefHeaders(Suffix(w, 3), w[1], << >>)
               ELSE Section("InvalidData", "none", << >>, w)

\* The body that w starts with, for framing k.
RefBody(w, k, declared) ==
    CASE k.kind = "None" -> Message(<< >>, << >>, "Complete", w)
      [] k.kind = "Tunnel" -> Message(<< >>, << >>, "tunnel", w)
      [] k.kind = "Chunked" -> Reference(w, declared)
      [] k.kind = "CloseDelimited" ->
            Message(w, << >>, IF Len(w) > MaxBody THEN "BodyTooLarge" ELSE "incomplete", << >>)
      [] k.kind = "ContentLength" ->
            IF Len(w) < k.len THEN Message(w, << >>, "incomplete", << >>)
            ELSE Message(Prefix(w, k.len), << >>, "Complete", Suffix(w, k.len))

\* The messages of a string: heads with their framing and finished bodies in
\* acc, the body bytes of the unfinished message, how the string ends, and the
\* bytes that were not looked at.
RefStop(acc, body_, status, rest) ==
    [heads |-> acc.heads, done |-> acc.done, body |-> body_, status |-> status,
     rest |-> rest]

-----------------------------------------------------------------------------
\* What has been returned is a prefix of the reference.
ReturnedOf(ref) ==
    /\ IsPrefix(heads, ref.heads)
    /\ IsPrefix(done, ref.done)
    /\ IsPrefix(body, IF Len(done) < Len(ref.done) THEN ref.done[Len(done) + 1].body
                      ELSE ref.body)

\* All of the reference has been returned, and it is not finished.
ReturnedAll(ref) ==
    /\ heads = ref.heads /\ done = ref.done /\ body = ref.body
    /\ ref.status = "incomplete"

\* Behind a tunnel, what was taken and what is in the buffer is all that was fed.
TunnelIntact(ref) ==
    ref.status = "tunnel" /\ Len(heads) = Len(ref.heads) =>
        taken \o buf = Prefix(ref.rest, Len(ref.rest) - (Len(wire) - sent))
=============================================================================
