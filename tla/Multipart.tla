----------------------------- MODULE Multipart -----------------------------
(***************************************************************************)
(* src/multipart.rs: a parser of multipart bodies that is fed in pieces.   *)
(* It keeps the bytes it has not consumed, the offset it has read up to,   *)
(* and the offset from which the search for a delimiter goes on after it   *)
(* failed; consumed bytes are drained when they are more than half of the  *)
(* buffer.  Offsets count from 0 as in the code.                           *)
(*                                                                         *)
(* The bytes that the parser tells apart are kept: CR, LF, dash, blank.    *)
(* The boundary is the one byte "b", a header line one byte of            *)
(* HeaderLines, and any other byte is data.                                *)
(***************************************************************************)
EXTENDS Integers, Sequences, SequencesExt

CONSTANTS
    Data,           \* bytes that mean nothing to the parser
    Inputs,         \* the inputs to parse: [wire, built], see Init
    MaxBufferSize

CRLF == <<"CR", "LF">>
DashDash == <<"-", "-">>
Blank == " "
first_delimiter == DashDash \o <<"b">>
inner_delimiter == CRLF \o DashDash \o <<"b">>

\* A line with a Content-Disposition: form-data with a name, form-data without,
\* another disposition, one that does not parse; a line of another field, and
\* one that is not UTF-8.
HeaderLines == {"cd", "noname", "attachment", "garbled", "other", "binary"}

Bytes == {"CR", "LF", "-", Blank, "b"} \cup HeaderLines \cup Data

ASSUME MultipartAssumption ==
    /\ MaxBufferSize \in Nat
    /\ \A x \in Inputs : x.wire \in Seq(Bytes)

VARIABLES input, fed, buffer, pos, state, finished, boundary_scan_offset, parts, result

vars == <<input, fed, buffer, pos, state, finished, boundary_scan_offset, parts, result>>

Init ==
    /\ input \in Inputs
    /\ fed = 0              \* bytes of input.wire that have been fed
    /\ buffer = << >> /\ pos = 0 /\ boundary_scan_offset = 0
    /\ state = "Initial" /\ finished = FALSE
    /\ parts = << >>        \* what next_part has returned
    /\ result = "None"      \* of the last call

\* buffer[a..e] of the code.
Piece(s, a, e) == SubSeq(s, a + 1, e)
At(s, a, needle) == a + Len(needle) <= Len(s) /\ Piece(s, a, a + Len(needle)) = needle

\* find_bytes in s[start..], as an absolute offset, or NotFound.
NotFound == -1
FindBytes(s, start, needle) ==
    LET found == {i \in start..(Len(s) - Len(needle)) : At(s, i, needle)}
    IN  IF found = {} THEN NotFound ELSE CHOOSE i \in found : \A j \in found : i <= j

\* Offset of the first byte from a on that is no transport padding.
Padded(s, a) ==
    CHOOSE i \in a..Len(s) :
        /\ \A j \in a..(i - 1) : s[j + 1] = Blank
        /\ i < Len(s) => s[i + 1] # Blank

\* The field lines, all of them UTF-8: the last Content-Disposition counts, and
\* one that does not parse takes back the one before.
HeaderVerdict(s) ==
    LET cd == SelectSeq(s, LAMBDA x : x \in HeaderLines \ {"other"})
    IN  IF \E i \in DOMAIN s : s[i] = "binary" THEN "InvalidHeader"
        ELSE IF cd = << >> \/ Last(cd) = "garbled" THEN "MissingContentDisposition"
        ELSE IF Last(cd) = "attachment" THEN "InvalidContentDisposition"
        ELSE IF Last(cd) = "noname" THEN "MissingName" ELSE "Ok"

-----------------------------------------------------------------------------
\* feed: the limit is on the bytes not consumed; what it refuses is lost to the
\* caller, who cannot go on.
Feed(n) ==
    /\ fed + n <= Len(input.wire)
    /\ IF Len(buffer) - pos + n > MaxBufferSize
       THEN /\ result' = "BufferOverflow"
            /\ UNCHANGED <<fed, buffer>>
       ELSE /\ buffer' = buffer \o SubSeq(input.wire, fed + 1, fed + n)
            /\ fed' = fed + n
            /\ result' = "Fed"
    /\ UNCHANGED <<input, pos, state, finished, boundary_scan_offset, parts>>

Returns(r) == result' = r /\ UNCHANGED <<input, fed>>

Keep == UNCHANGED <<buffer, pos, state, finished, parts>>

Finish == finished' = TRUE /\ state' = "Finished"

\* Where the search goes on: far enough back for a delimiter that is cut.
\* mutant: at the end of the buffer
ResumeAtEnd(needle, least) == IF Len(buffer) > least THEN Len(buffer) ELSE least

ResumeAt(needle, least) ==
    LET back == Len(buffer) - (Len(needle) - 1)
    IN  IF back > least THEN back ELSE least

Most(a, b) == IF a > b THEN a ELSE b

\* ParserState::Initial, up to the return or the change to InPart.
SeekFirst ==
    LET start == Most(pos, boundary_scan_offset)
        i == FindBytes(buffer, start, first_delimiter)
        after == i + Len(first_delimiter)
        p == Padded(buffer, after)
    IN  /\ state = "Initial"
        /\ IF i = NotFound
           THEN /\ boundary_scan_offset' = ResumeAt(first_delimiter, 0)
                /\ Keep /\ Returns("Incomplete")
           ELSE IF Len(buffer) < after + 2 \/ Len(buffer) < p + 2
           THEN /\ boundary_scan_offset' = i
                /\ Keep /\ Returns("Incomplete")
           ELSE IF At(buffer, p, DashDash)
           THEN /\ Finish /\ Returns("None")
                /\ UNCHANGED <<buffer, pos, boundary_scan_offset, parts>>
           ELSE /\ ~At(buffer, p, CRLF)
                /\ Keep /\ UNCHANGED boundary_scan_offset /\ Returns("InvalidPart")

\* What is drained when the offset is behind the middle of the buffer.
Drains(p) == p > Len(buffer) \div 2

\* mutant: the scan offset is not moved with the bytes
ReturnPartStale(p) ==
    IF Drains(p)
    THEN buffer' = SubSeq(buffer, p + 1, Len(buffer)) /\ pos' = 0 /\ boundary_scan_offset' = p
    ELSE pos' = p /\ boundary_scan_offset' = p /\ UNCHANGED buffer

\* The end of InPart: the new offset, and the bytes drained.
ReturnPart(p) ==
    IF Drains(p)
    THEN buffer' = SubSeq(buffer, p + 1, Len(buffer)) /\ pos' = 0 /\ boundary_scan_offset' = 0
    ELSE pos' = p /\ boundary_scan_offset' = p /\ UNCHANGED buffer

\* ParserState::InPart at the offset from: the header, the body up to the next
\* delimiter, and what follows it.
InPart(from, scan) ==
    LET header_end == FindBytes(buffer, from, CRLF \o CRLF)
        verdict == HeaderVerdict(Piece(buffer, from, header_end))
        body_start == header_end + 4
        body_end == FindBytes(buffer, Most(body_start, scan), inner_delimiter)
        p == Padded(buffer, body_end + Len(inner_delimiter))
        undecided == Len(buffer) < p + 2
        closes == ~undecided /\ At(buffer, p, DashDash)
        goesOn == ~undecided /\ At(buffer, p, CRLF)
        Stay(r, at) == /\ pos' = from /\ state' = "InPart" /\ boundary_scan_offset' = at
                       /\ UNCHANGED <<buffer, finished, parts>> /\ Returns(r)
    IN  IF header_end = NotFound THEN Stay("Incomplete", scan)
        ELSE IF verdict # "Ok" THEN Stay(verdict, scan)
        ELSE IF body_end = NotFound THEN Stay("Incomplete", ResumeAt(inner_delimiter, body_start))
        ELSE IF ~(undecided \/ closes \/ goesOn) THEN Stay("InvalidPart", scan)
        ELSE /\ ReturnPart(IF closes THEN from ELSE IF goesOn THEN p + 2 ELSE p)
             /\ state' = (IF closes THEN "Finished" ELSE IF goesOn THEN "InPart"
                          ELSE "AfterInnerDelimiter")
             /\ finished' = closes
             /\ parts' = Append(parts, Piece(buffer, body_start, body_end))
             /\ Returns("Part")

\* ParserState::AfterInnerDelimiter, up to the return or the change to InPart.
AfterDelimiter ==
    LET p == Padded(buffer, pos)
    IN  /\ state = "AfterInnerDelimiter"
        /\ IF Len(buffer) < p + 2
           THEN /\ pos' = p /\ Returns("Incomplete")
                /\ UNCHANGED <<buffer, state, finished, boundary_scan_offset, parts>>
           ELSE IF At(buffer, p, DashDash)
           THEN /\ Finish /\ Returns("None")
                /\ UNCHANGED <<buffer, pos, boundary_scan_offset, parts>>
           ELSE /\ ~At(buffer, p, CRLF)
                /\ Keep /\ UNCHANGED boundary_scan_offset /\ Returns("InvalidPart")

\* The delimiter that Initial or AfterInnerDelimiter sees is followed by CRLF:
\* where the part begins.
PartBegins ==
    LET i == FindBytes(buffer, Most(pos, boundary_scan_offset), first_delimiter)
        p == Padded(buffer, IF state = "Initial" THEN i + Len(first_delimiter) ELSE pos)
    IN  IF state = "Initial" /\ i = NotFound THEN NotFound
        ELSE IF At(buffer, p, CRLF) THEN p + 2 ELSE NotFound

\* next_part
NextPart ==
    \/ finished /\ Keep /\ UNCHANGED boundary_scan_offset /\ Returns("None")
    \/ ~finished /\ SeekFirst
    \/ ~finished /\ AfterDelimiter
    \/ /\ state \in {"Initial", "AfterInnerDelimiter"} /\ PartBegins # NotFound
       /\ InPart(PartBegins, PartBegins)
    \/ state = "InPart" /\ InPart(pos, boundary_scan_offset)

Next == (\E n \in 1..Len(input.wire) : Feed(n)) \/ NextPart

Spec == Init /\ [][Next]_vars

-----------------------------------------------------------------------------
(* MultipartBuilder::build, for parts with a header and a body.            *)

\* mutant: no CRLF between the header and the body
BuildPartJoined(p) ==
    first_delimiter \o CRLF
        \o FlattenSeq([i \in DOMAIN p.header |-> <<p.header[i]>> \o CRLF])
        \o p.body \o CRLF

BuildPart(p) ==
    first_delimiter \o CRLF
        \o FlattenSeq([i \in DOMAIN p.header |-> <<p.header[i]>> \o CRLF]) \o CRLF
        \o p.body \o CRLF

Build(ps) == FlattenSeq([i \in DOMAIN ps |-> BuildPart(ps[i])]) \o first_delimiter \o DashDash \o CRLF

-----------------------------------------------------------------------------
(* The input as a whole, without pieces, offsets to resume at or draining. *)

Outcome(ps, doubt, ends) == [parts |-> ps, doubt |-> doubt, ends |-> ends]

\* A body whose delimiter is followed by what stands at the offset p, and the
\* outcome of the rest behind it.  A delimiter that is followed by neither CRLF
\* nor "--" leaves the part before it in doubt.
Delimited(w, p, body, rest) ==
    IF Len(w) < p + 2 THEN Outcome(<<body>>, << >>, "Incomplete")
    ELSE IF At(w, p, DashDash) THEN Outcome(<<body>>, << >>, "None")
    ELSE IF ~At(w, p, CRLF) THEN Outcome(<< >>, <<body>>, "InvalidPart")
    ELSE Outcome(<<body>> \o rest.parts, rest.doubt, rest.ends)

\* The parts from the offset from on and how the input ends.
WholeFrom(w) ==
    LET f[from \in 0..(Len(w) + 2)] ==
          LET header_end == FindBytes(w, from, CRLF \o CRLF)
              verdict == HeaderVerdict(Piece(w, from, header_end))
              body_end == FindBytes(w, header_end + 4, inner_delimiter)
              p == Padded(w, body_end + Len(inner_delimiter))
          IN  IF header_end = NotFound THEN Outcome(<< >>, << >>, "Incomplete")
              ELSE IF verdict # "Ok" THEN Outcome(<< >>, << >>, verdict)
              ELSE IF body_end = NotFound THEN Outcome(<< >>, << >>, "Incomplete")
              ELSE Delimited(w, p, Piece(w, header_end + 4, body_end), f[p + 2])
    IN  f

Whole(w) ==
    LET i == FindBytes(w, 0, first_delimiter)
        p == Padded(w, i + Len(first_delimiter))
        Ends(r) == Outcome(<< >>, << >>, r)
    IN  IF i = NotFound \/ Len(w) < p + 2 THEN Ends("Incomplete")
        ELSE IF At(w, p, DashDash) THEN Ends("None")
        ELSE IF ~At(w, p, CRLF) THEN Ends("InvalidPart")
        ELSE WholeFrom(w)[p + 2]

Answered == result \notin {"Fed", "BufferOverflow", "Part"}

\* However the input is cut into pieces, and wherever next_part is called
\* between them, it returns the parts of the whole input in order and ends like
\* it.  (A part whose delimiter turns out to be malformed is returned or not,
\* depending on where the pieces end.)
PartsLikeWhole ==
    LET w == Whole(input.wire)
    IN  /\ IsPrefix(parts, w.parts \o w.doubt)
        /\ fed = Len(input.wire) /\ Answered /\ (result = "None" => finished) =>
              IsPrefix(w.parts, parts) /\ result = w.ends

\* The search that goes on at boundary_scan_offset has passed over no delimiter,
\* and all offsets are inside the buffer (the slices of next_part do not panic).
NoDelimiterPassed ==
    LET body_start == FindBytes(buffer, pos, CRLF \o CRLF) + 4
    IN  /\ pos <= Len(buffer) /\ boundary_scan_offset <= Len(buffer)
        /\ state = "Initial" =>
              \A i \in pos..(boundary_scan_offset - 1) : ~At(buffer, i, first_delimiter)
        /\ state = "InPart" /\ body_start # NotFound + 4 =>
              \A i \in body_start..(boundary_scan_offset - 1) : ~At(buffer, i, inner_delimiter)

\* What MultipartBuilder::build puts out, the parser takes apart again.
BuildRoundTrip ==
    input.built # << >> /\ fed = Len(input.wire) /\ Answered =>
        finished /\ parts = [i \in DOMAIN input.built |-> input.built[i].body]
=============================================================================
