------------------------------- MODULE Lines --------------------------------
(***************************************************************************)
(* Bytes and the lines they form (find_line, parse_header_line of          *)
(* src/src/decoder/body.rs).                                               *)
(*                                                                         *)
(* A byte is a string: the delimiters the decoders look for are named      *)
(* below, hexadecimal digits and token characters are constants of         *)
(* ChunkLine.  One symbol of DOMAIN Field stands for the whole text        *)
(* "Name: value" of a header field, so that a header line is that symbol   *)
(* followed by optional whitespace; every other non-empty line is          *)
(* malformed for parse_header_line.                                        *)
(***************************************************************************)
EXTENDS Integers, Sequences

CONSTANTS
    Field,      \* field text -> [name, list]: the lower-case name and the
                \* comma separated elements of the value
    NonUtf8     \* bytes that are not valid UTF-8 (obs-text)

CR == "CR"
LF == "LF"
Ws == {"SP", "HT"}

\* The first n elements of s, and what follows them (buf.drain(..n)).
Prefix(s, n) == SubSeq(s, 1, n)
Suffix(s, n) == SubSeq(s, n + 1, Len(s))

\* s holds CRLF right after its first p bytes.
CrlfAt(s, p) == p + 2 <= Len(s) /\ s[p + 1] = CR /\ s[p + 2] = LF

\* find_line: the length of the first line of s if s holds a whole line; the
\* set has at most one element.
LineEnds(s) ==
    {p \in 0..Len(s) : CrlfAt(s, p) /\ \A q \in 0..(p - 1) : ~CrlfAt(s, q)}

\* String::from_utf8 succeeds.
IsUtf8(line) == \A i \in 1..Len(line) : line[i] \notin NonUtf8

\* parse_header_line: the fields a line can be parsed to, none if it is
\* malformed.
ParseHeaderLine(line) ==
    {f \in DOMAIN Field :
        line[1] = f /\ \A i \in 2..Len(line) : line[i] \in Ws}
=============================================================================
