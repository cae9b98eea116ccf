----------------------------- MODULE ChunkLine ------------------------------
(***************************************************************************)
(* The chunk-size line of the chunked transfer coding: the parsing part of *)
(* process_chunked_size, validate_chunk_ext and parse_quoted_string of     *)
(* src/src/decoder/body.rs.                                                *)
(***************************************************************************)
EXTENDS Lines

CONSTANTS
    HexVal,     \* hexadecimal digit -> its value
    Token,      \* token characters (is_token_char), the digits among them
    QdText,     \* characters allowed in a quoted-string (is_qdtext)
    Escapable,  \* characters allowed after a backslash in a quoted-string
    UsizeMax    \* usize::MAX

ASSUME ChunkLineAssumption ==
    /\ UsizeMax \in Nat
    /\ \A d \in DOMAIN HexVal : HexVal[d] \in 0..15
    /\ DOMAIN HexVal \subseteq Token

\* from_str_radix(_, 16), before the overflow check.
HexValue(digits) ==
    LET value[i \in 0..Len(digits)] ==
            IF i = 0 THEN 0 ELSE 16 * value[i - 1] + HexVal[digits[i]]
    IN  value[Len(digits)]

-----------------------------------------------------------------------------
\* validate_chunk_ext and parse_quoted_string, as the positions of their
\* loops.  "next" is the head of the outer loop, "semi" after ";", "name" and
\* "value" inside a token, "spaced" after a name and whitespace, "equals" after
\* "=", "quoted" and "escaped" inside a quoted-string.
ExtEdges == {
    <<"next",    Ws,        "next">>,    <<"next",    {";"},     "semi">>,
    <<"semi",    Ws,        "semi">>,    <<"semi",    Token,     "name">>,
    <<"name",    Token,     "name">>,    <<"name",    Ws,        "spaced">>,
    <<"name",    {"="},     "equals">>,  <<"name",    {";"},     "semi">>,
    <<"spaced",  Ws,        "spaced">>,  <<"spaced",  {"="},     "equals">>,
    <<"spaced",  {";"},     "semi">>,
    <<"equals",  Ws,        "equals">>,  <<"equals",  Token,     "value">>,
    <<"equals",  {"DQUOTE"}, "quoted">>,
    <<"value",   Token,     "value">>,   <<"value",   Ws,        "next">>,
    <<"value",   {";"},     "semi">>,
    <<"quoted",  QdText,    "quoted">>,  <<"quoted",  {"DQUOTE"}, "next">>,
    <<"quoted",  {"BSLASH"}, "escaped">>,
    <<"escaped", Escapable, "quoted">> }

\* Mutant: an extension without a name ("5;") is let through.
ExtAcceptingNoName == {"next", "semi", "name", "spaced", "value"}

\* Where the input may end without an error.
ExtAccepting == {"next", "name", "spaced", "value"}

\* One byte; a position no edge leads to is an InvalidData return.
ExtStep(at, b) ==
    LET to == {e[3] : e \in {x \in ExtEdges : x[1] = at /\ b \in x[2]}}
    IN  IF to = {} THEN "error" ELSE CHOOSE q \in to : TRUE

ValidateChunkExt(ext) ==
    LET at[i \in 0..Len(ext)] ==
            IF i = 0 THEN "next" ELSE ExtStep(at[i - 1], ext[i])
    IN  at[Len(ext)] \in ExtAccepting

-----------------------------------------------------------------------------
\* hex_end: the length of the run of digits the line starts with.
HexEnd(line) ==
    CHOOSE n \in 0..Len(line) :
        /\ \A i \in 1..n : line[i] \in DOMAIN HexVal
        /\ n < Len(line) => line[n + 1] \notin DOMAIN HexVal

ChunkSize(line) == HexValue(Prefix(line, HexEnd(line)))

\* The line is accepted: at least one digit, then nothing or, after bad
\* whitespace, a valid chunk extension; and the size fits a usize.
ValidChunkLine(line) ==
    LET rest == Suffix(line, HexEnd(line))
    IN  /\ HexEnd(line) > 0
        /\ \/ rest = << >>
           \/ \E k \in 1..Len(rest) :
                 /\ rest[k] = ";"
                 /\ \A i \in 1..(k - 1) : rest[i] \in Ws
                 /\ ValidateChunkExt(Suffix(rest, k - 1))
        /\ ChunkSize(line) \in 0..UsizeMax
=============================================================================
